----------------------------- MODULE TCLProofs -----------------------------
(***************************************************************************)
(* Proofs about TCL for every card, every application and any number of    *)
(* calls, losses and waiting time extensions.                              *)
(***************************************************************************)
EXTENDS TCL, TLAPS

---------------------------------------------------------------------------
(* Facts about the operators.                                              *)

(* The frame waiting time is a natural number. *)
LEMMA FwtType == \A fwi \in 0..15 : fwi_to_fwt(fwi) \in Nat
<1> SUFFICES ASSUME NEW fwi \in 0..15 PROVE fwi_to_fwt(fwi) \in Nat
  OBVIOUS
<1>1. Lesser(fwi, 14) + 1 \in 1..15
  BY DEF Lesser
<1>2. \A i \in 1..15 : PowersOfTwo[i] \in Nat
  BY DEF PowersOfTwo
<1> QED BY <1>1, <1>2 DEF fwi_to_fwt

(* A negotiated divisor is one of the four the code knows. *)
LEMMA DiType == ASSUME NEW D \in SUBSET (1..3) PROVE d_to_di(D) \in 0..3
<1> DEFINE S == D \cap ReaderDI
<1>1. CASE S = {}
  BY <1>1 DEF d_to_di
<1>2. CASE S # {}
  <2>1. \A d \in S : d = 1 \/ d = 2 \/ d = 3
    OBVIOUS
  <2>2. \E d \in S : \A e \in S : e <= d
    <3>1. CASE 3 \in S  BY <2>1, <3>1
    <3>2. CASE 3 \notin S /\ 2 \in S  BY <2>1, <3>2
    <3>3. CASE 3 \notin S /\ 2 \notin S
      <4>1. PICK d \in S : d = 1  BY <1>2, <2>1, <3>3
      <4>2. \A e \in S : e <= d  BY <2>1, <3>3, <4>1
      <4> QED BY <4>1, <4>2
    <3> QED BY <3>1, <3>2, <3>3
  <2>3. d_to_di(D) \in S
    BY <1>2, <2>2 DEF d_to_di
  <2>4. d_to_di(D) = 1 \/ d_to_di(D) = 2 \/ d_to_di(D) = 3
    BY <2>1, <2>3
  <2> QED BY <2>4
<1> QED BY <1>1, <1>2

(* What tcl_parse_ats leaves in the handle. *)
LEMMA ParsedTypes ==
    ASSUME NEW ats \in ATSRecord, fsc \in Nat, fwt \in Nat
    PROVE  /\ \A v \in ParsedFsc(ats) : v \in Nat
           /\ fsc <= MTU => \A v \in ParsedFsc(ats) : v <= MTU
           /\ ParsedFwt(ats) \in Nat
           /\ ParsedTa(ats) \in [dr : SUBSET (1..3), ds : SUBSET (1..3)]
<1>1. \A v \in iso14443_fsdi_to_fsd(ats.fsci, fsc, BeyondTable) : v \in Nat
  BY CardAssumption DEF iso14443_fsdi_to_fsd, FsdiTable, ATSRecord
<1>2. \A v \in ParsedFsc(ats) : v \in Nat /\ v <= MTU
  BY <1>1, SizesAssumption DEF ParsedFsc, Lesser
<1>3. ParsedFwt(ats) \in Nat
  <2>1. ats.fwi \in 0..15 /\ 4 \in 0..15  BY DEF ATSRecord
  <2> QED BY <2>1, FwtType DEF ParsedFwt
<1>4. ParsedTa(ats) \in [dr : SUBSET (1..3), ds : SUBSET (1..3)]
  BY DEF ParsedTa, NoTA, ATSRecord
<1> QED BY <1>2, <1>3, <1>4

(* The frame size announced in RATS leaves room for prologue and CRC. *)
LEMMA FsdType == FSD \in Nat /\ FSD >= 16
<1>1. FsdValues = {16, 24, 32, 40, 48, 64, 96, 128, 256}
  BY DEF FsdValues, FsdiTable
<1>2. FsdiTable[1] = 16
  BY DEF FsdiTable
<1>3. CASE \E v \in FsdValues : v <= MRU
  <2>1. \E v \in FsdValues : v <= MRU /\ \A w \in FsdValues : w <= MRU => w <= v
    BY <1>1, <1>3, SizesAssumption
  <2>2. FSD \in FsdValues
    BY <1>3, <2>1 DEF FSD, iso14443_fsd_approx
  <2> QED BY <1>1, <2>2
<1>4. CASE ~ \E v \in FsdValues : v <= MRU
  BY <1>2, <1>4 DEF FSD, iso14443_fsd_approx
<1> QED BY <1>3, <1>4

Kinds == {"RATS", "ATS", "PPS", "I", "R", "WTX", "DESELECT", "none"}

(* Blocks are built well formed. *)
LEMMA FrameType ==
    ASSUME NEW d \in {"down", "up", "quiet"}, NEW k \in Kinds, NEW n \in Bit,
           NEW m \in BOOLEAN, NEW s \in Seg, NEW i \in Nat
    PROVE  Frame(d, k, n, m, s, i) \in Block
BY DEF Frame, Block, Kinds

LEMMA NoBlockType == NoSeg \in Seg /\ Quiet \in Block /\ Silence \in Block
BY DEF Quiet, Silence, NoSeg, Frame, Block, Seg, Bit

(* The I-block tcl_refill_xcvb builds: its length, and the step's types.   *)
LEMMA NetLenType ==
    ASSUME fsc \in Nat, NEW todo \in Nat
    PROVE  /\ NetLen(todo) \in Nat
           /\ NetLen(todo) <= todo
           /\ fsc > 0 => NetLen(todo) + 1 <= fsc
BY DEF NetLen

LEMMA RefillType ==
    ASSUME TypeOK, NEW c \in Ctx, tcl_refill_xcvb(c)
    PROVE  /\ toggle' \in Bit /\ ctx' \in Ctx /\ timeout' \in Nat
           /\ air' \in Block
           /\ op' \in {"none", "xchg"}
           /\ ret' = ret \/ ret' = [of |-> "xchg", val |-> "err"]
<1> DEFINE n == NetLen(c.tx_len - c.next_tx)
<1>1. CASE c.next_tx >= c.tx_len
  BY <1>1, NoBlockType DEF TypeOK, tcl_refill_xcvb, Return
<1>2. CASE ~(c.next_tx >= c.tx_len)
  <2>1. c.tx_len - c.next_tx \in Nat /\ c.next_tx \in Nat /\ c.call \in Nat
    BY <1>2 DEF Ctx
  <2>2. n \in Nat
    BY <2>1, NetLenType DEF TypeOK
  <2>3. tcl_build_prologue2("I") \in Bit
    BY DEF tcl_build_prologue2, TypeOK, Bit
  <2>4. [src |-> c.call, off |-> c.next_tx, len |-> n] \in Seg
    BY <2>1, <2>2 DEF Seg
  <2>5. (c.next_tx + n < c.tx_len) \in BOOLEAN
    OBVIOUS
  <2>6. Frame("down", "I", tcl_build_prologue2("I"), c.next_tx + n < c.tx_len,
              [src |-> c.call, off |-> c.next_tx, len |-> n], 0) \in Block
    BY <2>3, <2>4, <2>5, FrameType DEF Kinds
  <2>7. [c EXCEPT !.next_tx = @ + n] \in Ctx
    BY <2>1, <2>2 DEF Ctx
  <2> HIDE DEF n
  <2>8. /\ toggle' = tcl_build_prologue2("I")
        /\ ctx' = [c EXCEPT !.next_tx = @ + n]
        /\ air' = Frame("down", "I", tcl_build_prologue2("I"), c.next_tx + n < c.tx_len,
                        [src |-> c.call, off |-> c.next_tx, len |-> n], 0)
        /\ timeout' = fwt /\ op' = "xchg" /\ ret' = ret
    BY <1>2 DEF tcl_refill_xcvb, Transmit, n
  <2> QED BY <2>3, <2>6, <2>7, <2>8 DEF TypeOK
<1> QED BY <1>1, <1>2

---------------------------------------------------------------------------
(* Type correctness.                                                       *)

(* Remainders and flipped bits stay in range. *)
LEMMA ModType == \A n \in Nat : n % 4 \in 0..3 /\ n % 64 \in Nat
OBVIOUS

LEMMA FlipType == \A b \in Bit : 1 - b \in Bit
BY DEF Bit

LEMMA FlipCard ==
    ASSUME NEW c \in Card, NEW s \in Seq(Seg)
    PROVE  /\ [c EXCEPT !.num = 1 - @] \in Card
           /\ [c EXCEPT !.num = 1 - @, !.chain = s] \in Card
<1>1. 1 - c.num \in Bit
  BY FlipType DEF Card
<1> QED BY <1>1 DEF Card

LEMMA FreshType == \A ats \in ATSs : FreshCard(ats) \in Card
<1> SUFFICES ASSUME NEW ats \in ATSs PROVE FreshCard(ats) \in Card
  OBVIOUS
<1>1. ats \in ATSRecord  BY CardAssumption
<1>2. <<>> \in Seq(Seg) /\ NoSeg \in Seg /\ 1 \in Bit /\ 0 \in 0..3
  BY NoBlockType DEF Bit
<1> HIDE DEF ATSRecord, Seg, Bit, NoSeg
<1> QED BY <1>1, <1>2 DEF FreshCard, Card

(* A card that answers: the block on the air, the losses and the card keep *)
(* their types.                                                            *)
LEMMA AnswerType ==
    ASSUME NEW f \in Block, CardAnswers(f), losses \in Nat
    PROVE  air' \in Block /\ losses' \in Nat
<1>1. \A b \in BOOLEAN : [f EXCEPT !.foreign = b] \in Block
  BY DEF Block
<1>2. PICK b \in {FALSE, ForeignCid /\ losses < MaxLoss} :
         /\ air' = IF rate.rx = card.dsi THEN [f EXCEPT !.foreign = b] ELSE Silence
         /\ losses' = IF b THEN losses + 1 ELSE losses
  BY DEF CardAnswers
<1>3. b \in BOOLEAN
  OBVIOUS
<1>4. air' \in Block
  BY <1>1, <1>2, <1>3, NoBlockType
<1> QED BY <1>2, <1>4

LEMMA SendResponseType ==
    ASSUME NEW c \in Card, SendResponse(c), losses \in Nat
    PROVE  card' \in Card /\ air' \in Block /\ losses' \in Nat
<1> DEFINE n == Lesser(c.resp.len, FSD - 3)
<1>1. n \in Nat /\ n <= c.resp.len
  BY FsdType DEF Lesser, Card, Seg
<1>2. c.resp.src \in Nat /\ c.resp.off \in Nat /\ c.resp.len \in Nat /\ c.num \in Bit
  BY DEF Card, Seg
<1>3. [src |-> c.resp.src, off |-> c.resp.off + n, len |-> c.resp.len - n] \in Seg
  BY <1>1, <1>2 DEF Seg
<1>4. [src |-> c.resp.src, off |-> c.resp.off, len |-> n] \in Seg
  BY <1>1, <1>2 DEF Seg
<1>5. (n < c.resp.len) \in BOOLEAN
  OBVIOUS
<1>6. Frame("up", "I", c.num, n < c.resp.len,
            [src |-> c.resp.src, off |-> c.resp.off, len |-> n], 0) \in Block
  BY <1>2, <1>4, <1>5, FrameType DEF Kinds
<1>7. card' \in Card
  BY <1>3 DEF SendResponse, Card
<1>8. air' \in Block /\ losses' \in Nat
  BY <1>6, AnswerType DEF SendResponse
<1> QED BY <1>7, <1>8

LEMMA AskForTimeType ==
    ASSUME NEW c \in Card, AskForTime(c), losses \in Nat
    PROVE  card' \in Card /\ air' \in Block /\ losses' \in Nat
<1>1. card' \in Card
  BY DEF AskForTime, Card
<1>2. PICK m \in WTXMs : CardAnswers(Frame("up", "WTX", 0, FALSE, NoSeg, m))
  BY DEF AskForTime
<1>3. Frame("up", "WTX", 0, FALSE, NoSeg, m) \in Block
  BY CardAssumption, NoBlockType, FrameType DEF Kinds, Bit
<1> QED BY <1>1, <1>2, <1>3, AnswerType

(* A block sent without information field is well formed. *)
LEMMA PlainFrameType ==
    ASSUME NEW d \in {"down", "up"}, NEW k \in Kinds, NEW n \in Bit, NEW i \in Nat
    PROVE  Frame(d, k, n, FALSE, NoSeg, i) \in Block
BY NoBlockType, FrameType

(* Every step of the specification keeps the types. *)
LEMMA TypeStep == TypeOK /\ [Next]_vars => TypeOK'
<1> SUFFICES ASSUME TypeOK, [Next]_vars PROVE TypeOK'
  OBVIOUS
<1> USE NoBlockType
<1>1. CASE rfid_layer2_init
  <2>1. card' \in Card /\ rate' \in [rx : 0..3, tx : 0..3]
    BY <1>1, FreshType DEF rfid_layer2_init
  <2> QED BY <1>1, <2>1 DEF TypeOK, rfid_layer2_init, handle, app
<1>2. CASE tcl_init
  <2>1. /\ state' \in States /\ toggle' \in Bit /\ skew' \in Bit
        /\ ta' \in [dr : SUBSET (1..3), ds : SUBSET (1..3)]
    BY <1>2 DEF tcl_init, States, Bit, NoTA
  <2> QED BY <1>2, <2>1 DEF TypeOK, tcl_init, app
<1>3. CASE tcl_connect
  <2>1. air' \in Block /\ timeout' \in Nat
    <3>1. Frame("down", "RATS", 0, FALSE, NoSeg, 0) \in Block
      BY PlainFrameType DEF Kinds, Bit
    <3>2. ActivationFwt \in Nat
      BY DEF ActivationFwt
    <3> QED BY <1>3, <3>1, <3>2 DEF TypeOK, tcl_connect, Transmit, Return
  <2>2. /\ op' \in {"none", "rats"}
        /\ ret' = ret \/ ret' = [of |-> "connect", val |-> "err"]
    BY <1>3 DEF tcl_connect, Transmit, Return
  <2> QED BY <1>3, <2>1, <2>2 DEF TypeOK, tcl_connect, handle
<1>4. ASSUME NEW len \in TxLens, tcl_transceive(len) PROVE TypeOK'
  <2>1. [call |-> ctx.call + 1, tx_len |-> len, next_tx |-> 0, rx |-> <<>>] \in Ctx
    BY AppAssumption DEF TypeOK, Ctx
  <2>2. /\ toggle' \in Bit /\ ctx' \in Ctx /\ timeout' \in Nat /\ air' \in Block
        /\ op' \in {"none", "xchg"}
        /\ ret' = ret \/ ret' = [of |-> "xchg", val |-> "err"]
    BY <1>4, <2>1, RefillType DEF tcl_transceive
  <2> QED BY <1>4, <2>2 DEF tcl_transceive, TypeOK
<1>5. CASE tcl_deselect
  <2>1. air' \in Block /\ timeout' \in Nat
    <3>1. Frame("down", "DESELECT", 0, FALSE, NoSeg, 0) \in Block
      BY PlainFrameType DEF Kinds, Bit
    <3>2. ActivationFwt \in Nat
      BY DEF ActivationFwt
    <3> QED BY <1>5, <3>1, <3>2 DEF tcl_deselect, Transmit
  <2> QED BY <1>5, <2>1 DEF TypeOK, tcl_deselect, handle, Transmit
<1>6. CASE tcl_fini
  BY <1>6 DEF TypeOK, tcl_fini, app, States
<1>7. CASE RatsFails
  BY <1>7 DEF TypeOK, RatsFails, Return, States
<1>8. CASE RatsAnswered
  <2> DEFINE ats == card.ats
  <2>1. ats \in ATSRecord
    BY DEF TypeOK, Card
  <2>2. /\ \A v \in ParsedFsc(ats) : v \in Nat
        /\ ParsedFwt(ats) \in Nat
        /\ ParsedTa(ats) \in [dr : SUBSET (1..3), ds : SUBSET (1..3)]
    BY <2>1, ParsedTypes DEF TypeOK
  <2>3. d_to_di(ParsedTa(ats).dr) \in 0..3 /\ d_to_di(PpsDs(ParsedTa(ats))) \in 0..3
    BY <2>2, DiType DEF PpsDs
  <2>4. d_to_di(ParsedTa(ats).dr) + 4 * d_to_di(PpsDs(ParsedTa(ats))) \in Nat
    BY <2>3
  <2>5. CASE ats.len = 0
    BY <1>8, <2>5 DEF TypeOK, RatsAnswered, Return, States
  <2>6. CASE ats.len # 0 /\ OffersDivisors(ParsedTa(ats))
    <3>1. Frame("down", "PPS", 0, FALSE, NoSeg,
                d_to_di(ParsedTa(ats).dr) + 4 * d_to_di(PpsDs(ParsedTa(ats)))) \in Block
      BY <2>4, PlainFrameType DEF Kinds, Bit
    <3> QED BY <1>8, <2>2, <2>6, <3>1 DEF TypeOK, RatsAnswered, Transmit, States
  <2>7. CASE ats.len # 0 /\ ~OffersDivisors(ParsedTa(ats))
    BY <1>8, <2>2, <2>7 DEF TypeOK, RatsAnswered, Return, States
  <2> QED BY <2>5, <2>6, <2>7
<1>9. CASE PpsFails
  BY <1>9 DEF TypeOK, PpsFails, handle, Return
<1>10. CASE PpsAnswered
  <2>1. d_to_di(ta.dr) \in 0..3
    BY DiType DEF TypeOK
  <2> QED BY <1>10, <2>1 DEF TypeOK, PpsAnswered, SetSpeeds, Return, States
<1>11. CASE XchgFails
  BY <1>11 DEF TypeOK, XchgFails, handle, Return
<1>12. CASE XchgRBlock
  <2>1. CASE WrongToggle(air) \/ ~check_cid(air)
    BY <1>12, <2>1 DEF TypeOK, XchgRBlock, Return
  <2>2. CASE ~(WrongToggle(air) \/ ~check_cid(air))
    <3>1. /\ toggle' \in Bit /\ ctx' \in Ctx /\ timeout' \in Nat /\ air' \in Block
          /\ op' \in {"none", "xchg"}
          /\ ret' = ret \/ ret' = [of |-> "xchg", val |-> "err"]
      BY <1>12, <2>2, RefillType DEF XchgRBlock, TypeOK
    <3> QED BY <1>12, <3>1 DEF XchgRBlock, TypeOK
  <2> QED BY <2>1, <2>2
<1>13. CASE XchgSBlock
  <2>1. air.inf % 64 \in Nat /\ WtxTimeout(air.inf) \in Nat
    <3>1. air.inf \in Nat /\ fwt \in Nat  BY DEF TypeOK, Block
    <3>2. air.inf % 64 \in Nat  BY <3>1, ModType
    <3> QED BY <3>1, <3>2 DEF WtxTimeout
  <2>2. Frame("down", "WTX", 0, FALSE, NoSeg, air.inf % 64) \in Block
    BY <2>1, PlainFrameType DEF Kinds, Bit
  <2>3. timeout' \in Nat /\ air' \in Block
    BY <1>13, <2>1, <2>2 DEF TypeOK, XchgSBlock, Transmit, Return
  <2>4. /\ op' \in {"none", "xchg"}
        /\ \/ ret' = ret
           \/ ret' = [of |-> "xchg", val |-> "ok"]
           \/ ret' = [of |-> "xchg", val |-> "err"]
    BY <1>13 DEF XchgSBlock, Transmit, Return
  <2> QED BY <1>13, <2>3, <2>4 DEF TypeOK, XchgSBlock, handle
<1>14. CASE XchgIBlock
  <2>1. tcl_build_prologue2("R") \in Bit
    BY DEF TypeOK, Bit, tcl_build_prologue2
  <2>2. Frame("down", "R", tcl_build_prologue2("R"), FALSE, NoSeg, 0) \in Block
    BY <2>1, PlainFrameType DEF Kinds
  <2>3. [ctx EXCEPT !.rx = Append(@, air.seg)] \in Ctx
    <3>1. air.seg \in Seg  BY DEF TypeOK, Block
    <3>2. Append(ctx.rx, air.seg) \in Seq(Seg)
      BY <3>1 DEF TypeOK, Ctx
    <3> QED BY <3>2 DEF TypeOK, Ctx
  <2>4. toggle' \in Bit /\ ctx' \in Ctx /\ timeout' \in Nat /\ air' \in Block
    BY <1>14, <2>1, <2>2, <2>3 DEF TypeOK, XchgIBlock, Transmit, Return
  <2>5. /\ op' \in {"none", "xchg"}
        /\ ret' = ret \/ ret' = [of |-> "xchg", val |-> "ok"]
    BY <1>14 DEF XchgIBlock, Transmit, Return
  <2> QED BY <1>14, <2>4, <2>5 DEF TypeOK, XchgIBlock
<1>15. CASE DeselectFails
  BY <1>15 DEF TypeOK, DeselectFails, handle, Return
<1>16. CASE DeselectAnswered
  BY <1>16 DEF TypeOK, DeselectAnswered, Return, States
<1>17. CASE CardMute
  BY <1>17 DEF TypeOK, CardMute, handle, app, Untaken, Bit
<1>18. CASE CardRats
  BY <1>18, PlainFrameType DEF TypeOK, CardRats, handle, app, Card, Kinds, Bit
<1>19. CASE CardPps
  <2>1. air.inf % 4 \in 0..3
    BY ModType DEF TypeOK, Block
  <2>2. air.inf \div 4 \in 0..3
    <3>1. card.ats.ds \in SUBSET (1..3)
      BY DEF TypeOK, Card, ATSRecord
    <3> QED BY <1>19, <3>1 DEF CardPps, Obeys, PpsAcceptable, Offered
  <2>3. [card EXCEPT !.dri = air.inf % 4, !.dsi = air.inf \div 4] \in Card
    BY <2>1, <2>2 DEF TypeOK, Card
  <2> QED BY <1>19, <2>3, PlainFrameType DEF TypeOK, CardPps, handle, app, Kinds, Bit
<1>20. CASE CardIBlock
  <2> DEFINE got == Append(card.chain, air.seg)
             c   == [card EXCEPT !.num = 1 - @, !.chain = IF air.more THEN got ELSE <<>>]
  <2>1. got \in Seq(Seg)
    BY DEF TypeOK, Card, Block
  <2>2. c \in Card
    <3>1. (IF air.more THEN got ELSE <<>>) \in Seq(Seg)
      BY <2>1
    <3> QED BY <3>1, FlipCard DEF TypeOK
  <2> HIDE DEF got
  <2>3. CASE air.more
    <3>1. c.num \in Bit
      BY <2>2 DEF Card
    <3> HIDE DEF c
    <3>2. Frame("up", "R", c.num, FALSE, NoSeg, 0) \in Block
      BY <3>1, PlainFrameType DEF Kinds
    <3>3. card' = c /\ executed' = executed
          /\ CardAnswers(Frame("up", "R", c.num, FALSE, NoSeg, 0))
      BY <1>20, <2>3 DEF CardIBlock, c, got
    <3> QED BY <1>20, <2>2, <3>2, <3>3, AnswerType DEF TypeOK, CardIBlock, handle, app
  <2>4. CASE ~air.more
    <3> HIDE DEF c
    <3>1. PICK n \in RespLens :
             /\ executed' = Append(executed, [call |-> ctx.call, cmd |-> got,
                                              asked |-> ctx.tx_len, resp |-> n])
             /\ LET d == [c EXCEPT !.wtx = 0,
                                   !.resp = [src |-> ctx.call, off |-> 0, len |-> n]]
                IN SendResponse(d) \/ AskForTime(d)
      BY <1>20, <2>4 DEF CardIBlock, c, got
    <3> DEFINE d == [c EXCEPT !.wtx = 0,
                              !.resp = [src |-> ctx.call, off |-> 0, len |-> n]]
    <3>2. n \in Nat /\ ctx.call \in Nat /\ ctx.tx_len \in Nat
      BY CardAssumption DEF TypeOK, Ctx
    <3>3. d \in Card
      BY <2>2, <3>2 DEF Card, Seg
    <3>4. card' \in Card /\ air' \in Block /\ losses' \in Nat
      <4> HIDE DEF d
      <4> QED BY <3>1, <3>3, SendResponseType, AskForTimeType DEF d, TypeOK
    <3>5. executed' \in Seq([call : Nat, cmd : Seq(Seg), asked : Nat, resp : Nat])
      BY <2>1, <3>1, <3>2 DEF TypeOK
    <3> QED BY <1>20, <3>4, <3>5 DEF TypeOK, CardIBlock, handle, app
  <2> QED BY <2>3, <2>4
<1>21. CASE CardRBlock
  <2>1. [card EXCEPT !.num = 1 - @] \in Card
    BY FlipCard DEF TypeOK, Card
  <2>2. card' \in Card /\ air' \in Block /\ losses' \in Nat
    BY <1>21, <2>1, SendResponseType DEF CardRBlock, TypeOK
  <2> QED BY <1>21, <2>2 DEF TypeOK, CardRBlock, handle, app
<1>22. CASE CardWtx
  <2>1. card' \in Card /\ air' \in Block /\ losses' \in Nat
    BY <1>22, SendResponseType, AskForTimeType DEF CardWtx, TypeOK
  <2> QED BY <1>22, <2>1 DEF TypeOK, CardWtx, handle, app
<1>23. CASE CardDeselect
  BY <1>23, PlainFrameType DEF TypeOK, CardDeselect, handle, app, Card, Kinds, Bit
<1>24. CASE LoseDown
  BY <1>24 DEF TypeOK, LoseDown, handle, app, Untaken, Bit
<1>25. CASE LoseUp
  BY <1>25 DEF TypeOK, LoseUp, handle, app
<1>26. CASE UNCHANGED vars
  BY <1>26 DEF TypeOK, vars, handle, app
<1> QED
  BY <1>1, <1>2, <1>3, <1>4, <1>5, <1>6, <1>7, <1>8, <1>9, <1>10, <1>11, <1>12, <1>13,
     <1>14, <1>15, <1>16, <1>17, <1>18, <1>19, <1>20, <1>21, <1>22, <1>23, <1>24, <1>25,
     <1>26 DEF Next, Application, Reader, CardStep, Loss

LEMMA TypeInit == Init => TypeOK
<1> SUFFICES ASSUME Init PROVE TypeOK
  OBVIOUS
<1>1. card \in Card
  BY FreshType DEF Init
<1>2. /\ state \in States /\ toggle \in Bit
      /\ ta \in [dr : SUBSET (1..3), ds : SUBSET (1..3)]
      /\ skew \in Bit
  BY DEF Init, States, Bit, NoTA
<1>3. ctx \in Ctx /\ rate \in [rx : 0..3, tx : 0..3]
  BY DEF Init, Ctx
<1>4. executed \in Seq([call : Nat, cmd : Seq(Seg), asked : Nat, resp : Nat])
  BY DEF Init
<1> QED BY <1>1, <1>2, <1>3, <1>4, NoBlockType DEF Init, TypeOK

(* Every reachable state of the handle, the link and the card is well      *)
(* typed: whatever a card answers, tcl_parse_ats, the chaining and the     *)
(* waiting time code leave the handle and its context in range.            *)
THEOREM TypeCorrect == Spec => []TypeOK
BY TypeInit, TypeStep, PTL DEF Spec

---------------------------------------------------------------------------
(* Block numbers.  ToggleParity and RAckIsFresh are not inductive: they    *)
(* rest on which numbers a block on the air carries, on one exchange being *)
(* in progress at a time, and on what the toggle has been doing while a    *)
(* handle that never got its RATS through was already sending blocks.      *)

HalfDuplex ==
    /\ op = "none" <=> air.dir = "quiet"
    /\ air.kind = "RATS" => op = "rats"
    /\ op = "rats" => state = "INITIAL"

BlockNumbers ==
    /\ air.dir = "down" /\ Numbered => air.num = toggle
    /\ air.dir = "up" /\ Numbered => air.num = card.num

UnactivatedParity ==
    state = "INITIAL" /\ card.st = "ACTIVE" => ((toggle = 1) <=> (Due = 0))

NumberingInv ==
    HalfDuplex /\ BlockNumbers /\ UnactivatedParity /\ ToggleParity /\ RAckIsFresh

(* What tcl_refill_xcvb does to the toggle and the link. *)
LEMMA RefillEffect ==
    ASSUME TypeOK, NEW c \in Ctx, tcl_refill_xcvb(c)
    PROVE  \/ toggle' = toggle /\ air' = Quiet /\ op' = "none"
           \/ /\ toggle' = 1 - toggle /\ op' = "xchg"
              /\ air'.dir = "down" /\ air'.kind = "I" /\ air'.num = 1 - toggle
              /\ fsc > 0 => air'.seg.len + 1 <= fsc
<1>1. CASE c.next_tx >= c.tx_len
  BY <1>1 DEF tcl_refill_xcvb, Return
<1>2. CASE ~(c.next_tx >= c.tx_len)
  <2>1. c.tx_len - c.next_tx \in Nat
    BY <1>2 DEF Ctx
  <2>2. fsc > 0 => NetLen(c.tx_len - c.next_tx) + 1 <= fsc
    BY <2>1, NetLenType DEF TypeOK
  <2>3. /\ toggle' = 1 - toggle /\ op' = "xchg"
        /\ air' = Frame("down", "I", 1 - toggle,
                        c.next_tx + NetLen(c.tx_len - c.next_tx) < c.tx_len,
                        [src |-> c.call, off |-> c.next_tx,
                         len |-> NetLen(c.tx_len - c.next_tx)], 0)
    BY <1>2 DEF tcl_refill_xcvb, Transmit, tcl_build_prologue2
  <2> QED BY <2>2, <2>3 DEF Frame
<1> QED BY <1>1, <1>2

(* What the card's answers look like. *)
LEMMA SendResponseEffect ==
    ASSUME NEW c \in Card, SendResponse(c)
    PROVE  /\ card'.num = c.num /\ card'.st = c.st
           /\ air'.dir = "up"
           /\ air'.kind = "none" \/ (air'.kind = "I" /\ air'.num = c.num)
<1>1. card'.num = c.num /\ card'.st = c.st
  BY DEF SendResponse, Card
<1>2. /\ air'.dir = "up"
      /\ air'.kind = "none" \/ (air'.kind = "I" /\ air'.num = c.num)
  BY DEF SendResponse, CardAnswers, Frame, Silence
<1> QED BY <1>1, <1>2

LEMMA AskForTimeEffect ==
    ASSUME NEW c \in Card, AskForTime(c)
    PROVE  /\ card'.num = c.num /\ card'.st = c.st
           /\ air'.dir = "up" /\ air'.kind \in {"none", "WTX"}
<1>1. card'.num = c.num /\ card'.st = c.st
  BY DEF AskForTime, Card
<1>2. air'.dir = "up" /\ air'.kind \in {"none", "WTX"}
  BY DEF AskForTime, CardAnswers, Frame, Silence
<1> QED BY <1>1, <1>2

LEMMA CardIBlockEffect ==
    ASSUME TypeOK, CardIBlock
    PROVE  /\ card'.num = 1 - card.num /\ card'.st = "PROTOCOL"
           /\ card.st = "PROTOCOL"
           /\ air'.dir = "up" /\ air'.kind \in {"none", "WTX", "I", "R"}
           /\ air'.kind \in {"I", "R"} => air'.num = 1 - card.num
<1> DEFINE got == Append(card.chain, air.seg)
           c   == [card EXCEPT !.num = 1 - @, !.chain = IF air.more THEN got ELSE <<>>]
<1>1. got \in Seq(Seg)
  BY DEF TypeOK, Card, Block
<1>2. c \in Card
  <2>1. (IF air.more THEN got ELSE <<>>) \in Seq(Seg)
    BY <1>1
  <2> QED BY <2>1, FlipCard DEF TypeOK
<1>3. c.num = 1 - card.num /\ c.st = card.st
  BY DEF TypeOK, Card
<1>4. card.st = "PROTOCOL"
  BY DEF CardIBlock, Obeys
<1> HIDE DEF got
<1>5. CASE air.more
  <2>1. card' = c /\ CardAnswers(Frame("up", "R", c.num, FALSE, NoSeg, 0))
    BY <1>5 DEF CardIBlock, c, got
  <2> HIDE DEF c
  <2>2. /\ air'.dir = "up"
        /\ air'.kind = "none" \/ (air'.kind = "R" /\ air'.num = c.num)
    BY <2>1 DEF CardAnswers, Frame, Silence
  <2> QED BY <1>3, <1>4, <2>1, <2>2
<1>6. CASE ~air.more
  <2> HIDE DEF c
  <2>1. PICK n \in RespLens :
           LET d == [c EXCEPT !.wtx = 0,
                              !.resp = [src |-> ctx.call, off |-> 0, len |-> n]]
           IN SendResponse(d) \/ AskForTime(d)
    BY <1>6 DEF CardIBlock, c, got
  <2> DEFINE d == [c EXCEPT !.wtx = 0,
                            !.resp = [src |-> ctx.call, off |-> 0, len |-> n]]
  <2>2. n \in Nat /\ ctx.call \in Nat
    BY CardAssumption DEF TypeOK, Ctx
  <2>3. d \in Card /\ d.num = c.num /\ d.st = c.st
    BY <1>2, <2>2 DEF Card, Seg
  <2> HIDE DEF d
  <2>4. SendResponse(d) \/ AskForTime(d)
    BY <2>1 DEF d
  <2> QED BY <1>3, <1>4, <2>3, <2>4, SendResponseEffect, AskForTimeEffect
<1> QED BY <1>5, <1>6

LEMMA NumberingStep == TypeOK /\ NumberingInv /\ [Next]_vars => NumberingInv'
<1> SUFFICES ASSUME TypeOK, NumberingInv, [Next]_vars PROVE NumberingInv'
  OBVIOUS
<1> USE DEF NumberingInv, HalfDuplex, BlockNumbers, UnactivatedParity, ToggleParity,
            RAckIsFresh, Due, Numbered
<1>0. toggle \in {0, 1} /\ skew \in {0, 1} /\ card.num \in {0, 1}
  BY DEF TypeOK, Bit, Card
<1>1. CASE rfid_layer2_init
  BY <1>1 DEF rfid_layer2_init, handle, app
<1>2. CASE tcl_init
  BY <1>2 DEF tcl_init, app
<1>3. CASE tcl_connect
  BY <1>3 DEF tcl_connect, handle, Transmit, Return, Frame, Quiet
<1>4. ASSUME NEW len \in TxLens, tcl_transceive(len) PROVE NumberingInv'
  <2>1. [call |-> ctx.call + 1, tx_len |-> len, next_tx |-> 0, rx |-> <<>>] \in Ctx
    BY AppAssumption DEF TypeOK, Ctx
  <2>2. \/ toggle' = toggle /\ air' = Quiet /\ op' = "none"
        \/ /\ toggle' = 1 - toggle /\ op' = "xchg"
           /\ air'.dir = "down" /\ air'.kind = "I" /\ air'.num = 1 - toggle
    BY <1>4, <2>1, RefillEffect DEF tcl_transceive
  <2>3. op = "none" /\ UNCHANGED <<state, card, paired, skew>>
    BY <1>4 DEF tcl_transceive
  <2> QED BY <1>0, <2>2, <2>3 DEF Quiet, Frame
<1>5. CASE tcl_deselect
  BY <1>5 DEF tcl_deselect, handle, Transmit, Frame
<1>6. CASE tcl_fini
  BY <1>6 DEF tcl_fini, app
<1>7. CASE RatsFails
  BY <1>7 DEF RatsFails, Return, Quiet, Silence, Frame
<1>8. CASE RatsAnswered
  BY <1>8 DEF RatsAnswered, Return, Transmit, Quiet, Frame
<1>9. CASE PpsFails
  BY <1>9 DEF PpsFails, handle, Return, Quiet, Silence, Frame
<1>10. CASE PpsAnswered
  BY <1>10 DEF PpsAnswered, Return, Quiet, Frame
<1>11. CASE XchgFails
  BY <1>11 DEF XchgFails, handle, Return, Quiet, Silence, Frame
<1>12. CASE XchgRBlock
  <2>1. CASE WrongToggle(air) \/ ~check_cid(air)
    BY <1>12, <2>1 DEF XchgRBlock, Return, Quiet, Frame
  <2>2. CASE ~(WrongToggle(air) \/ ~check_cid(air))
    <3>1. \/ toggle' = toggle /\ air' = Quiet /\ op' = "none"
          \/ /\ toggle' = 1 - toggle /\ op' = "xchg"
             /\ air'.dir = "down" /\ air'.kind = "I" /\ air'.num = 1 - toggle
      BY <1>12, <2>2, RefillEffect DEF XchgRBlock, TypeOK
    <3>2. op = "xchg" /\ air.dir = "up" /\ UNCHANGED <<state, card, paired, skew>>
      BY <1>12 DEF XchgRBlock
    <3> QED BY <1>0, <3>1, <3>2 DEF Quiet, Frame
  <2> QED BY <2>1, <2>2
<1>13. CASE XchgSBlock
  BY <1>13 DEF XchgSBlock, handle, Return, Transmit, Quiet, Frame
<1>14. CASE XchgIBlock
  <2>1. CASE (WrongToggle(air) \/ ~check_cid(air)) \/ ~air.more
    <3>1. /\ air' = Quiet /\ op' = "none" /\ air.dir = "up"
          /\ UNCHANGED <<state, toggle, card, paired, skew>>
      BY <1>14, <2>1 DEF XchgIBlock, Return
    <3> QED BY <1>0, <3>1 DEF Quiet, Frame
  <2>2. CASE ~(WrongToggle(air) \/ ~check_cid(air)) /\ air.more
    <3>1. /\ toggle' = 1 - toggle /\ op' = "xchg"
          /\ air'.dir = "down" /\ air'.kind = "R" /\ air'.num = 1 - toggle
      BY <1>14, <2>2 DEF XchgIBlock, Transmit, Frame, tcl_build_prologue2
    <3>2. /\ op = "xchg" /\ air.dir = "up" /\ air.kind = "I"
          /\ UNCHANGED <<state, card, paired, skew>>
      BY <1>14 DEF XchgIBlock
    <3>3. air.num = toggle
      BY <2>2 DEF WrongToggle
    <3> QED BY <1>0, <3>1, <3>2, <3>3
  <2> QED BY <2>1, <2>2
<1>15. CASE DeselectFails
  BY <1>15 DEF DeselectFails, handle, Return, Quiet, Silence, Frame
<1>16. CASE DeselectAnswered
  BY <1>16 DEF DeselectAnswered, Return, Quiet, Frame
<1>17. CASE CardMute
  BY <1>0, <1>17 DEF CardMute, handle, app, Untaken, Silence, Frame
<1>18. CASE CardRats
  <2>1. card.st = "ACTIVE" /\ card'.num = 1 /\ card'.st = "PROTOCOL"
    BY <1>18 DEF CardRats, Obeys, TypeOK, Card
  <2> QED BY <1>0, <1>18, <2>1 DEF CardRats, handle, app, Frame
<1>19. CASE CardPps
  <2>1. card'.num = card.num /\ card'.st = card.st
    BY <1>19 DEF CardPps, TypeOK, Card
  <2> QED BY <1>19, <2>1 DEF CardPps, handle, app, Frame
<1>20. CASE CardIBlock
  <2>1. UNCHANGED <<state, toggle, op, paired, skew>> /\ air.dir = "down" /\ air.kind = "I"
    BY <1>20 DEF CardIBlock, handle, app
  <2> QED BY <1>0, <1>20, <2>1, CardIBlockEffect
<1>21. CASE CardRBlock
  <2>1. [card EXCEPT !.num = 1 - @] \in Card
    BY FlipCard DEF TypeOK, Card
  <2>2. /\ [card EXCEPT !.num = 1 - @].num = 1 - card.num
        /\ [card EXCEPT !.num = 1 - @].st = card.st
    BY DEF TypeOK, Card
  <2>3. /\ card'.num = 1 - card.num /\ card'.st = card.st
        /\ air'.dir = "up"
        /\ air'.kind = "none" \/ (air'.kind = "I" /\ air'.num = 1 - card.num)
    BY <1>21, <2>1, <2>2, SendResponseEffect DEF CardRBlock
  <2>4. /\ UNCHANGED <<state, toggle, op, paired, skew>>
        /\ air.dir = "down" /\ air.kind = "R" /\ card.st = "PROTOCOL"
    BY <1>21 DEF CardRBlock, Obeys, handle, app
  <2> QED BY <1>0, <2>3, <2>4
<1>22. CASE CardWtx
  <2>1. /\ card'.num = card.num /\ card'.st = card.st
        /\ air'.dir = "up"
        /\ \/ air'.kind \in {"none", "WTX"}
           \/ (air'.kind = "I" /\ air'.num = card.num)
    BY <1>22, SendResponseEffect, AskForTimeEffect DEF CardWtx, TypeOK
  <2>2. /\ UNCHANGED <<state, toggle, op, paired, skew>>
        /\ air.dir = "down" /\ air.kind = "WTX"
    BY <1>22 DEF CardWtx, handle, app
  <2> QED BY <1>0, <2>1, <2>2
<1>23. CASE CardDeselect
  <2>1. card'.num = card.num /\ card'.st = "HALT"
    BY <1>23 DEF CardDeselect, TypeOK, Card
  <2> QED BY <1>23, <2>1 DEF CardDeselect, handle, app, Frame
<1>24. CASE LoseDown
  BY <1>0, <1>24 DEF LoseDown, handle, app, Untaken, Silence, Frame
<1>25. CASE LoseUp
  BY <1>25 DEF LoseUp, handle, app, Silence, Frame
<1>26. CASE UNCHANGED vars
  BY <1>26 DEF vars, handle, app
<1> QED
  BY <1>1, <1>2, <1>3, <1>4, <1>5, <1>6, <1>7, <1>8, <1>9, <1>10, <1>11, <1>12, <1>13,
     <1>14, <1>15, <1>16, <1>17, <1>18, <1>19, <1>20, <1>21, <1>22, <1>23, <1>24, <1>25,
     <1>26 DEF Next, Application, Reader, CardStep, Loss

LEMMA NumberingCorrect == Spec => []NumberingInv
<1>1. Init => NumberingInv
  BY DEF Init, NumberingInv, HalfDuplex, BlockNumbers, UnactivatedParity, ToggleParity,
         RAckIsFresh, Due, Numbered, Quiet, Frame
<1> QED BY <1>1, TypeCorrect, NumberingStep, PTL DEF Spec

(* The PCD's toggle and the number of the card it activated differ exactly *)
(* by the parity of the blocks that no card took, in every reachable state *)
(* of tcl_transceive, for any number of calls, losses and chained blocks.  *)
THEOREM ToggleParityHolds == Spec => []ToggleParity
BY NumberingCorrect, PTL DEF NumberingInv

(* tcl_transceive never sends an R(ACK) that asks the card to repeat.      *)
THEOREM RAckIsFreshHolds == Spec => []RAckIsFresh
BY NumberingCorrect, PTL DEF NumberingInv

---------------------------------------------------------------------------
(* Frame sizes.                                                            *)

FrameInv == FrameFits /\ fsc <= MTU

LEMMA FrameStep == TypeOK /\ FrameInv /\ [Next]_vars => FrameInv'
<1> SUFFICES ASSUME TypeOK, FrameInv, [Next]_vars PROVE FrameInv'
  OBVIOUS
<1> USE DEF FrameInv, FrameFits
<1>1. CASE rfid_layer2_init
  BY <1>1 DEF rfid_layer2_init, handle
<1>2. CASE tcl_init
  BY <1>2, SizesAssumption DEF tcl_init
<1>3. CASE tcl_connect
  BY <1>3 DEF tcl_connect, handle, Transmit, Return, Frame, Quiet
<1>4. ASSUME NEW len \in TxLens, tcl_transceive(len) PROVE FrameInv'
  <2>1. [call |-> ctx.call + 1, tx_len |-> len, next_tx |-> 0, rx |-> <<>>] \in Ctx
    BY AppAssumption DEF TypeOK, Ctx
  <2>2. \/ air' = Quiet
        \/ fsc > 0 => air'.seg.len + 1 <= fsc
    BY <1>4, <2>1, RefillEffect DEF tcl_transceive
  <2> QED BY <1>4, <2>2 DEF tcl_transceive, Quiet, Frame
<1>5. CASE tcl_deselect
  BY <1>5 DEF tcl_deselect, handle, Transmit, Frame
<1>6. CASE tcl_fini
  BY <1>6 DEF tcl_fini
<1>7. CASE RatsFails
  BY <1>7 DEF RatsFails, Return, Quiet, Frame
<1>8. CASE RatsAnswered
  <2>1. card.ats \in ATSRecord
    BY DEF TypeOK, Card
  <2>2. \A v \in ParsedFsc(card.ats) : v <= MTU
    BY <2>1, ParsedTypes DEF TypeOK
  <2>3. fsc' <= MTU
    BY <1>8, <2>2 DEF RatsAnswered
  <2>4. air'.kind # "I"
    BY <1>8 DEF RatsAnswered, Return, Transmit, Quiet, Frame
  <2> QED BY <2>3, <2>4
<1>9. CASE PpsFails
  BY <1>9 DEF PpsFails, handle, Return, Quiet, Frame
<1>10. CASE PpsAnswered
  BY <1>10 DEF PpsAnswered, Return, Quiet, Frame
<1>11. CASE XchgFails
  BY <1>11 DEF XchgFails, handle, Return, Quiet, Frame
<1>12. CASE XchgRBlock
  <2>1. CASE WrongToggle(air) \/ ~check_cid(air)
    BY <1>12, <2>1 DEF XchgRBlock, Return, Quiet, Frame
  <2>2. CASE ~(WrongToggle(air) \/ ~check_cid(air))
    <3>1. \/ air' = Quiet
          \/ fsc > 0 => air'.seg.len + 1 <= fsc
      BY <1>12, <2>2, RefillEffect DEF XchgRBlock, TypeOK
    <3> QED BY <1>12, <3>1 DEF XchgRBlock, Quiet, Frame
  <2> QED BY <2>1, <2>2
<1>13. CASE XchgSBlock
  BY <1>13 DEF XchgSBlock, handle, Return, Transmit, Quiet, Frame
<1>14. CASE XchgIBlock
  <2>1. air'.kind # "I" /\ UNCHANGED fsc
    BY <1>14 DEF XchgIBlock, Return, Transmit, Quiet, Frame
  <2> QED BY <2>1
<1>15. CASE DeselectFails
  BY <1>15 DEF DeselectFails, handle, Return, Quiet, Frame
<1>16. CASE DeselectAnswered
  BY <1>16 DEF DeselectAnswered, Return, Quiet, Frame
<1>17. CASE CardStep \/ Loss
  <2>1. UNCHANGED fsc
    BY <1>17 DEF CardStep, Loss, CardMute, CardRats, CardPps, CardIBlock, CardRBlock,
                 CardWtx, CardDeselect, LoseDown, LoseUp, handle
  <2>2. air'.dir = "up"
    <3>1. CASE CardIBlock
      BY <3>1, CardIBlockEffect
    <3>2. CASE CardRBlock
      <4>1. [card EXCEPT !.num = 1 - @] \in Card
        BY FlipCard DEF TypeOK, Card
      <4> QED BY <3>2, <4>1, SendResponseEffect DEF CardRBlock
    <3>3. CASE CardWtx
      BY <3>3, SendResponseEffect, AskForTimeEffect DEF CardWtx, TypeOK
    <3>4. CASE CardMute \/ CardRats \/ CardPps \/ CardDeselect \/ Loss
      BY <3>4 DEF CardMute, CardRats, CardPps, CardDeselect, Loss, LoseDown, LoseUp,
                  Silence, Frame
    <3> QED BY <1>17, <3>1, <3>2, <3>3, <3>4 DEF CardStep
  <2> QED BY <2>1, <2>2
<1>18. CASE UNCHANGED vars
  BY <1>18 DEF vars, handle
<1> QED
  BY <1>1, <1>2, <1>3, <1>4, <1>5, <1>6, <1>7, <1>8, <1>9, <1>10, <1>11, <1>12, <1>13,
     <1>14, <1>15, <1>16, <1>17, <1>18 DEF Next, Application, Reader

(* No I-block of tcl_transceive is longer than the frame size taken from   *)
(* the ATS, nor than the FIFO, for every ATS that names a frame size.      *)
THEOREM FrameFitsHolds == Spec => []FrameFits
<1>1. Init => FrameInv
  BY SizesAssumption DEF Init, FrameInv, FrameFits, Quiet, Frame
<1> QED BY <1>1, TypeCorrect, FrameStep, PTL DEF Spec, FrameInv
===========================================================================
