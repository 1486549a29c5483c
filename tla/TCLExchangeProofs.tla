------------------------- MODULE TCLExchangeProofs -------------------------
(***************************************************************************)
(* What tcl_connect and tcl_transceive achieve together with the card:     *)
(* bit rates that agree, deadlines the card can meet, and the promise of   *)
(* CardExchange; for every card, every application and any number of       *)
(* calls, losses and waiting time extensions.                              *)
(***************************************************************************)
EXTENDS TCLProofs, SequenceTheorems

---------------------------------------------------------------------------
(* What is on the air belongs to the operation in progress.                *)

Carries ==
    /\ op = "none" <=> air.dir = "quiet"
    /\ air.dir = "quiet" => air.kind = "none"
    /\ air.kind \in {"RATS", "ATS"} => op = "rats"
    /\ air.kind = "PPS" => op = "pps"
    /\ air.kind \in {"I", "R", "WTX"} => op = "xchg"
    /\ op = "rats" => state = "INITIAL"
    /\ op = "pps" => state = "ATS_RCVD"

(* The card's answers to blocks of tcl_transceive, and what they leave of  *)
(* the card.                                                               *)
LEMMA SendResponseKeeps ==
    ASSUME NEW c \in Card, SendResponse(c)
    PROVE  /\ card'.st = c.st /\ card'.dri = c.dri /\ card'.dsi = c.dsi
           /\ card'.ats = c.ats /\ card'.resp.src = c.resp.src
           /\ air'.dir = "up" /\ air'.kind \in {"none", "I"}
           /\ air'.kind = "I" => air'.seg.src = c.resp.src
<1>1. /\ card'.st = c.st /\ card'.dri = c.dri /\ card'.dsi = c.dsi
      /\ card'.ats = c.ats /\ card'.resp.src = c.resp.src
  BY DEF SendResponse, Card
<1>2. /\ air'.dir = "up" /\ air'.kind \in {"none", "I"}
      /\ air'.kind = "I" => air'.seg.src = c.resp.src
  BY DEF SendResponse, CardAnswers, Frame, Silence
<1> QED BY <1>1, <1>2

(* A card that asks for time leaves its state, its bit rates and its       *)
(* response as they are.                                                   *)
LEMMA AskForTimeKeeps ==
    ASSUME NEW c \in Card, AskForTime(c)
    PROVE  /\ card'.st = c.st /\ card'.dri = c.dri /\ card'.dsi = c.dsi
           /\ card'.ats = c.ats /\ card'.resp = c.resp
           /\ air'.dir = "up" /\ air'.kind \in {"none", "WTX"}
<1>1. /\ card'.st = c.st /\ card'.dri = c.dri /\ card'.dsi = c.dsi
      /\ card'.ats = c.ats /\ card'.resp = c.resp
  BY DEF AskForTime, Card
<1>2. air'.dir = "up" /\ air'.kind \in {"none", "WTX"}
  BY DEF AskForTime, CardAnswers, Frame, Silence
<1> QED BY <1>1, <1>2

(* The card takes a block of tcl_transceive: it keeps its speed and its    *)
(* ATS, and answers within the exchange.                                   *)
Serves == CardIBlock \/ CardRBlock \/ CardWtx

(* A card that answers an I-, R- or S-block keeps its bit rates, and       *)
(* nothing of the reader changes.                                          *)
LEMMA ServesKeeps ==
    ASSUME TypeOK, Serves
    PROVE  /\ card'.st = card.st /\ card'.dri = card.dri /\ card'.dsi = card.dsi
           /\ card'.ats = card.ats
           /\ air'.dir = "up" /\ air'.kind \in {"none", "I", "R", "WTX"}
           /\ air.dir = "down" /\ air.kind \in {"I", "R", "WTX"}
           /\ UNCHANGED <<handle, app, rate, paired, skew>>
<1>1. CASE CardIBlock
  <2> DEFINE got == Append(card.chain, air.seg)
             c   == [card EXCEPT !.num = 1 - @, !.chain = IF air.more THEN got ELSE <<>>]
  <2>1. (IF air.more THEN got ELSE <<>>) \in Seq(Seg)
    BY DEF TypeOK, Card, Block
  <2>2. c \in Card
    BY <2>1, FlipCard DEF TypeOK
  <2>3. c.st = card.st /\ c.dri = card.dri /\ c.dsi = card.dsi /\ c.ats = card.ats
    BY DEF TypeOK, Card
  <2>4. /\ air.dir = "down" /\ air.kind = "I"
        /\ UNCHANGED <<handle, app, rate, paired, skew>>
    BY <1>1 DEF CardIBlock
  <2> HIDE DEF got
  <2>5. CASE air.more
    <3>1. card' = c /\ CardAnswers(Frame("up", "R", c.num, FALSE, NoSeg, 0))
      BY <1>1, <2>5 DEF CardIBlock, c, got
    <3> HIDE DEF c
    <3>2. air'.dir = "up" /\ air'.kind \in {"none", "R"}
      BY <3>1 DEF CardAnswers, Frame, Silence
    <3> QED BY <2>3, <2>4, <3>1, <3>2
  <2>6. CASE ~air.more
    <3> HIDE DEF c
    <3>1. PICK n \in RespLens :
             LET d == [c EXCEPT !.wtx = 0,
                                !.resp = [src |-> ctx.call, off |-> 0, len |-> n]]
             IN SendResponse(d) \/ AskForTime(d)
      BY <1>1, <2>6 DEF CardIBlock, c, got
    <3> DEFINE d == [c EXCEPT !.wtx = 0,
                              !.resp = [src |-> ctx.call, off |-> 0, len |-> n]]
    <3>2. n \in Nat /\ ctx.call \in Nat
      BY CardAssumption DEF TypeOK, Ctx
    <3>3. d \in Card /\ d.st = c.st /\ d.dri = c.dri /\ d.dsi = c.dsi /\ d.ats = c.ats
      BY <2>2, <3>2 DEF Card, Seg
    <3> HIDE DEF d
    <3>4. SendResponse(d) \/ AskForTime(d)
      BY <3>1 DEF d
    <3> QED BY <2>3, <2>4, <3>3, <3>4, SendResponseKeeps, AskForTimeKeeps
  <2> QED BY <2>5, <2>6
<1>2. CASE CardRBlock
  <2> DEFINE c == [card EXCEPT !.num = 1 - @]
  <2>1. c \in Card
    BY FlipCard DEF TypeOK, Card
  <2>2. c.st = card.st /\ c.dri = card.dri /\ c.dsi = card.dsi /\ c.ats = card.ats
    BY DEF TypeOK, Card
  <2>3. SendResponse(c)
    BY <1>2 DEF CardRBlock
  <2> HIDE DEF c
  <2>4. /\ air.dir = "down" /\ air.kind = "R"
        /\ UNCHANGED <<handle, app, rate, paired, skew>>
    BY <1>2 DEF CardRBlock
  <2> QED BY <2>1, <2>2, <2>3, <2>4, SendResponseKeeps
<1>3. CASE CardWtx
  <2>1. /\ air.dir = "down" /\ air.kind = "WTX"
        /\ UNCHANGED <<handle, app, rate, paired, skew>>
        /\ SendResponse(card) \/ AskForTime(card)
    BY <1>3 DEF CardWtx
  <2>2. card \in Card
    BY DEF TypeOK
  <2> QED BY <2>1, <2>2, SendResponseKeeps, AskForTimeKeeps
<1> QED BY <1>1, <1>2, <1>3 DEF Serves

(* A call of tcl_transceive, or an acknowledgement it receives, that leads *)
(* to tcl_refill_xcvb: an I-block, or the end of the call.                 *)
Refills == (\E len \in TxLens : tcl_transceive(len)) \/ XchgRBlock

(* A call that begins or goes on to send leaves the handle and the card    *)
(* alone; it returns, or puts an I-block on the air with the waiting       *)
(* time of the handle.                                                     *)
LEMMA RefillsKeep ==
    ASSUME TypeOK, Refills
    PROVE  /\ UNCHANGED <<state, fsc, fwt, ta, rate, card, executed, paired, skew, losses>>
           /\ \/ op' = "none" /\ air' = Quiet
              \/ op' = "xchg" /\ air'.dir = "down" /\ air'.kind = "I" /\ timeout' = fwt
<1>1. ASSUME NEW c \in Ctx, tcl_refill_xcvb(c)
      PROVE  \/ op' = "none" /\ air' = Quiet
             \/ op' = "xchg" /\ air'.dir = "down" /\ air'.kind = "I" /\ timeout' = fwt
  BY <1>1 DEF tcl_refill_xcvb, Return, Transmit, Frame
<1>2. ASSUME NEW len \in TxLens, tcl_transceive(len)
      PROVE  /\ UNCHANGED <<state, fsc, fwt, ta, rate, card, executed, paired, skew, losses>>
             /\ \/ op' = "none" /\ air' = Quiet
                \/ op' = "xchg" /\ air'.dir = "down" /\ air'.kind = "I" /\ timeout' = fwt
  <2>1. [call |-> ctx.call + 1, tx_len |-> len, next_tx |-> 0, rx |-> <<>>] \in Ctx
    BY AppAssumption DEF TypeOK, Ctx
  <2> QED BY <1>1, <1>2, <2>1 DEF tcl_transceive
<1>3. CASE XchgRBlock
  BY <1>1, <1>3 DEF XchgRBlock, Return, TypeOK
<1> QED BY <1>2, <1>3 DEF Refills

(* Each step keeps what is on the air with the operation in progress. *)
LEMMA CarriesStep == TypeOK /\ Carries /\ [Next]_vars => Carries'
<1> SUFFICES ASSUME TypeOK, Carries, [Next]_vars PROVE Carries'
  OBVIOUS
<1> USE DEF Carries
<1>1. CASE rfid_layer2_init \/ tcl_init \/ tcl_fini
  BY <1>1 DEF rfid_layer2_init, tcl_init, tcl_fini, handle, app
<1>2. CASE tcl_connect \/ tcl_deselect
  BY <1>2 DEF tcl_connect, tcl_deselect, handle, Transmit, Return, Frame, Quiet
<1>3. CASE Refills
  <2>1. /\ UNCHANGED state
        /\ \/ op' = "none" /\ air' = Quiet
           \/ op' = "xchg" /\ air'.dir = "down" /\ air'.kind = "I"
    BY <1>3, RefillsKeep
  <2> QED BY <2>1 DEF Quiet, Frame
<1>4. CASE RatsFails \/ RatsAnswered
  BY <1>4 DEF RatsFails, RatsAnswered, Return, Transmit, Quiet, Frame
<1>5. CASE PpsFails \/ PpsAnswered
  BY <1>5 DEF PpsFails, PpsAnswered, handle, Return, Quiet, Frame
<1>6. CASE XchgFails \/ XchgSBlock \/ XchgIBlock
  BY <1>6 DEF XchgFails, XchgSBlock, XchgIBlock, handle, Return, Transmit, Quiet, Frame
<1>7. CASE DeselectFails \/ DeselectAnswered
  BY <1>7 DEF DeselectFails, DeselectAnswered, handle, Return, Quiet, Frame
<1>8. CASE Serves
  BY <1>8, ServesKeeps DEF handle, app
<1>9. CASE CardMute \/ CardRats \/ CardPps \/ CardDeselect \/ Loss
  BY <1>9 DEF CardMute, CardRats, CardPps, CardDeselect, Loss, LoseDown, LoseUp, handle,
              app, Silence, Frame
<1>10. CASE UNCHANGED vars
  BY <1>10 DEF vars, handle, app
<1> QED
  BY <1>1, <1>2, <1>3, <1>4, <1>5, <1>6, <1>7, <1>8, <1>9, <1>10
  DEF Next, Application, Reader, CardStep, Refills, Serves

(* What is on the air belongs to the operation in progress. *)
LEMMA CarriesHolds == Spec => []Carries
<1>1. Init => Carries
  BY DEF Init, Carries, Quiet, Frame
<1> QED BY <1>1, TypeCorrect, CarriesStep, PTL DEF Spec

---------------------------------------------------------------------------
(* Bit rates.  SpeedAgreement is about ESTABLISHED handles; a handle gets  *)
(* there with the base rate of a freshly selected card, or with the two    *)
(* divisors of a PPS that the card has taken and the reader repeats.       *)

AtBaseSpeed == rate = [rx |-> 0, tx |-> 0] /\ card.dri = 0 /\ card.dsi = 0

SpeedInv ==
    /\ card.st = "ACTIVE" \/ air.kind = "ATS" => AtBaseSpeed
    /\ air.kind = "ATS" \/ op = "pps" => card.st # "ACTIVE"
    /\ air.kind = "PPS" /\ air.dir = "down" => air.inf = d_to_di(ta.dr) + 4 * d_to_di(ta.dr)
    /\ air.kind = "PPS" /\ air.dir = "up" =>
          card.dri = d_to_di(ta.dr) /\ card.dsi = d_to_di(ta.dr)
    /\ state = "ESTABLISHED" => rate = [rx |-> card.dsi, tx |-> card.dri]

(* The parameter byte of tcl_do_pps holds both divisors. *)
LEMMA PpsByte ==
    ASSUME NEW d \in 0..3
    PROVE  (d + 4 * d) % 4 = d /\ (d + 4 * d) \div 4 = d
<1>1. d = 0 \/ d = 1 \/ d = 2 \/ d = 3
  OBVIOUS
<1> QED BY <1>1

(* Each step of reader or card keeps their bit rates related. *)
LEMMA SpeedStep == TypeOK /\ Carries /\ SpeedInv /\ [Next]_vars => SpeedInv'
<1> SUFFICES ASSUME TypeOK, Carries, SpeedInv, [Next]_vars PROVE SpeedInv'
  OBVIOUS
<1> USE DEF SpeedInv, Carries, AtBaseSpeed
<1>1. CASE rfid_layer2_init
  BY <1>1 DEF rfid_layer2_init, handle, app, FreshCard
<1>2. CASE tcl_init \/ tcl_fini
  BY <1>2 DEF tcl_init, tcl_fini, app
<1>3. CASE tcl_connect \/ tcl_deselect
  BY <1>3 DEF tcl_connect, tcl_deselect, handle, Transmit, Return, Frame, Quiet
<1>4. CASE Refills
  <2>1. /\ UNCHANGED <<state, ta, rate, card>>
        /\ \/ op' = "none" /\ air' = Quiet
           \/ op' = "xchg" /\ air'.dir = "down" /\ air'.kind = "I"
    BY <1>4, RefillsKeep
  <2> QED BY <2>1 DEF Quiet, Frame
<1>5. CASE RatsFails
  BY <1>5 DEF RatsFails, Return, Quiet, Frame
<1>6. CASE RatsAnswered
  <2>1. AtBaseSpeed /\ card.st # "ACTIVE" /\ UNCHANGED <<rate, card>>
    BY <1>6 DEF RatsAnswered
  <2>2. CASE air' = Quiet
    BY <2>1, <2>2 DEF Quiet, Frame
  <2>3. CASE air' # Quiet
    <3>1. /\ ta' = ParsedTa(card.ats) /\ state' = "ATS_RCVD"
          /\ air' = Frame("down", "PPS", 0, FALSE, NoSeg,
                          d_to_di(ParsedTa(card.ats).dr) + 4 * d_to_di(PpsDs(ParsedTa(card.ats))))
      BY <1>6, <2>3 DEF RatsAnswered, Return, Transmit
    <3>2. /\ air'.kind = "PPS" /\ air'.dir = "down"
          /\ air'.inf = d_to_di(ta'.dr) + 4 * d_to_di(ta'.dr)
      BY <3>1 DEF Frame, PpsDs
    <3> QED BY <2>1, <3>1, <3>2
  <2> QED BY <2>2, <2>3
<1>7. CASE PpsFails
  BY <1>7 DEF PpsFails, handle, Return, Quiet, Frame
<1>8. CASE PpsAnswered
  <2>1. card.st # "ACTIVE" /\ air' = Quiet /\ UNCHANGED card /\ state = "ATS_RCVD"
        /\ op' = "none"
    BY <1>8 DEF PpsAnswered, Return
  <2>2. state' = "ESTABLISHED" => rate' = [rx |-> d_to_di(ta.dr), tx |-> d_to_di(ta.dr)]
    BY <1>8, <2>1 DEF PpsAnswered, SetSpeeds
  <2>3. card.dri = d_to_di(ta.dr) /\ card.dsi = d_to_di(ta.dr)
    BY <1>8 DEF PpsAnswered
  <2> QED BY <2>1, <2>2, <2>3 DEF Quiet, Frame
<1>9. CASE XchgFails \/ XchgSBlock \/ XchgIBlock
  BY <1>9 DEF XchgFails, XchgSBlock, XchgIBlock, handle, Return, Transmit, Quiet, Frame
<1>10. CASE DeselectFails \/ DeselectAnswered
  BY <1>10 DEF DeselectFails, DeselectAnswered, handle, Return, Quiet, Frame
<1>11. CASE Serves
  BY <1>11, ServesKeeps DEF handle, app
<1>12. CASE CardRats
  <2>1. card.st = "ACTIVE" /\ state = "INITIAL"
    BY <1>12 DEF CardRats, Obeys
  <2>2. card'.st = "PROTOCOL" /\ card'.dri = card.dri /\ card'.dsi = card.dsi
    BY <1>12 DEF CardRats, TypeOK, Card
  <2> QED BY <1>12, <2>1, <2>2 DEF CardRats, handle, app, Frame
<1>13. CASE CardPps
  <2>1. d_to_di(ta.dr) \in 0..3
    BY DiType DEF TypeOK
  <2>2. card.st = "PROTOCOL" /\ air.inf = d_to_di(ta.dr) + 4 * d_to_di(ta.dr)
    BY <1>13 DEF CardPps, Obeys
  <2>3. card'.st = card.st /\ card'.dri = air.inf % 4 /\ card'.dsi = air.inf \div 4
    BY <1>13 DEF CardPps, TypeOK, Card
  <2>4. card'.dri = d_to_di(ta.dr) /\ card'.dsi = d_to_di(ta.dr)
    BY <2>1, <2>2, <2>3, PpsByte
  <2>5. /\ op = "pps" /\ state = "ATS_RCVD" /\ UNCHANGED <<state, op, ta>>
        /\ air'.kind = "PPS" /\ air'.dir = "up"
    BY <1>13 DEF CardPps, handle, app, Frame
  <2> QED BY <2>2, <2>3, <2>4, <2>5
<1>14. CASE CardDeselect
  <2>1. card'.st = "HALT" /\ card'.dri = card.dri /\ card'.dsi = card.dsi
    BY <1>14 DEF CardDeselect, TypeOK, Card
  <2> QED BY <1>14, <2>1 DEF CardDeselect, handle, app, Frame
<1>15. CASE CardMute \/ Loss
  BY <1>15 DEF CardMute, Loss, LoseDown, LoseUp, handle, app, Silence, Frame
<1>16. CASE UNCHANGED vars
  BY <1>16 DEF vars, handle, app
<1> QED
  BY <1>1, <1>2, <1>3, <1>4, <1>5, <1>6, <1>7, <1>8, <1>9, <1>10, <1>11, <1>12, <1>13,
     <1>14, <1>15, <1>16 DEF Next, Application, Reader, CardStep, Refills, Serves

(* The bit rates are related at every step of tcl_connect. *)
LEMMA SpeedInvHolds == Spec => []SpeedInv
<1>1. Init => SpeedInv
  BY DEF Init, SpeedInv, AtBaseSpeed, Quiet, Frame, FreshCard
<1> QED BY <1>1, TypeCorrect, CarriesHolds, SpeedStep, PTL DEF Spec

(* An ESTABLISHED handle has set the reader to the divisors of its card in *)
(* both directions, whichever blocks or register writes of tcl_do_pps were *)
(* lost before, for every card and every set of divisors of the reader.    *)
THEOREM SpeedAgreementHolds == Spec => []SpeedAgreement
<1>1. SpeedInv => SpeedAgreement
  BY DEF SpeedInv, SpeedAgreement
<1> QED BY <1>1, SpeedInvHolds, PTL

---------------------------------------------------------------------------
(* Deadlines.  The frame waiting time in the handle is the card's own once *)
(* tcl_parse_ats has seen an ATS that names it.                            *)

DeadlineInv ==
    /\ NamesFwi /\ (op = "pps" \/ state = "ESTABLISHED") => fwt = CardFwt
    /\ DeadlineMet

(* tcl_parse_ats takes over the waiting time of a card that names one. *)
LEMMA ParsedFwtIsCards ==
    ASSUME card.ats \in ATSRecord, card.ats.len # 0, NamesFwi
    PROVE  ParsedFwt(card.ats) = CardFwt
<1>1. card.ats.len = 1 \/ card.ats.len = 2
  BY DEF ATSRecord
<1> QED BY <1>1 DEF ParsedFwt, CardFwt, NamesFwi

(* Each step keeps the time allowed at least what the card asked for. *)
LEMMA DeadlineStep ==
    TypeOK /\ Carries /\ DeadlineInv /\ [Next]_vars => DeadlineInv'
<1> SUFFICES ASSUME TypeOK, Carries, DeadlineInv, [Next]_vars PROVE DeadlineInv'
  OBVIOUS
<1> USE DEF DeadlineInv, DeadlineMet, WaitsForCard, NamesFwi, Carries
<1>0. CardFwt \in Nat
  <2>1. card.ats.fwi \in 0..15 /\ 4 \in 0..15  BY DEF TypeOK, Card, ATSRecord
  <2> QED BY <2>1, FwtType DEF CardFwt
<1>1. CASE rfid_layer2_init
  BY <1>1 DEF rfid_layer2_init, handle, app, FreshCard
<1>2. CASE tcl_init \/ tcl_fini
  BY <1>2 DEF tcl_init, tcl_fini, app, CardFwt
<1>3. CASE tcl_connect \/ tcl_deselect
  BY <1>3 DEF tcl_connect, tcl_deselect, handle, Transmit, Return, Frame, Quiet, CardFwt
<1>4. CASE Refills
  <2>1. /\ UNCHANGED <<state, fwt, card>>
        /\ \/ op' = "none" /\ air' = Quiet
           \/ op' = "xchg" /\ air'.dir = "down" /\ air'.kind = "I" /\ timeout' = fwt
    BY <1>4, RefillsKeep
  <2>2. CardFwt' = CardFwt
    BY <2>1 DEF CardFwt
  <2>3. CASE op' = "none"
    <3>1. op # "pps"
      BY <1>4 DEF Refills, tcl_transceive, XchgRBlock
    <3> QED BY <2>1, <2>2, <2>3, <3>1
  <2>4. CASE op' = "xchg" /\ air'.dir = "down" /\ air'.kind = "I" /\ timeout' = fwt
    <3>1. CardDelay' = CardFwt
      BY <2>2, <2>4 DEF CardDelay
    <3> QED BY <1>0, <2>1, <2>2, <2>4, <3>1
  <2> QED BY <2>1, <2>3, <2>4
<1>5. CASE RatsFails
  BY <1>5 DEF RatsFails, Return, Quiet, Frame, CardFwt
<1>6. CASE RatsAnswered
  <2>1. /\ UNCHANGED card /\ op' # "xchg" /\ state = "INITIAL"
        /\ op' = "pps" \/ state' = "ESTABLISHED" =>
              card.ats.len # 0 /\ fwt' = ParsedFwt(card.ats)
    BY <1>6 DEF RatsAnswered, Return, Transmit
  <2>2. card.ats \in ATSRecord
    BY DEF TypeOK, Card
  <2>3. CardFwt' = CardFwt
    BY <2>1 DEF CardFwt
  <2> QED BY <2>1, <2>2, <2>3, ParsedFwtIsCards
<1>7. CASE PpsFails \/ PpsAnswered
  BY <1>7 DEF PpsFails, PpsAnswered, handle, Return, CardFwt
<1>8. CASE XchgFails
  BY <1>8 DEF XchgFails, handle, Return, CardFwt
<1>9. CASE XchgSBlock
  <2>1. UNCHANGED <<state, fwt, card>>
    BY <1>9 DEF XchgSBlock, handle
  <2>2. CardFwt' = CardFwt
    BY <2>1 DEF CardFwt
  <2>3. \/ op' = "none"
        \/ /\ op' = "xchg" /\ air'.kind = "WTX" /\ air'.inf = air.inf % 64
           /\ timeout' = fwt * (air.inf % 64)
    BY <1>9 DEF XchgSBlock, Return, Transmit, Frame, WtxTimeout
  <2>4. ASSUME NamesFwi, state = "ESTABLISHED", op' = "xchg" PROVE timeout' >= CardDelay'
    <3>1. CardDelay' = CardFwt * (air.inf % 64)
      BY <2>2, <2>3, <2>4 DEF CardDelay
    <3>2. timeout' = CardFwt * (air.inf % 64)
      BY <2>3, <2>4
    <3>3. air.inf % 64 \in Nat
      BY ModType DEF TypeOK, Block
    <3>4. CardFwt * (air.inf % 64) \in Nat
      BY <1>0, <3>3
    <3> HIDE DEF CardDelay
    <3> QED BY <3>1, <3>2, <3>4
  <2>5. op = "xchg" /\ op' # "pps"
    BY <1>9, <2>3 DEF XchgSBlock
  <2> QED BY <2>1, <2>2, <2>4, <2>5
<1>10. CASE XchgIBlock
  <2>1. UNCHANGED <<state, fwt, card>> /\ op = "xchg"
    BY <1>10 DEF XchgIBlock
  <2>2. CardFwt' = CardFwt
    BY <2>1 DEF CardFwt
  <2>3. \/ op' = "none"
        \/ op' = "xchg" /\ air'.kind = "R" /\ timeout' = fwt
    BY <1>10 DEF XchgIBlock, Return, Transmit, Frame
  <2>4. op' = "xchg" => CardDelay' = CardFwt
    BY <2>2, <2>3 DEF CardDelay
  <2> QED BY <1>0, <2>1, <2>2, <2>3, <2>4
<1>11. CASE DeselectFails \/ DeselectAnswered
  BY <1>11 DEF DeselectFails, DeselectAnswered, handle, Return, CardFwt
<1>12. CASE Serves
  <2>1. card'.ats = card.ats /\ air'.dir = "up" /\ UNCHANGED <<state, fwt, op>>
    BY <1>12, ServesKeeps DEF handle, app
  <2>2. CardFwt' = CardFwt
    BY <2>1 DEF CardFwt
  <2> QED BY <2>1, <2>2
<1>13. CASE CardMute \/ CardRats \/ CardPps \/ CardDeselect \/ Loss
  <2>1. air'.dir = "up" /\ UNCHANGED <<state, fwt, op>>
    BY <1>13 DEF CardMute, CardRats, CardPps, CardDeselect, Loss, LoseDown, LoseUp, handle,
                 app, Silence, Frame
  <2>2. card'.ats = card.ats
    BY <1>13 DEF CardMute, CardRats, CardPps, CardDeselect, Loss, LoseDown, LoseUp, TypeOK,
                 Card
  <2>3. CardFwt' = CardFwt
    BY <2>2 DEF CardFwt
  <2> QED BY <2>1, <2>2, <2>3
<1>14. CASE UNCHANGED vars
  BY <1>14 DEF vars, handle, app, CardFwt, CardDelay
<1> QED
  BY <1>1, <1>2, <1>3, <1>4, <1>5, <1>6, <1>7, <1>8, <1>9, <1>10, <1>11, <1>12, <1>13,
     <1>14 DEF Next, Application, Reader, CardStep, Refills, Serves

(* tcl_transceive waits long enough for every block, waiting time          *)
(* extensions included, for every card whose ATS is TL alone or names a    *)
(* waiting time, whatever cards were selected before it.  (Where the ATS   *)
(* goes on without TB the code keeps a waiting time of 0.)                 *)
THEOREM DeadlineMetHolds == Spec => []DeadlineMet
<1>1. Init => DeadlineInv
  BY DEF Init, DeadlineInv, DeadlineMet, WaitsForCard, FreshCard
<1>2. DeadlineInv => DeadlineMet
  BY DEF DeadlineInv
<1> QED BY <1>1, <1>2, DeadlineStep, TypeCorrect, CarriesHolds, PTL DEF Spec

---------------------------------------------------------------------------
(* The promise of CardExchange.  A command that is still being sent has    *)
(* not been executed in this call; a block that belongs to a response      *)
(* finds it executed as the last one, and the card answering it.           *)

NotYetExecuted == \A i \in 1..Len(executed) : executed[i].call < ctx.call

JustExecuted ==
    /\ executed # <<>> /\ LastExecuted.call = ctx.call
    /\ card.resp.src = ctx.call

Commanding == (air.dir = "down" /\ air.kind = "I") \/ (air.dir = "up" /\ air.kind = "R")
Answering  == \/ air.kind = "WTX"
              \/ (air.dir = "down" /\ air.kind = "R") \/ (air.dir = "up" /\ air.kind = "I")

ExchangeInv ==
    /\ \A i \in 1..Len(executed) : executed[i].call <= ctx.call
    /\ Commanding => NotYetExecuted
    /\ Answering => JustExecuted
    /\ air.dir = "up" /\ air.kind = "I" => air.seg.src = ctx.call

Execution == [call : Nat, cmd : Seq(Seg), asked : Nat, resp : Nat]

(* A function on 1..n is a sequence of length n. *)
LEMMA FunctionIsSeq ==
    ASSUME NEW S, NEW n \in Nat, NEW f \in [1..n -> S]
    PROVE  f \in Seq(S) /\ Len(f) = n
<1>1. f \in Seq(S)
  BY SeqDef, Zenon
<1>2. Len(f) \in Nat /\ DOMAIN f = 1..Len(f)
  BY <1>1, LenProperties
<1>3. DOMAIN f = 1..n
  OBVIOUS
<1>4. Len(f) = n
  BY <1>2, <1>3
<1> QED BY <1>1, <1>4

(* The calls that the executions belong to are numbers. *)
LEMMA ExecutionCalls ==
    ASSUME NEW s \in Seq(Execution)
    PROVE  \A i \in 1..Len(s) : s[i].call \in Nat
<1>1. \A i \in 1..Len(s) : s[i] \in Execution
  BY ElementOfSeq
<1> QED BY <1>1 DEF Execution

(* A sequence of executions or of segments, and one more. *)
LEMMA AppendCalls ==
    ASSUME NEW s \in Seq(Execution), NEW e \in Execution
    PROVE  /\ Append(s, e) \in Seq(Execution) /\ Append(s, e) # <<>>
           /\ Len(Append(s, e)) = Len(s) + 1
           /\ Append(s, e)[Len(s) + 1] = e
           /\ \A i \in 1..Len(s) : Append(s, e)[i] = s[i]
           /\ [i \in 1..Len(Append(s, e)) |-> Append(s, e)[i].call]
                 = Append([i \in 1..Len(s) |-> s[i].call], e.call)
<1>1. /\ Append(s, e) \in Seq(Execution) /\ Append(s, e) # <<>>
      /\ Len(Append(s, e)) = Len(s) + 1
      /\ Append(s, e)[Len(s) + 1] = e
      /\ \A i \in 1..Len(s) : Append(s, e)[i] = s[i]
  OBVIOUS
<1> DEFINE f == [i \in 1..Len(s) |-> s[i].call]
           g == [i \in 1..Len(Append(s, e)) |-> Append(s, e)[i].call]
<1>2. f \in Seq(Nat) /\ Len(f) = Len(s)
  <2>1. f \in [1..Len(s) -> Nat] /\ Len(s) \in Nat
    BY ExecutionCalls
  <2> QED BY <2>1, FunctionIsSeq
<1>3. g \in Seq(Nat) /\ Len(g) = Len(s) + 1
  <2>1. \A i \in 1..Len(s) + 1 : Append(s, e)[i] \in Execution
    BY <1>1, ElementOfSeq
  <2>2. \A i \in 1..Len(s) + 1 : Append(s, e)[i].call \in Nat
    BY <2>1 DEF Execution
  <2>3. g \in [1..Len(s) + 1 -> Nat] /\ Len(s) + 1 \in Nat
    BY <1>1, <2>2
  <2> QED BY <2>3, FunctionIsSeq
<1>4. Append(f, e.call) \in Seq(Nat) /\ Len(Append(f, e.call)) = Len(s) + 1
  <2> HIDE DEF f
  <2>1. e.call \in Nat
    BY DEF Execution
  <2> QED BY <1>2, <2>1
<1>5. ASSUME NEW i \in 1..(Len(s) + 1) PROVE g[i] = Append(f, e.call)[i]
  BY <1>1, <1>2
<1>6. g = Append(f, e.call)
  <2> HIDE DEF f, g
  <2> QED BY <1>3, <1>4, <1>5
<1> QED BY <1>1, <1>6

(* The sources of segments to which one is appended. *)
LEMMA AppendSources ==
    ASSUME NEW s \in Seq(Seg), NEW e \in Seg
    PROVE  [i \in 1..Len(Append(s, e)) |-> Append(s, e)[i].src]
             = Append([i \in 1..Len(s) |-> s[i].src], e.src)
<1> DEFINE f == [i \in 1..Len(s) |-> s[i].src]
           g == [i \in 1..Len(Append(s, e)) |-> Append(s, e)[i].src]
<1>1. f \in Seq(Nat) /\ Len(f) = Len(s)
  <2>1. \A i \in 1..Len(s) : s[i] \in Seg
    BY ElementOfSeq
  <2>2. \A i \in 1..Len(s) : s[i].src \in Nat
    BY <2>1 DEF Seg
  <2>3. f \in [1..Len(s) -> Nat] /\ Len(s) \in Nat
    BY <2>2
  <2> QED BY <2>3, FunctionIsSeq
<1>2. g \in Seq(Nat) /\ Len(g) = Len(s) + 1
  <2>1. Append(s, e) \in Seq(Seg) /\ Len(Append(s, e)) = Len(s) + 1
    OBVIOUS
  <2>2. \A i \in 1..Len(s) + 1 : Append(s, e)[i] \in Seg
    BY <2>1, ElementOfSeq
  <2>3. \A i \in 1..Len(s) + 1 : Append(s, e)[i].src \in Nat
    BY <2>2 DEF Seg
  <2>4. g \in [1..Len(s) + 1 -> Nat] /\ Len(s) + 1 \in Nat
    BY <2>1, <2>3
  <2> QED BY <2>4, FunctionIsSeq
<1>3. Append(f, e.src) \in Seq(Nat) /\ Len(Append(f, e.src)) = Len(s) + 1
  <2> HIDE DEF f
  <2>1. e.src \in Nat
    BY DEF Seg
  <2> QED BY <1>1, <2>1
<1>4. ASSUME NEW i \in 1..(Len(s) + 1) PROVE g[i] = Append(f, e.src)[i]
  BY <1>1
<1> HIDE DEF f, g
<1> QED BY <1>2, <1>3, <1>4

(* An I-block with the chaining bit is acknowledged; the last one makes    *)
(* the card execute the command of the call and answer to it.              *)
LEMMA CardIBlockExecutes ==
    ASSUME TypeOK, CardIBlock
    PROVE  \/ /\ air.more /\ executed' = executed
              /\ air'.kind \in {"none", "R"} /\ air'.dir = "up"
           \/ /\ ~air.more
              /\ \E e \in Execution : e.call = ctx.call /\ executed' = Append(executed, e)
              /\ card'.resp.src = ctx.call
              /\ air'.kind \in {"none", "I", "WTX"} /\ air'.dir = "up"
              /\ air'.kind = "I" => air'.seg.src = ctx.call
<1> DEFINE got == Append(card.chain, air.seg)
           c   == [card EXCEPT !.num = 1 - @, !.chain = IF air.more THEN got ELSE <<>>]
<1>1. got \in Seq(Seg)
  BY DEF TypeOK, Card, Block
<1>2. c \in Card
  <2>1. (IF air.more THEN got ELSE <<>>) \in Seq(Seg)
    BY <1>1
  <2> QED BY <2>1, FlipCard DEF TypeOK
<1> HIDE DEF got
<1>3. CASE air.more
  <2>1. executed' = executed /\ CardAnswers(Frame("up", "R", c.num, FALSE, NoSeg, 0))
    BY <1>3 DEF CardIBlock, c, got
  <2> HIDE DEF c
  <2>2. air'.dir = "up" /\ air'.kind \in {"none", "R"}
    BY <2>1 DEF CardAnswers, Frame, Silence
  <2> QED BY <1>3, <2>1, <2>2
<1>4. CASE ~air.more
  <2> HIDE DEF c
  <2>1. PICK n \in RespLens :
           /\ executed' = Append(executed, [call |-> ctx.call, cmd |-> got,
                                            asked |-> ctx.tx_len, resp |-> n])
           /\ LET d == [c EXCEPT !.wtx = 0,
                                 !.resp = [src |-> ctx.call, off |-> 0, len |-> n]]
              IN SendResponse(d) \/ AskForTime(d)
    BY <1>4 DEF CardIBlock, c, got
  <2> DEFINE d == [c EXCEPT !.wtx = 0,
                            !.resp = [src |-> ctx.call, off |-> 0, len |-> n]]
             e == [call |-> ctx.call, cmd |-> got, asked |-> ctx.tx_len, resp |-> n]
  <2>2. n \in Nat /\ ctx.call \in Nat /\ ctx.tx_len \in Nat
    BY CardAssumption DEF TypeOK, Ctx
  <2>3. d \in Card /\ d.resp.src = ctx.call
    BY <1>2, <2>2 DEF Card, Seg
  <2>4. e \in Execution /\ e.call = ctx.call
    BY <1>1, <2>2 DEF Execution
  <2> HIDE DEF d
  <2>5. SendResponse(d) \/ AskForTime(d)
    BY <2>1 DEF d
  <2> QED BY <1>4, <2>1, <2>3, <2>4, <2>5, SendResponseKeeps, AskForTimeKeeps
<1> QED BY <1>3, <1>4

(* What tcl_refill_xcvb leaves of the context. *)
LEMMA RefillContext ==
    ASSUME NEW c \in Ctx, tcl_refill_xcvb(c)
    PROVE  ctx'.call = c.call /\ ctx'.rx = c.rx
BY DEF tcl_refill_xcvb, Ctx

(* Each step is a step of CardExchange, or leaves its variables alone. *)
LEMMA ExchangeStep == TypeOK /\ Carries /\ ExchangeInv /\ [Next]_vars => ExchangeInv'
<1> SUFFICES ASSUME TypeOK, Carries, ExchangeInv, [Next]_vars PROVE ExchangeInv'
  OBVIOUS
<1> USE DEF ExchangeInv, Carries, Commanding, Answering, NotYetExecuted, JustExecuted,
            LastExecuted
<1>0. ctx.call \in Nat /\ executed \in Seq(Execution)
  BY DEF TypeOK, Ctx, Execution
<1>00. \A i \in 1..Len(executed) : executed[i].call \in Nat
  BY <1>0, ExecutionCalls
<1>1. CASE rfid_layer2_init \/ tcl_init \/ tcl_fini
  BY <1>1 DEF rfid_layer2_init, tcl_init, tcl_fini, handle, app
<1>2. CASE tcl_connect \/ tcl_deselect
  BY <1>2 DEF tcl_connect, tcl_deselect, Transmit, Return, Frame, Quiet
<1>3. ASSUME NEW len \in TxLens, tcl_transceive(len) PROVE ExchangeInv'
  <2>1. [call |-> ctx.call + 1, tx_len |-> len, next_tx |-> 0, rx |-> <<>>] \in Ctx
    BY AppAssumption DEF TypeOK, Ctx
  <2>2. ctx'.call = ctx.call + 1
    BY <1>3, <2>1, RefillContext DEF tcl_transceive
  <2>3. /\ UNCHANGED executed
        /\ air' = Quiet \/ (air'.dir = "down" /\ air'.kind = "I")
    BY <1>3, RefillsKeep DEF Refills
  <2>4. \A i \in 1..Len(executed') : executed'[i].call < ctx'.call
    BY <1>0, <1>00, <2>2, <2>3
  <2>5. \A i \in 1..Len(executed') : executed'[i].call <= ctx'.call
    BY <1>0, <1>00, <2>2, <2>3
  <2> QED BY <2>3, <2>4, <2>5 DEF Quiet, Frame
<1>4. CASE XchgRBlock
  <2>1. ctx'.call = ctx.call
    BY <1>4, RefillContext DEF XchgRBlock, TypeOK
  <2>2. /\ UNCHANGED executed
        /\ air' = Quiet \/ (air'.dir = "down" /\ air'.kind = "I")
    BY <1>4, RefillsKeep DEF Refills
  <2>3. NotYetExecuted
    BY <1>4 DEF XchgRBlock
  <2> QED BY <2>1, <2>2, <2>3 DEF Quiet, Frame
<1>5. CASE RatsFails \/ RatsAnswered
  BY <1>5 DEF RatsFails, RatsAnswered, Return, Transmit, Quiet, Frame
<1>6. CASE PpsFails \/ PpsAnswered
  BY <1>6 DEF PpsFails, PpsAnswered, Return, Quiet, Frame
<1>7. CASE XchgFails
  BY <1>7 DEF XchgFails, Return, Quiet, Frame
<1>8. CASE XchgSBlock
  BY <1>8 DEF XchgSBlock, Return, Transmit, Quiet, Frame
<1>9. CASE XchgIBlock
  <2>1. /\ UNCHANGED <<executed, card>>
        /\ air' = Quiet \/ (air'.dir = "down" /\ air'.kind = "R")
    BY <1>9 DEF XchgIBlock, Return, Transmit, Frame
  <2>3. ctx'.call = ctx.call
    <3>1. ctx' = ctx \/ ctx' = [ctx EXCEPT !.rx = Append(ctx.rx, air.seg)]
      BY <1>9 DEF XchgIBlock
    <3> QED BY <3>1 DEF TypeOK, Ctx
  <2>2. JustExecuted
    BY <1>9 DEF XchgIBlock
  <2> QED BY <2>1, <2>2, <2>3 DEF Quiet, Frame
<1>10. CASE DeselectFails \/ DeselectAnswered
  BY <1>10 DEF DeselectFails, DeselectAnswered, Return, Quiet, Frame
<1>11. CASE CardIBlock
  <2>1. UNCHANGED ctx /\ NotYetExecuted
    BY <1>11 DEF CardIBlock, app
  <2>2. CASE air.more
    <3>1. executed' = executed /\ air'.kind \in {"none", "R"} /\ air'.dir = "up"
      BY <1>11, <2>2, CardIBlockExecutes
    <3> QED BY <2>1, <3>1
  <2>3. CASE ~air.more
    <3>1. /\ card'.resp.src = ctx.call
          /\ air'.kind \in {"none", "I", "WTX"} /\ air'.dir = "up"
          /\ air'.kind = "I" => air'.seg.src = ctx.call
      BY <1>11, <2>3, CardIBlockExecutes
    <3>2. PICK e \in Execution : e.call = ctx.call /\ executed' = Append(executed, e)
      BY <1>11, <2>3, CardIBlockExecutes
    <3>3. /\ executed' # <<>> /\ Len(executed') = Len(executed) + 1
          /\ executed'[Len(executed) + 1].call = ctx.call
          /\ \A i \in 1..Len(executed) : executed'[i] = executed[i]
      BY <1>0, <3>2, AppendCalls
    <3>4. \A i \in 1..Len(executed) : executed'[i].call < ctx.call
      BY <2>1, <3>3
    <3>5. Len(executed) \in Nat
      BY <1>0
    <3>6. \A i \in 1..Len(executed') : executed'[i].call <= ctx.call
      BY <1>0, <1>00, <3>3, <3>4, <3>5
    <3>7. executed'[Len(executed')].call = ctx.call
      BY <3>3
    <3> QED BY <2>1, <3>1, <3>3, <3>6, <3>7
  <2> QED BY <2>2, <2>3
<1>12. CASE CardRBlock
  <2> DEFINE c == [card EXCEPT !.num = 1 - @]
  <2>1. c \in Card /\ c.resp = card.resp
    BY FlipCard DEF TypeOK, Card
  <2>2. SendResponse(c) /\ UNCHANGED <<executed, ctx>> /\ JustExecuted
    BY <1>12 DEF CardRBlock, app
  <2> HIDE DEF c
  <2> QED BY <2>1, <2>2, SendResponseKeeps
<1>13. CASE CardWtx
  <2>1. card \in Card /\ (SendResponse(card) \/ AskForTime(card))
    BY <1>13 DEF CardWtx, TypeOK
  <2>2. UNCHANGED <<executed, ctx>> /\ JustExecuted
    BY <1>13 DEF CardWtx, app
  <2> QED BY <2>1, <2>2, SendResponseKeeps, AskForTimeKeeps
<1>14. CASE CardMute \/ CardRats \/ CardPps \/ CardDeselect \/ Loss
  BY <1>14 DEF CardMute, CardRats, CardPps, CardDeselect, Loss, LoseDown, LoseUp, app,
               Silence, Frame
<1>15. CASE UNCHANGED vars
  BY <1>15 DEF vars, app
<1> QED
  BY <1>1, <1>2, <1>3, <1>4, <1>5, <1>6, <1>7, <1>8, <1>9, <1>10, <1>11, <1>12, <1>13,
     <1>14, <1>15 DEF Next, Application, Reader, CardStep

(* What the refinement needs to know of executions and received bytes. *)
LEMMA ExchangeInvHolds == Spec => []ExchangeInv
<1>1. Init => ExchangeInv
  BY DEF Init, ExchangeInv, Commanding, Answering, NotYetExecuted, Quiet, Frame
<1> QED BY <1>1, TypeCorrect, CarriesHolds, ExchangeStep, PTL DEF Spec

(* Every step of the protocol is a step of CardExchange or changes nothing *)
(* the application can tell.                                               *)
LEMMA ExchangeRefines ==
    TypeOK /\ Carries /\ ExchangeInv /\ [Next]_vars => [Exchange!Next]_(Exchange!xvars)
<1> SUFFICES ASSUME TypeOK, Carries, ExchangeInv, [Next]_vars,
                    UNCHANGED Exchange!xvars => FALSE
             PROVE  Exchange!Next
  OBVIOUS
<1> DEFINE busy == op = "xchg"
           log  == [i \in 1..Len(executed) |-> executed[i].call]
           got  == [i \in 1..Len(ctx.rx) |-> ctx.rx[i].src]
<1>0. ctx.call \in Nat /\ executed \in Seq(Execution) /\ ctx.rx \in Seq(Seg)
  BY DEF TypeOK, Ctx, Execution
<1>a. ASSUME UNCHANGED <<executed, ctx>>, op = "xchg" <=> op' = "xchg" PROVE FALSE
  BY <1>a DEF Exchange!xvars
<1>b. ASSUME UNCHANGED <<executed, ctx>>, op = "xchg", op' # "xchg" PROVE Exchange!Next
  BY <1>b DEF Exchange!Next, Exchange!Finish
<1>1. CASE rfid_layer2_init \/ tcl_init \/ tcl_fini
  BY <1>1, <1>a DEF rfid_layer2_init, tcl_init, tcl_fini, app
<1>2. CASE tcl_connect \/ tcl_deselect
  BY <1>2, <1>a DEF tcl_connect, tcl_deselect, Transmit, Return
<1>3. ASSUME NEW len \in TxLens, tcl_transceive(len) PROVE Exchange!Begin
  <2>1. [call |-> ctx.call + 1, tx_len |-> len, next_tx |-> 0, rx |-> <<>>] \in Ctx
    BY AppAssumption DEF TypeOK, Ctx
  <2>2. ctx'.call = ctx.call + 1 /\ ctx'.rx = <<>>
    BY <1>3, <2>1, RefillContext DEF tcl_transceive
  <2>3. UNCHANGED executed /\ op = "none"
    BY <1>3 DEF tcl_transceive
  <2>4. got' = <<>>
    BY <2>2
  <2> QED BY <2>2, <2>3, <2>4 DEF Exchange!Begin
<1>4. CASE XchgRBlock
  <2>1. UNCHANGED executed /\ op = "xchg"
    BY <1>4 DEF XchgRBlock
  <2>2. ctx'.call = ctx.call /\ ctx'.rx = ctx.rx
    BY <1>4, RefillContext DEF XchgRBlock, TypeOK
  <2>3. CASE op' = "xchg"
    BY <2>1, <2>2, <2>3 DEF Exchange!xvars
  <2>4. CASE op' # "xchg"
    BY <2>1, <2>2, <2>4 DEF Exchange!Next, Exchange!Finish
  <2> QED BY <2>3, <2>4
<1>5. CASE RatsFails \/ RatsAnswered
  BY <1>5, <1>a DEF RatsFails, RatsAnswered, Return, Transmit
<1>6. CASE PpsFails \/ PpsAnswered
  BY <1>6, <1>a DEF PpsFails, PpsAnswered, Return
<1>7. CASE XchgFails
  BY <1>7, <1>b DEF XchgFails, Return
<1>8. CASE XchgSBlock
  <2>1. UNCHANGED <<executed, ctx>> /\ op = "xchg"
    BY <1>8 DEF XchgSBlock
  <2> QED BY <2>1, <1>a, <1>b
<1>9. CASE XchgIBlock
  <2>1. UNCHANGED executed /\ op = "xchg"
    BY <1>9 DEF XchgIBlock
  <2>2. CASE WrongToggle(air) \/ ~check_cid(air)
    <3>1. UNCHANGED ctx /\ op' # "xchg"
      BY <1>9, <2>2 DEF XchgIBlock, Return
    <3> QED BY <2>1, <3>1, <1>b
  <2>3. CASE ~(WrongToggle(air) \/ ~check_cid(air))
    <3>1. ctx' = [ctx EXCEPT !.rx = Append(ctx.rx, air.seg)]
      BY <1>9, <2>3 DEF XchgIBlock
    <3>2. ctx'.call = ctx.call /\ ctx'.rx = Append(ctx.rx, air.seg)
      BY <3>1 DEF TypeOK, Ctx
    <3>3. air.seg \in Seg /\ air.seg.src = ctx.call
      BY <1>9 DEF XchgIBlock, TypeOK, Block, ExchangeInv
    <3>4. got' = Append(got, ctx.call)
      BY <1>0, <3>2, <3>3, AppendSources
    <3>5. executed # <<>> /\ executed[Len(executed)].call = ctx.call
      BY <1>9 DEF XchgIBlock, ExchangeInv, Answering, JustExecuted, LastExecuted
    <3>6. Exchange!Executed
      <4>1. Len(executed) \in Nat /\ Len(executed) # 0
        BY <1>0, <3>5, EmptySeq
      <4>2. \A i \in 1..Len(executed) : executed[i].call \in Nat
        BY <1>0, ExecutionCalls
      <4>3. log \in [1..Len(executed) -> Nat]
        BY <4>2
      <4>4. log \in Seq(Nat) /\ Len(log) = Len(executed)
        BY <4>1, <4>3, FunctionIsSeq
      <4>5. log[Len(executed)] = ctx.call
        BY <3>5, <4>1
      <4>6. log # <<>>
        <5> HIDE DEF log
        <5> QED BY <4>1, <4>4
      <4> QED BY <4>4, <4>5, <4>6 DEF Exchange!Executed
    <3>7. Exchange!Receive
      BY <2>1, <3>2, <3>4, <3>6 DEF Exchange!Receive
    <3> QED BY <3>7 DEF Exchange!Next
  <2> QED BY <2>2, <2>3
<1>10. CASE DeselectFails \/ DeselectAnswered
  BY <1>10, <1>a DEF DeselectFails, DeselectAnswered, Return
<1>11. CASE CardIBlock
  <2>1. UNCHANGED <<ctx, op>> /\ op = "xchg" /\ NotYetExecuted
    BY <1>11 DEF CardIBlock, app, Carries, ExchangeInv, Commanding
  <2>2. CASE air.more
    <3>1. executed' = executed
      BY <1>11, <2>2, CardIBlockExecutes
    <3> QED BY <2>1, <3>1, <1>a
  <2>3. CASE ~air.more
    <3>1. PICK e \in Execution : e.call = ctx.call /\ executed' = Append(executed, e)
      BY <1>11, <2>3, CardIBlockExecutes
    <3>2. log' = Append(log, ctx.call)
      BY <1>0, <3>1, AppendCalls
    <3>3. \A i \in 1..Len(executed) : executed[i].call \in Nat
      BY <1>0, ExecutionCalls
    <3>4. log \in [1..Len(executed) -> Nat] /\ Len(executed) \in Nat
      BY <1>0, <3>3
    <3>5. Len(log) = Len(executed)
      BY <3>4, FunctionIsSeq
    <3>6. \A i \in 1..Len(log) : log[i] # ctx.call
      BY <1>0, <2>1, <3>3, <3>5 DEF NotYetExecuted
    <3>7. Exchange!Execute
      BY <2>1, <3>2, <3>6 DEF Exchange!Execute
    <3> QED BY <3>7 DEF Exchange!Next
  <2> QED BY <2>2, <2>3
<1>12. CASE CardRBlock \/ CardWtx
  BY <1>12, <1>a DEF CardRBlock, CardWtx, app
<1>13. CASE CardMute \/ CardRats \/ CardPps \/ CardDeselect \/ Loss
  BY <1>13, <1>a DEF CardMute, CardRats, CardPps, CardDeselect, Loss, LoseDown, LoseUp, app
<1>14. CASE UNCHANGED vars
  BY <1>14, <1>a DEF vars, app
<1> QED
  BY <1>1, <1>2, <1>3, <1>4, <1>5, <1>6, <1>7, <1>8, <1>9, <1>10, <1>11, <1>12, <1>13,
     <1>14 DEF Next, Application, Reader, CardStep, Exchange!Next

(* tcl_transceive implements CardExchange: a command is executed at most   *)
(* once, during its own call, and only bytes of the response to that       *)
(* execution are delivered; for every card, any number of calls, losses,   *)
(* chained blocks and waiting time extensions, also on handles that were   *)
(* never opened and with foreign CIDs.                                     *)
THEOREM ExchangeSpecHolds == Spec => ExchangeSpec
<1>1. Init => Exchange!Init
  BY DEF Init, Exchange!Init
<1> QED
  BY <1>1, ExchangeRefines, TypeCorrect, CarriesHolds, ExchangeInvHolds, PTL
  DEF Spec, ExchangeSpec, Exchange!Spec
---------------------------------------------------------------------------
(* The bytes of a call.  Covers and EndsWith, for runs that may be empty.  *)

CoversTo(segs, src, n) == (segs = <<>> /\ n = 0) \/ Covers(segs, src, n)
EndsTo(segs, src, n) ==
    \E k \in 1..Len(segs) + 1 : CoversTo(SubSeq(segs, k, Len(segs)), src, n)

(* A run grows by a segment that starts where it ends. *)
LEMMA CoversAppend ==
    ASSUME NEW s \in Seq(Seg), NEW e \in Seg, CoversTo(s, e.src, e.off)
    PROVE  Covers(Append(s, e), e.src, e.off + e.len)
<1> DEFINE t == Append(s, e)
<1>1. /\ t \in Seq(Seg) /\ t # <<>> /\ Len(t) = Len(s) + 1 /\ Len(s) \in Nat
      /\ t[Len(s) + 1] = e
      /\ \A i \in 1..Len(s) : t[i] = s[i]
  OBVIOUS
<1>2. t[Len(t)].off + t[Len(t)].len = e.off + e.len
  BY <1>1
<1>3. CASE s = <<>> /\ e.off = 0
  <2>1. Len(s) = 0
    BY <1>3
  <2> HIDE DEF t
  <2> QED BY <1>1, <1>2, <1>3, <2>1 DEF Covers
<1>4. CASE Covers(s, e.src, e.off)
  <2>1. Len(s) \in Nat /\ Len(s) # 0
    BY <1>4, EmptySeq DEF Covers
  <2> HIDE DEF t
  <2>2. t[1].off = 0
    BY <1>1, <1>4, <2>1 DEF Covers
  <2>3. \A i \in 1..Len(t) : t[i].src = e.src
    BY <1>1, <1>4, <2>1 DEF Covers
  <2>4. ASSUME NEW i \in 1..Len(t) - 1 PROVE t[i + 1].off = t[i].off + t[i].len
    <3>1. CASE i = Len(s)
      <4>1. s[Len(s)].off + s[Len(s)].len = e.off
        BY <1>4 DEF Covers
      <4> QED BY <1>1, <2>1, <3>1, <4>1
    <3>2. CASE i # Len(s)
      <4>1. i \in 1..Len(s) - 1 /\ i \in 1..Len(s) /\ i + 1 \in 1..Len(s)
        BY <1>1, <2>1, <3>2
      <4>2. s[i + 1].off = s[i].off + s[i].len
        BY <1>4, <4>1 DEF Covers
      <4> QED BY <1>1, <4>1, <4>2
    <3> QED BY <3>1, <3>2
  <2> QED BY <1>1, <1>2, <2>2, <2>3, <2>4 DEF Covers
<1> QED BY <1>3, <1>4 DEF CoversTo

(* The end of a sequence to which an element is appended. *)
LEMMA SubSeqAppend ==
    ASSUME NEW s \in Seq(Seg), NEW e \in Seg, NEW k \in 1..Len(s) + 1
    PROVE  /\ SubSeq(s, k, Len(s)) \in Seq(Seg)
           /\ SubSeq(Append(s, e), k, Len(s) + 1) = Append(SubSeq(s, k, Len(s)), e)
<1> DEFINE t == Append(s, e)
           u == SubSeq(s, k, Len(s))
           v == SubSeq(t, k, Len(s) + 1)
<1>1. /\ t \in Seq(Seg) /\ Len(t) = Len(s) + 1 /\ Len(s) \in Nat
      /\ t[Len(s) + 1] = e
      /\ \A i \in 1..Len(s) : t[i] = s[i]
  OBVIOUS
<1>2. k \in Int /\ Len(s) \in Int /\ Len(s) + 1 \in Int
  BY <1>1
<1>3. \A i \in k..Len(s) : s[i] \in Seg
  <2>1. \A i \in k..Len(s) : i \in 1..Len(s)
    BY <1>1
  <2> QED BY <2>1, ElementOfSeq
<1>4. \A i \in k..Len(s) + 1 : t[i] \in Seg
  <2>1. \A i \in k..Len(s) + 1 : i \in 1..Len(t)
    BY <1>1
  <2> HIDE DEF t
  <2> QED BY <1>1, <2>1, ElementOfSeq
<1> HIDE DEF t
<1>5. /\ u \in Seq(Seg) /\ Len(u) = Len(s) - k + 1
      /\ \A i \in 1..Len(s) - k + 1 : u[i] = s[k + i - 1]
  <2>1. Len(s) - k + 1 = IF k <= Len(s) THEN Len(s) - k + 1 ELSE 0
    BY <1>1
  <2> QED BY <1>2, <1>3, <2>1, SubSeqProperties
<1>6. /\ v \in Seq(Seg) /\ Len(v) = Len(s) + 1 - k + 1
      /\ \A i \in 1..Len(s) + 1 - k + 1 : v[i] = t[k + i - 1]
  <2>1. k <= Len(s) + 1
    BY <1>1
  <2> QED BY <1>2, <1>4, <2>1, SubSeqProperties
<1> HIDE DEF u, v
<1>7. /\ Append(u, e) \in Seq(Seg) /\ Len(Append(u, e)) = Len(u) + 1
      /\ Append(u, e)[Len(u) + 1] = e
      /\ \A i \in 1..Len(u) : Append(u, e)[i] = u[i]
  BY <1>5
<1>8. Len(v) = Len(Append(u, e))
  BY <1>1, <1>5, <1>6, <1>7
<1>9. ASSUME NEW i \in 1..Len(v) PROVE v[i] = Append(u, e)[i]
  <2>1. v[i] = t[k + i - 1]
    BY <1>6
  <2>2. CASE i = Len(u) + 1
    BY <1>1, <1>5, <1>7, <2>1, <2>2
  <2>3. CASE i # Len(u) + 1
    <3>1. i \in 1..Len(u) /\ k + i - 1 \in 1..Len(s)
      BY <1>1, <1>5, <1>6, <2>3
    <3> QED BY <1>1, <1>5, <1>7, <2>1, <3>1
  <2> QED BY <2>2, <2>3
<1>10. v = Append(u, e)
  BY <1>6, <1>7, <1>8, <1>9, SeqEqual
<1> QED BY <1>5, <1>10 DEF u, v, t

(* A chain that ends where a segment begins ends, with it, where the       *)
(* segment ends.                                                           *)
LEMMA EndsAppend ==
    ASSUME NEW s \in Seq(Seg), NEW e \in Seg, EndsTo(s, e.src, e.off)
    PROVE  EndsWith(Append(s, e), e.src, e.off + e.len)
<1>1. PICK k \in 1..Len(s) + 1 : CoversTo(SubSeq(s, k, Len(s)), e.src, e.off)
  BY DEF EndsTo
<1>2. Covers(Append(SubSeq(s, k, Len(s)), e), e.src, e.off + e.len)
  BY <1>1, SubSeqAppend, CoversAppend
<1>3. Len(Append(s, e)) = Len(s) + 1
  OBVIOUS
<1>4. Covers(SubSeq(Append(s, e), k, Len(Append(s, e))), e.src, e.off + e.len)
  BY <1>2, <1>3, SubSeqAppend
<1> QED BY <1>3, <1>4 DEF EndsWith

(* A chain that ends with a run, or a run that has not begun. *)
LEMMA EndsWithIsEndsTo ==
    ASSUME NEW s \in Seq(Seg), NEW src, NEW n, EndsWith(s, src, n)
    PROVE  EndsTo(s, src, n)
<1>1. PICK k \in 1..Len(s) : Covers(SubSeq(s, k, Len(s)), src, n)
  BY DEF EndsWith
<1>2. k \in 1..Len(s) + 1
  OBVIOUS
<1> QED BY <1>1, <1>2 DEF EndsTo, CoversTo

(* Every chain ends with none of a command. *)
LEMMA EndsNowhere ==
    ASSUME NEW s \in Seq(Seg), NEW src PROVE EndsTo(s, src, 0)
<1>1. Len(s) + 1 \in 1..Len(s) + 1 /\ Len(s) + 1 \in Int /\ Len(s) \in Int
      /\ Len(s) < Len(s) + 1
  OBVIOUS
<1>2. SubSeq(s, Len(s) + 1, Len(s)) = <<>>
  BY <1>1, SubSeqEmpty
<1> QED BY <1>1, <1>2 DEF EndsTo, CoversTo
(* An answer arrives as the card built it, with our CID or a foreign one,  *)
(* unless the reader listens at another speed.                             *)
LEMMA AnswerArrives ==
    ASSUME NEW f \in Block, CardAnswers(f)
    PROVE  \/ air' = Silence /\ rate.rx # card.dsi
           \/ /\ air'.kind = f.kind /\ air'.more = f.more /\ air'.seg = f.seg
              /\ air'.inf = f.inf /\ air'.foreign \in {FALSE, ForeignCid}
<1>1. PICK b \in {FALSE, ForeignCid} :
         air' = IF rate.rx = card.dsi THEN [f EXCEPT !.foreign = b] ELSE Silence
  <2>1. PICK a \in {FALSE, ForeignCid /\ losses < MaxLoss} :
           air' = IF rate.rx = card.dsi THEN [f EXCEPT !.foreign = a] ELSE Silence
    BY DEF CardAnswers
  <2>2. a \in {FALSE, ForeignCid}
    BY CardAssumption
  <2> QED BY <2>1, <2>2
<1>2. CASE rate.rx # card.dsi
  BY <1>1, <1>2
<1>3. CASE rate.rx = card.dsi
  <2>1. air' = [f EXCEPT !.foreign = b]
    BY <1>1, <1>3
  <2>2. air'.foreign = b
    BY <2>1 DEF Block
  <2>3. /\ air'.kind = f.kind /\ air'.more = f.more /\ air'.seg = f.seg
        /\ air'.inf = f.inf
    BY <2>1 DEF Block
  <2> QED BY <2>2, <2>3
<1> QED BY <1>2, <1>3

(* What the card puts on the air when it sends the next I-block of its     *)
(* response: from where it stopped, and more unless nothing is left.       *)
LEMMA SendResponseSends ==
    ASSUME NEW c \in Card, SendResponse(c)
    PROVE  /\ card'.chain = c.chain
           /\ card'.resp.off + card'.resp.len = c.resp.off + c.resp.len
           /\ air'.kind = "I" =>
                 /\ air'.seg.off = c.resp.off
                 /\ air'.seg.off + air'.seg.len = card'.resp.off
                 /\ air'.more <=> card'.resp.len > 0
           /\ air'.kind = "none" => rate.rx # card.dsi
           /\ air'.foreign \in {FALSE, ForeignCid}
<1> DEFINE n == Lesser(c.resp.len, FSD - 3)
           f == Frame("up", "I", c.num, n < c.resp.len,
                      [src |-> c.resp.src, off |-> c.resp.off, len |-> n], 0)
<1>1. n \in Nat /\ n <= c.resp.len
  BY FsdType DEF Lesser, Card, Seg
<1>2. c.resp.src \in Nat /\ c.resp.off \in Nat /\ c.resp.len \in Nat
  BY DEF Card, Seg
<1>3. card' = [c EXCEPT !.resp = [src |-> c.resp.src, off |-> c.resp.off + n,
                                  len |-> c.resp.len - n]]
  BY DEF SendResponse
<1>4. /\ card'.chain = c.chain
      /\ card'.resp = [src |-> c.resp.src, off |-> c.resp.off + n, len |-> c.resp.len - n]
  BY <1>3 DEF Card
<1>5. f \in Block /\ CardAnswers(f)
  <2>1. [src |-> c.resp.src, off |-> c.resp.off, len |-> n] \in Seg
    BY <1>1, <1>2 DEF Seg
  <2>2. c.num \in Bit /\ (n < c.resp.len) \in BOOLEAN
    BY DEF Card
  <2> QED BY <2>1, <2>2, FrameType DEF SendResponse, Kinds
<1> HIDE DEF n
<1>6. /\ f.kind = "I" /\ (f.more <=> n < c.resp.len)
      /\ f.seg = [src |-> c.resp.src, off |-> c.resp.off, len |-> n]
  BY DEF Frame
<1> HIDE DEF f
<1>7. /\ card'.resp.off + card'.resp.len = c.resp.off + c.resp.len
      /\ card'.resp.off = c.resp.off + n
      /\ card'.resp.len > 0 <=> n < c.resp.len
  BY <1>1, <1>2, <1>4
<1>8. air'.kind = "I" => /\ air'.seg.off = c.resp.off
                         /\ air'.seg.off + air'.seg.len = card'.resp.off
                         /\ air'.more <=> card'.resp.len > 0
  <2>1. Silence.kind = "none"
    BY DEF Silence, Frame
  <2>2. SUFFICES ASSUME air'.kind = "I"
                 PROVE  /\ air'.seg.off = c.resp.off
                        /\ air'.seg.off + air'.seg.len = card'.resp.off
                        /\ air'.more <=> card'.resp.len > 0
    OBVIOUS
  <2>3. air'.seg = f.seg /\ air'.more = f.more
    BY <1>5, <2>1, <2>2, AnswerArrives
  <2> QED BY <1>6, <1>7, <2>3
<1>9. air'.kind = "none" => rate.rx # card.dsi
  BY <1>5, <1>6, AnswerArrives
<1>10. air'.foreign \in {FALSE, ForeignCid}
  <2>1. Silence.foreign = FALSE
    BY DEF Silence, Frame
  <2> QED BY <1>5, <2>1, AnswerArrives
<1> QED BY <1>4, <1>7, <1>8, <1>9, <1>10

(* What a card that asks for time puts on the air. *)
LEMMA AskForTimeAsks ==
    ASSUME NEW c \in Card, AskForTime(c)
    PROVE  /\ card'.chain = c.chain
           /\ air'.kind = "WTX" => air'.inf \in WTXMs
           /\ air'.kind = "none" => rate.rx # card.dsi
           /\ air'.foreign \in {FALSE, ForeignCid}
<1>1. card'.chain = c.chain
  BY DEF AskForTime, Card
<1>2. PICK m \in WTXMs : CardAnswers(Frame("up", "WTX", 0, FALSE, NoSeg, m))
  BY DEF AskForTime
<1> DEFINE f == Frame("up", "WTX", 0, FALSE, NoSeg, m)
<1>3. f \in Block
  BY CardAssumption, NoBlockType, FrameType DEF Kinds, Bit
<1>4. f.kind = "WTX" /\ f.inf = m
  BY DEF Frame
<1>5. Silence.kind = "none" /\ Silence.foreign = FALSE
  BY DEF Silence, Frame
<1> HIDE DEF f
<1>6. \/ air' = Silence /\ rate.rx # card.dsi
      \/ /\ air'.kind = f.kind /\ air'.inf = f.inf
         /\ air'.foreign \in {FALSE, ForeignCid}
  BY <1>2, <1>3, AnswerArrives DEF f
<1> QED BY <1>1, <1>4, <1>5, <1>6

(* What an I-block adds to the card's chain, or to what it has executed. *)
LEMMA CardIBlockTakes ==
    ASSUME TypeOK, CardIBlock
    PROVE  LET got == Append(card.chain, air.seg)
           IN \/ /\ air.more /\ card'.chain = got
                 /\ air'.kind \in {"none", "R"}
                 /\ air'.kind = "none" => rate.rx # card.dsi
                 /\ air'.foreign \in {FALSE, ForeignCid}
              \/ /\ ~air.more /\ card'.chain = <<>>
                 /\ \E n \in RespLens :
                       /\ executed' = Append(executed, [call |-> ctx.call, cmd |-> got,
                                                        asked |-> ctx.tx_len, resp |-> n])
                       /\ card'.resp.off + card'.resp.len = n
                 /\ air'.kind \in {"none", "I", "WTX"}
                 /\ air'.kind = "I" =>
                       /\ air'.seg.off = 0
                       /\ air'.seg.off + air'.seg.len = card'.resp.off
                       /\ air'.more <=> card'.resp.len > 0
                 /\ air'.kind = "WTX" => air'.inf \in WTXMs /\ card'.resp.off = 0
                 /\ air'.kind = "none" => rate.rx # card.dsi
                 /\ air'.foreign \in {FALSE, ForeignCid}
<1> DEFINE got == Append(card.chain, air.seg)
           c   == [card EXCEPT !.num = 1 - @, !.chain = IF air.more THEN got ELSE <<>>]
<1>1. got \in Seq(Seg)
  BY DEF TypeOK, Card, Block
<1>2. c \in Card /\ c.chain = IF air.more THEN got ELSE <<>>
  <2>1. (IF air.more THEN got ELSE <<>>) \in Seq(Seg)
    BY <1>1
  <2>2. c \in Card
    BY <2>1, FlipCard DEF TypeOK
  <2> HIDE DEF got
  <2> QED BY <2>2 DEF TypeOK, Card
<1> HIDE DEF got
<1>3. CASE air.more
  <2>1. card' = c /\ CardAnswers(Frame("up", "R", c.num, FALSE, NoSeg, 0))
    BY <1>3 DEF CardIBlock, c, got
  <2> HIDE DEF c
  <2> DEFINE f == Frame("up", "R", c.num, FALSE, NoSeg, 0)
  <2>2. /\ air'.kind \in {"none", "R"}
        /\ air'.kind = "none" => rate.rx # card.dsi
        /\ air'.foreign \in {FALSE, ForeignCid}
    <3>1. f \in Block /\ f.kind = "R"
      <4>1. c.num \in Bit
        BY <1>2 DEF Card
      <4>2. f \in Block
        BY <4>1, PlainFrameType DEF Kinds
      <4> QED BY <4>2 DEF Frame
    <3>2. Silence.kind = "none" /\ Silence.foreign = FALSE
      BY DEF Silence, Frame
    <3> HIDE DEF f
    <3>3. \/ air' = Silence /\ rate.rx # card.dsi
          \/ air'.kind = f.kind /\ air'.foreign \in {FALSE, ForeignCid}
      BY <2>1, <3>1, AnswerArrives DEF f
    <3> QED BY <3>1, <3>2, <3>3
  <2> QED BY <1>2, <1>3, <2>1, <2>2 DEF got
<1>4. CASE ~air.more
  <2> HIDE DEF c
  <2>1. PICK n \in RespLens :
           /\ executed' = Append(executed, [call |-> ctx.call, cmd |-> got,
                                            asked |-> ctx.tx_len, resp |-> n])
           /\ LET d == [c EXCEPT !.wtx = 0,
                                 !.resp = [src |-> ctx.call, off |-> 0, len |-> n]]
              IN SendResponse(d) \/ AskForTime(d)
    BY <1>4 DEF CardIBlock, c, got
  <2> DEFINE d == [c EXCEPT !.wtx = 0,
                            !.resp = [src |-> ctx.call, off |-> 0, len |-> n]]
  <2>2. n \in Nat /\ ctx.call \in Nat
    BY CardAssumption DEF TypeOK, Ctx
  <2>3. d \in Card /\ d.resp.off = 0 /\ d.resp.len = n /\ d.chain = <<>>
    BY <1>2, <1>4, <2>2 DEF Card, Seg
  <2> HIDE DEF d
  <2>4. SendResponse(d) \/ AskForTime(d)
    BY <2>1 DEF d
  <2>5. /\ card'.chain = <<>> /\ card'.resp.off + card'.resp.len = n
        /\ air'.kind \in {"none", "I", "WTX"}
        /\ air'.kind = "I" =>
              /\ air'.seg.off = 0
              /\ air'.seg.off + air'.seg.len = card'.resp.off
              /\ air'.more <=> card'.resp.len > 0
        /\ air'.kind = "WTX" => air'.inf \in WTXMs /\ card'.resp.off = 0
        /\ air'.kind = "none" => rate.rx # card.dsi
        /\ air'.foreign \in {FALSE, ForeignCid}
    <3>1. CASE SendResponse(d)
      <4>1. d.resp.off + d.resp.len = n
        BY <2>2, <2>3
      <4> QED BY <2>3, <3>1, <4>1, SendResponseSends, SendResponseKeeps
    <3>2. CASE AskForTime(d)
      <4>1. d.resp.off + d.resp.len = n
        BY <2>2, <2>3
      <4> QED BY <2>3, <3>2, <4>1, AskForTimeAsks, AskForTimeKeeps
    <3> QED BY <2>4, <3>1, <3>2
  <2> QED BY <1>4, <2>1, <2>5 DEF got
<1> QED BY <1>3, <1>4
(* While the command goes down, the chain in the card ends with what has   *)
(* been sent of it (behind what an interrupted call may have left there);  *)
(* while the response comes up, the command was executed whole, and what   *)
(* the application has is the response up to where the card stands.        *)
CommandUnderWay ==
    /\ air.dir = "down" /\ air.kind = "I" =>
          /\ ctx.rx = <<>> /\ air.seg.src = ctx.call
          /\ air.seg.off + air.seg.len = ctx.next_tx /\ ctx.next_tx <= ctx.tx_len
          /\ air.more <=> ctx.next_tx < ctx.tx_len
          /\ EndsTo(card.chain, ctx.call, air.seg.off)
    /\ air.dir = "up" /\ air.kind = "R" =>
          /\ ctx.rx = <<>> /\ ctx.next_tx < ctx.tx_len
          /\ EndsTo(card.chain, ctx.call, ctx.next_tx)

ResponseUnderWay ==
    /\ air.kind = "WTX" => ctx.rx = <<>> /\ card.resp.off = 0
    /\ air.dir = "up" /\ air.kind = "I" =>
          /\ air.seg.off + air.seg.len = card.resp.off
          /\ CoversTo(ctx.rx, ctx.call, air.seg.off)
          /\ air.more <=> card.resp.len > 0
    /\ air.dir = "down" /\ air.kind = "R" => CoversTo(ctx.rx, ctx.call, card.resp.off)
    /\ Answering =>
          /\ EndsWith(LastExecuted.cmd, ctx.call, ctx.tx_len)
          /\ card.resp.off + card.resp.len = LastExecuted.resp

ProgressInv == CommandUnderWay /\ ResponseUnderWay

(* The I-block that tcl_refill_xcvb sends next: from where the last one    *)
(* ended, chained unless it is the last.                                   *)
LEMMA RefillSends ==
    ASSUME TypeOK, NEW c \in Ctx, tcl_refill_xcvb(c)
    PROVE  \/ /\ c.next_tx >= c.tx_len /\ ctx' = c
              /\ air' = Quiet /\ op' = "none" /\ ret' = [of |-> "xchg", val |-> "err"]
           \/ /\ c.next_tx < c.tx_len
              /\ op' = "xchg" /\ air'.dir = "down" /\ air'.kind = "I"
              /\ air'.seg.src = c.call /\ air'.seg.off = c.next_tx
              /\ air'.seg.off + air'.seg.len = ctx'.next_tx
              /\ ctx'.next_tx <= c.tx_len
              /\ air'.more <=> ctx'.next_tx < c.tx_len
              /\ ctx'.call = c.call /\ ctx'.tx_len = c.tx_len /\ ctx'.rx = c.rx
              /\ air'.foreign = FALSE
<1>0. c.next_tx \in Nat /\ c.tx_len \in Nat
  BY DEF Ctx
<1>1. CASE c.next_tx >= c.tx_len
  BY <1>1 DEF tcl_refill_xcvb, Return
<1>2. CASE ~(c.next_tx >= c.tx_len)
  <2> DEFINE n == NetLen(c.tx_len - c.next_tx)
  <2>1. c.tx_len - c.next_tx \in Nat
    BY <1>0, <1>2
  <2>2. n \in Nat /\ n <= c.tx_len - c.next_tx
    BY <2>1, NetLenType DEF TypeOK
  <2> HIDE DEF n
  <2>3. /\ op' = "xchg" /\ ctx' = [c EXCEPT !.next_tx = @ + n]
        /\ air' = Frame("down", "I", tcl_build_prologue2("I"), c.next_tx + n < c.tx_len,
                        [src |-> c.call, off |-> c.next_tx, len |-> n], 0)
    BY <1>2 DEF tcl_refill_xcvb, Transmit, n
  <2>4. /\ ctx'.next_tx = c.next_tx + n /\ ctx'.call = c.call
        /\ ctx'.tx_len = c.tx_len /\ ctx'.rx = c.rx
    BY <2>3 DEF Ctx
  <2>5. /\ air'.dir = "down" /\ air'.kind = "I" /\ air'.foreign = FALSE
        /\ air'.seg = [src |-> c.call, off |-> c.next_tx, len |-> n]
        /\ air'.more <=> c.next_tx + n < c.tx_len
    BY <2>3 DEF Frame
  <2>6. c.next_tx < c.tx_len /\ c.next_tx + n <= c.tx_len
    BY <1>0, <1>2, <2>2
  <2> QED BY <2>3, <2>4, <2>5, <2>6
<1> QED BY <1>1, <1>2

(* The parts of the types that the bytes of a call need. *)
LEMMA ByteTypes ==
    ASSUME TypeOK
    PROVE  /\ air.seg \in Seg /\ air.seg.off \in Nat /\ air.seg.len \in Nat
           /\ ctx.rx \in Seq(Seg) /\ card.chain \in Seq(Seg)
           /\ ctx.call \in Nat /\ ctx.tx_len \in Nat /\ ctx.next_tx \in Nat
           /\ card.resp.off \in Nat /\ card.resp.len \in Nat
           /\ executed \in Seq(Execution)
BY DEF TypeOK, Block, Seg, Ctx, Card, Execution

(* A step after which no block of tcl_transceive is on the air. *)
LEMMA NothingUnderWay ==
    ASSUME air'.kind \notin {"I", "R", "WTX"} PROVE ProgressInv'
BY DEF ProgressInv, CommandUnderWay, ResponseUnderWay, Answering

(* Each step keeps the parts of command and response where the call says   *)
(* they are.                                                               *)
LEMMA ProgressStep ==
    TypeOK /\ Carries /\ ExchangeInv /\ ProgressInv /\ [Next]_vars => ProgressInv'
<1> SUFFICES ASSUME TypeOK, Carries, ExchangeInv, ProgressInv, [Next]_vars
             PROVE  ProgressInv'
  OBVIOUS
<1> USE ByteTypes
<1>1. CASE rfid_layer2_init \/ tcl_init \/ tcl_fini
  BY <1>1, NothingUnderWay DEF rfid_layer2_init, tcl_init, tcl_fini, handle, app, Carries
<1>2. CASE tcl_connect \/ tcl_deselect
  BY <1>2, NothingUnderWay DEF tcl_connect, tcl_deselect, Transmit, Return, Frame, Quiet
<1>3. ASSUME NEW len \in TxLens, tcl_transceive(len) PROVE ProgressInv'
  <2> DEFINE c == [call |-> ctx.call + 1, tx_len |-> len, next_tx |-> 0, rx |-> <<>>]
  <2>1. c \in Ctx /\ c.rx = <<>> /\ c.next_tx = 0
    BY AppAssumption DEF TypeOK, Ctx
  <2>2. tcl_refill_xcvb(c) /\ UNCHANGED card
    BY <1>3 DEF tcl_transceive
  <2> HIDE DEF c
  <2>3. CASE air' = Quiet
    BY <2>3, NothingUnderWay DEF Quiet, Frame
  <2>4. CASE air' # Quiet
    <3>1. /\ air'.dir = "down" /\ air'.kind = "I"
          /\ air'.seg.src = ctx'.call /\ air'.seg.off = 0
          /\ air'.seg.off + air'.seg.len = ctx'.next_tx /\ ctx'.next_tx <= ctx'.tx_len
          /\ air'.more <=> ctx'.next_tx < ctx'.tx_len
          /\ ctx'.rx = <<>>
      BY <2>1, <2>2, <2>4, RefillSends
    <3>2. EndsTo(card'.chain, ctx'.call, 0)
      BY <2>2, EndsNowhere
    <3> QED BY <3>1, <3>2 DEF ProgressInv, CommandUnderWay, ResponseUnderWay, Answering
  <2> QED BY <2>3, <2>4
<1>4. CASE XchgRBlock
  <2>1. CASE air' = Quiet
    BY <2>1, NothingUnderWay DEF Quiet, Frame
  <2>2. CASE air' # Quiet
    <3>1. ctx \in Ctx /\ tcl_refill_xcvb(ctx) /\ UNCHANGED card
      BY <1>4, <2>2 DEF XchgRBlock, Return, TypeOK
    <3>2. ctx.rx = <<>> /\ EndsTo(card.chain, ctx.call, ctx.next_tx)
      BY <1>4 DEF XchgRBlock, ProgressInv, CommandUnderWay
    <3>3. /\ air'.dir = "down" /\ air'.kind = "I"
          /\ air'.seg.src = ctx'.call /\ air'.seg.off = ctx.next_tx
          /\ air'.seg.off + air'.seg.len = ctx'.next_tx /\ ctx'.next_tx <= ctx'.tx_len
          /\ air'.more <=> ctx'.next_tx < ctx'.tx_len
          /\ ctx'.rx = <<>> /\ ctx'.call = ctx.call
      BY <2>2, <3>1, <3>2, RefillSends
    <3>4. EndsTo(card'.chain, ctx'.call, air'.seg.off)
      BY <3>1, <3>2, <3>3
    <3> QED BY <3>3, <3>4 DEF ProgressInv, CommandUnderWay, ResponseUnderWay, Answering
  <2> QED BY <2>1, <2>2
<1>5. CASE RatsFails \/ RatsAnswered \/ PpsFails \/ PpsAnswered
  BY <1>5, NothingUnderWay DEF RatsFails, RatsAnswered, PpsFails, PpsAnswered, Return,
     Transmit, Quiet, Frame
<1>6. CASE XchgFails \/ DeselectFails \/ DeselectAnswered
  BY <1>6, NothingUnderWay DEF XchgFails, DeselectFails, DeselectAnswered, Return, Quiet,
     Frame
<1>7. CASE XchgSBlock
  <2>1. UNCHANGED <<ctx, card, executed>>
    BY <1>7 DEF XchgSBlock
  <2>2. air' = Quiet \/ air'.kind = "WTX"
    BY <1>7 DEF XchgSBlock, Return, Transmit, Frame
  <2>3. /\ ctx.rx = <<>> /\ card.resp.off = 0
        /\ EndsWith(LastExecuted.cmd, ctx.call, ctx.tx_len)
        /\ card.resp.off + card.resp.len = LastExecuted.resp
    BY <1>7 DEF XchgSBlock, ProgressInv, ResponseUnderWay, Answering
  <2>4. CASE air' = Quiet
    BY <2>4, NothingUnderWay DEF Quiet, Frame
  <2>5. CASE air'.kind = "WTX"
    BY <2>1, <2>3, <2>5
    DEF ProgressInv, CommandUnderWay, ResponseUnderWay, Answering, LastExecuted
  <2> QED BY <2>2, <2>4, <2>5
<1>8. CASE XchgIBlock
  <2>1. CASE air' = Quiet
    BY <2>1, NothingUnderWay DEF Quiet, Frame
  <2>2. CASE air' # Quiet
    <3>1. /\ UNCHANGED <<card, executed>>
          /\ ctx' = [ctx EXCEPT !.rx = Append(ctx.rx, air.seg)]
          /\ air'.dir = "down" /\ air'.kind = "R"
      BY <1>8, <2>2 DEF XchgIBlock, Return, Transmit, Frame
    <3>2. /\ ctx'.rx = Append(ctx.rx, air.seg)
          /\ ctx'.call = ctx.call /\ ctx'.tx_len = ctx.tx_len
      BY <3>1 DEF TypeOK, Ctx
    <3>3. /\ air.seg.src = ctx.call
          /\ air.seg.off + air.seg.len = card.resp.off
          /\ CoversTo(ctx.rx, ctx.call, air.seg.off)
          /\ EndsWith(LastExecuted.cmd, ctx.call, ctx.tx_len)
          /\ card.resp.off + card.resp.len = LastExecuted.resp
      BY <1>8 DEF XchgIBlock, ExchangeInv, ProgressInv, ResponseUnderWay, Answering
    <3>4. Covers(ctx'.rx, ctx'.call, card'.resp.off)
      BY <3>1, <3>2, <3>3, CoversAppend
    <3> QED BY <3>1, <3>2, <3>3, <3>4
        DEF ProgressInv, CommandUnderWay, ResponseUnderWay, Answering, LastExecuted, CoversTo
  <2> QED BY <2>1, <2>2
<1>9. CASE CardIBlock
  <2>1. /\ ctx.rx = <<>> /\ air.seg.src = ctx.call
        /\ air.seg.off + air.seg.len = ctx.next_tx /\ ctx.next_tx <= ctx.tx_len
        /\ air.more <=> ctx.next_tx < ctx.tx_len
        /\ EndsTo(card.chain, ctx.call, air.seg.off)
        /\ UNCHANGED ctx
    BY <1>9 DEF CardIBlock, app, ProgressInv, CommandUnderWay
  <2>2. EndsWith(Append(card.chain, air.seg), ctx.call, ctx.next_tx)
    BY <2>1, EndsAppend
  <2>3. air'.dir = "up"
    BY <1>9, CardIBlockEffect
  <2>4. CASE air.more
    <3>1. card'.chain = Append(card.chain, air.seg) /\ air'.kind \in {"none", "R"}
      BY <1>9, <2>4, CardIBlockTakes
    <3>2. Append(card.chain, air.seg) \in Seq(Seg)
      OBVIOUS
    <3>3. EndsTo(card'.chain, ctx.call, ctx.next_tx)
      BY <2>2, <3>1, <3>2, EndsWithIsEndsTo
    <3> QED BY <2>1, <2>3, <2>4, <3>1, <3>3
        DEF ProgressInv, CommandUnderWay, ResponseUnderWay, Answering
  <2>5. CASE ~air.more
    <3>1. /\ air'.kind \in {"none", "I", "WTX"}
          /\ air'.kind = "I" =>
                /\ air'.seg.off = 0
                /\ air'.seg.off + air'.seg.len = card'.resp.off
                /\ air'.more <=> card'.resp.len > 0
          /\ air'.kind = "WTX" => card'.resp.off = 0
      BY <1>9, <2>5, CardIBlockTakes
    <3>2. PICK n \in RespLens :
             /\ executed' = Append(executed, [call |-> ctx.call, asked |-> ctx.tx_len,
                                cmd |-> Append(card.chain, air.seg), resp |-> n])
             /\ card'.resp.off + card'.resp.len = n
      BY <1>9, <2>5, CardIBlockTakes
    <3> DEFINE e == [call |-> ctx.call, cmd |-> Append(card.chain, air.seg),
                     asked |-> ctx.tx_len, resp |-> n]
    <3>3. e \in Execution
      <4>1. Append(card.chain, air.seg) \in Seq(Seg) /\ n \in Nat
        BY CardAssumption
      <4> QED BY <4>1 DEF Execution
    <3>4. e.cmd = Append(card.chain, air.seg) /\ e.resp = n
      OBVIOUS
    <3>5. executed' = Append(executed, e)
      BY <3>2
    <3> HIDE DEF e
    <3>6. executed'[Len(executed')] = e
      BY <3>3, <3>5, AppendCalls
    <3>7. ctx.next_tx = ctx.tx_len
      BY <2>1, <2>5
    <3>8. EndsWith(e.cmd, ctx.call, ctx.tx_len)
      BY <2>2, <3>4, <3>7
    <3> QED BY <2>1, <2>3, <3>1, <3>2, <3>4, <3>6, <3>8
        DEF ProgressInv, CommandUnderWay, ResponseUnderWay, Answering, LastExecuted, CoversTo
  <2> QED BY <2>4, <2>5
<1>10. CASE CardRBlock
  <2> DEFINE c == [card EXCEPT !.num = 1 - @]
  <2>1. c \in Card /\ c.resp = card.resp
    BY FlipCard DEF TypeOK, Card
  <2>2. SendResponse(c) /\ UNCHANGED <<executed, ctx>>
    BY <1>10 DEF CardRBlock, app
  <2> HIDE DEF c
  <2>3. /\ CoversTo(ctx.rx, ctx.call, card.resp.off)
        /\ EndsWith(LastExecuted.cmd, ctx.call, ctx.tx_len)
        /\ card.resp.off + card.resp.len = LastExecuted.resp
    BY <1>10 DEF CardRBlock, ProgressInv, ResponseUnderWay, Answering
  <2>4. air'.dir = "up" /\ air'.kind \in {"none", "I"}
    BY <2>1, <2>2, SendResponseKeeps
  <2>5. /\ card'.resp.off + card'.resp.len = LastExecuted.resp
        /\ air'.kind = "I" =>
              /\ air'.seg.off = card.resp.off
              /\ air'.seg.off + air'.seg.len = card'.resp.off
              /\ air'.more <=> card'.resp.len > 0
    BY <2>1, <2>2, <2>3, SendResponseSends
  <2> QED BY <2>2, <2>3, <2>4, <2>5
      DEF ProgressInv, CommandUnderWay, ResponseUnderWay, Answering, LastExecuted
<1>11. CASE CardWtx
  <2>1. card \in Card /\ UNCHANGED <<executed, ctx>>
    BY <1>11 DEF CardWtx, app, TypeOK
  <2>2. /\ ctx.rx = <<>> /\ card.resp.off = 0
        /\ EndsWith(LastExecuted.cmd, ctx.call, ctx.tx_len)
        /\ card.resp.off + card.resp.len = LastExecuted.resp
    BY <1>11 DEF CardWtx, ProgressInv, ResponseUnderWay, Answering
  <2>3. CASE SendResponse(card)
    <3>1. air'.dir = "up" /\ air'.kind \in {"none", "I"}
      BY <2>1, <2>3, SendResponseKeeps
    <3>2. /\ card'.resp.off + card'.resp.len = LastExecuted.resp
          /\ air'.kind = "I" =>
                /\ air'.seg.off = 0
                /\ air'.seg.off + air'.seg.len = card'.resp.off
                /\ air'.more <=> card'.resp.len > 0
      BY <2>1, <2>2, <2>3, SendResponseSends
    <3> QED BY <2>1, <2>2, <3>1, <3>2
        DEF ProgressInv, CommandUnderWay, ResponseUnderWay, Answering, LastExecuted, CoversTo
  <2>4. CASE AskForTime(card)
    <3>1. air'.dir = "up" /\ air'.kind \in {"none", "WTX"} /\ card'.resp = card.resp
      BY <2>1, <2>4, AskForTimeKeeps
    <3> QED BY <2>1, <2>2, <3>1
        DEF ProgressInv, CommandUnderWay, ResponseUnderWay, Answering, LastExecuted
  <2> QED BY <1>11, <2>3, <2>4 DEF CardWtx
<1>12. CASE CardMute \/ CardRats \/ CardPps \/ CardDeselect \/ Loss
  BY <1>12, NothingUnderWay DEF CardMute, CardRats, CardPps, CardDeselect, Loss, LoseDown,
     LoseUp, Silence, Frame
<1>13. CASE UNCHANGED vars
  BY <1>13 DEF vars, app, ProgressInv, CommandUnderWay, ResponseUnderWay, Answering,
               LastExecuted
<1> QED
  BY <1>1, <1>2, <1>3, <1>4, <1>5, <1>6, <1>7, <1>8, <1>9, <1>10, <1>11, <1>12, <1>13
  DEF Next, Application, Reader, CardStep

(* How far the command and the response have come, at every step of a      *)
(* call.                                                                   *)
LEMMA ProgressHolds == Spec => []ProgressInv
<1>1. Init => ProgressInv
  BY DEF Init, ProgressInv, CommandUnderWay, ResponseUnderWay, Answering, Quiet, Frame
<1> QED BY <1>1, TypeCorrect, CarriesHolds, ExchangeInvHolds, ProgressStep, PTL DEF Spec
---------------------------------------------------------------------------
(* Success means success.                                                  *)

(* The last I-block of a response completes the call. *)
LEMMA LastBlockCompletes ==
    ASSUME TypeOK, ExchangeInv, ProgressInv, XchgIBlock,
           ~(WrongToggle(air) \/ ~check_cid(air)), ~air.more
    PROVE  Completed'
<1> USE ByteTypes
<1>1. /\ ctx' = [ctx EXCEPT !.rx = Append(ctx.rx, air.seg)] /\ UNCHANGED executed
  BY DEF XchgIBlock
<1>2. /\ ctx'.rx = Append(ctx.rx, air.seg)
      /\ ctx'.call = ctx.call /\ ctx'.tx_len = ctx.tx_len
  BY <1>1 DEF TypeOK, Ctx
<1>3. /\ air.seg.src = ctx.call
      /\ executed # <<>> /\ LastExecuted.call = ctx.call
      /\ EndsWith(LastExecuted.cmd, ctx.call, ctx.tx_len)
      /\ CoversTo(ctx.rx, ctx.call, air.seg.off)
      /\ air.seg.off + air.seg.len = card.resp.off
      /\ card.resp.off + card.resp.len = LastExecuted.resp
      /\ ~(card.resp.len > 0)
  BY DEF XchgIBlock, ExchangeInv, JustExecuted, ProgressInv, ResponseUnderWay, Answering
<1>4. air.seg.off + air.seg.len = LastExecuted.resp
  BY <1>3
<1>5. Covers(ctx'.rx, ctx.call, LastExecuted.resp)
  BY <1>2, <1>3, <1>4, CoversAppend
<1> QED BY <1>1, <1>2, <1>3, <1>5 DEF Completed, LastExecuted

(* Without foreign cards, no answer carries a foreign CID. *)
LEMMA OurCidStep ==
    ASSUME ForeignCid = FALSE
    PROVE  TypeOK /\ air.foreign = FALSE /\ [Next]_vars => air'.foreign = FALSE
<1> SUFFICES ASSUME TypeOK, air.foreign = FALSE, [Next]_vars PROVE air'.foreign = FALSE
  OBVIOUS
<1>0. Quiet.foreign = FALSE /\ Silence.foreign = FALSE
  BY DEF Quiet, Silence, Frame
<1>1. CASE rfid_layer2_init \/ tcl_init \/ tcl_fini
  BY <1>1 DEF rfid_layer2_init, tcl_init, tcl_fini
<1>2. CASE tcl_connect \/ tcl_deselect
  BY <1>0, <1>2 DEF tcl_connect, tcl_deselect, Transmit, Return, Frame
<1>3. ASSUME NEW len \in TxLens, tcl_transceive(len) PROVE air'.foreign = FALSE
  <2>1. [call |-> ctx.call + 1, tx_len |-> len, next_tx |-> 0, rx |-> <<>>] \in Ctx
    BY AppAssumption DEF TypeOK, Ctx
  <2> QED BY <1>0, <1>3, <2>1, RefillSends DEF tcl_transceive
<1>4. CASE XchgRBlock
  BY <1>0, <1>4, RefillSends DEF XchgRBlock, Return, TypeOK
<1>5. CASE RatsFails \/ RatsAnswered \/ PpsFails \/ PpsAnswered
  BY <1>0, <1>5 DEF RatsFails, RatsAnswered, PpsFails, PpsAnswered, Return, Transmit, Frame
<1>6. CASE XchgFails \/ XchgSBlock \/ XchgIBlock
  BY <1>0, <1>6 DEF XchgFails, XchgSBlock, XchgIBlock, Return, Transmit, Frame
<1>7. CASE DeselectFails \/ DeselectAnswered
  BY <1>0, <1>7 DEF DeselectFails, DeselectAnswered, Return
<1>8. CASE CardIBlock
  BY <1>8, CardIBlockTakes
<1>9. CASE CardRBlock
  <2>1. [card EXCEPT !.num = 1 - @] \in Card
    BY FlipCard DEF TypeOK, Card
  <2> QED BY <1>9, <2>1, SendResponseSends DEF CardRBlock
<1>10. CASE CardWtx
  BY <1>10, SendResponseSends, AskForTimeAsks DEF CardWtx, TypeOK
<1>11. CASE CardMute \/ Loss
  BY <1>0, <1>11 DEF CardMute, Loss, LoseDown, LoseUp
<1>12. CASE CardRats \/ CardPps \/ CardDeselect
  BY <1>12 DEF CardRats, CardPps, CardDeselect, Frame
<1>13. CASE UNCHANGED vars
  BY <1>13 DEF vars
<1> QED
  BY <1>1, <1>2, <1>3, <1>4, <1>5, <1>6, <1>7, <1>8, <1>9, <1>10, <1>11, <1>12, <1>13
  DEF Next, Application, Reader, CardStep

(* Each step keeps a successful call whole while the block numbers         *)
(* agree.                                                                  *)
LEMMA SyncedStep ==
    /\ TypeOK /\ Carries /\ NumberingInv /\ ExchangeInv /\ ProgressInv
    /\ air.foreign = FALSE /\ SyncedExchange /\ [Next]_vars
    => SyncedExchange'
<1> SUFFICES ASSUME TypeOK, Carries, NumberingInv, ExchangeInv, ProgressInv,
                    air.foreign = FALSE, SyncedExchange, [Next]_vars
             PROVE  SyncedExchange'
  OBVIOUS
<1> USE DEF SyncedExchange, CallReturned
<1>a. ASSUME paired, skew = 0, air.dir = "up", air.kind \in {"I", "R"}
      PROVE  ~(WrongToggle(air) \/ ~check_cid(air))
  <2>1. air.num = card.num /\ toggle = card.num
    BY <1>a DEF NumberingInv, BlockNumbers, ToggleParity, Due, Numbered
  <2> QED BY <2>1 DEF WrongToggle, check_cid
<1>1. CASE rfid_layer2_init \/ tcl_init
  BY <1>1 DEF rfid_layer2_init, tcl_init
<1>2. CASE tcl_fini
  <2>1. UNCHANGED <<op, ret, ctx, executed, paired, skew>>
    BY <1>2 DEF tcl_fini, app
  <2> QED BY <2>1 DEF Completed, LastExecuted
<1>3. CASE tcl_connect \/ tcl_deselect
  BY <1>3 DEF tcl_connect, tcl_deselect, Transmit, Return
<1>4. ASSUME NEW len \in TxLens, tcl_transceive(len) PROVE SyncedExchange'
  <2>1. [call |-> ctx.call + 1, tx_len |-> len, next_tx |-> 0, rx |-> <<>>] \in Ctx
    BY AppAssumption DEF TypeOK, Ctx
  <2>2. op' = "xchg" \/ ret' = [of |-> "xchg", val |-> "err"]
    BY <1>4, <2>1, RefillSends DEF tcl_transceive
  <2> QED BY <2>2
<1>5. CASE RatsFails \/ RatsAnswered \/ PpsFails \/ PpsAnswered
  <2>1. op' # "none" \/ ret'.of = "connect"
    <3>1. CASE RatsFails
      BY <3>1 DEF RatsFails, Return
    <3>2. CASE RatsAnswered
      <4>1. \/ Return("connect", "err")
            \/ Return("connect", "ok")
            \/ op' = "pps"
        BY <3>2 DEF RatsAnswered, Transmit
      <4> QED BY <4>1 DEF Return
    <3>3. CASE PpsFails
      BY <3>3 DEF PpsFails, Return
    <3>4. CASE PpsAnswered
      BY <3>4 DEF PpsAnswered, Return
    <3> QED BY <1>5, <3>1, <3>2, <3>3, <3>4
  <2> QED BY <2>1
<1>6. CASE XchgFails
  BY <1>6 DEF XchgFails, Return
<1>7. CASE XchgRBlock
  <2>1. UNCHANGED <<paired, skew>> /\ air.dir = "up" /\ air.kind = "R"
    BY <1>7 DEF XchgRBlock
  <2>2. CASE WrongToggle(air) \/ ~check_cid(air)
    BY <1>a, <2>1, <2>2
  <2>3. CASE ~(WrongToggle(air) \/ ~check_cid(air))
    <3>1. op' = "xchg" \/ ret' = [of |-> "xchg", val |-> "err"]
      BY <1>7, <2>3, RefillSends DEF XchgRBlock, TypeOK
    <3> QED BY <3>1
  <2> QED BY <2>2, <2>3
<1>8. CASE XchgSBlock
  BY <1>8 DEF XchgSBlock, Return, Transmit, check_cid
<1>9. CASE XchgIBlock
  <2>1. UNCHANGED <<paired, skew>> /\ air.dir = "up" /\ air.kind = "I"
    BY <1>9 DEF XchgIBlock
  <2>2. CASE WrongToggle(air) \/ ~check_cid(air)
    BY <1>a, <2>1, <2>2
  <2>3. CASE ~(WrongToggle(air) \/ ~check_cid(air)) /\ air.more
    BY <1>9, <2>3 DEF XchgIBlock, Transmit
  <2>4. CASE ~(WrongToggle(air) \/ ~check_cid(air)) /\ ~air.more
    BY <1>9, <2>4, LastBlockCompletes
  <2> QED BY <2>2, <2>3, <2>4
<1>10. CASE DeselectFails \/ DeselectAnswered
  <2>1. ret'.of = "deselect"
    BY <1>10 DEF DeselectFails, DeselectAnswered, Return
  <2> QED BY <2>1
<1>11. CASE CardStep \/ Loss
  <2>1. air.dir # "quiet" /\ UNCHANGED op
    BY <1>11 DEF CardStep, Loss, CardMute, CardRats, CardPps, CardIBlock, CardRBlock,
                 CardWtx, CardDeselect, LoseDown, LoseUp, app
  <2> QED BY <2>1 DEF Carries
<1>12. CASE UNCHANGED vars
  BY <1>12 DEF vars, app, Completed, LastExecuted
<1> QED
  BY <1>1, <1>2, <1>3, <1>4, <1>5, <1>6, <1>7, <1>8, <1>9, <1>10, <1>11, <1>12
  DEF Next, Application, Reader

(* As long as the block numbers agree, a call of tcl_transceive that       *)
(* returns success has had its whole command executed and has the whole    *)
(* response, however the command and the response were chained and         *)
(* whatever earlier calls lost; for cards that answer with the CID they    *)
(* were given (a foreign CID ends a call with success, so the hypothesis   *)
(* is needed).                                                             *)
THEOREM SyncedExchangeHolds ==
    ASSUME ForeignCid = FALSE
    PROVE  Spec => []SyncedExchange
<1>1. Init => air.foreign = FALSE /\ SyncedExchange
  BY DEF Init, SyncedExchange, CallReturned, Quiet, Frame
<1>2. TypeOK /\ air.foreign = FALSE /\ [Next]_vars => (air.foreign = FALSE)'
  BY OurCidStep
<1> QED
  BY <1>1, <1>2, SyncedStep, TypeCorrect, CarriesHolds, NumberingCorrect,
     ExchangeInvHolds, ProgressHolds, PTL DEF Spec
---------------------------------------------------------------------------
(* The undisturbed link.                                                   *)

(* Nothing is lost and every register write succeeds, the cards answer with *)
(* their own CID and ask for extensions the standard allows, and the        *)
(* application transceives non-empty commands on opened handles only.       *)
Undisturbed ==
    /\ MaxLoss = 0 /\ ForeignCid = FALSE /\ \A w \in WTXMs : ~BadWtxm(w)
    /\ OpensFirst /\ 0 \notin TxLens

(* The handle and its card have not lost each other: an established handle *)
(* has an activated card, and while a command is under way there is a      *)
(* block on the air.                                                       *)
InTouch ==
    /\ skew = 0
    /\ state = "ESTABLISHED" \/ op = "pps" \/ air.kind = "ATS" => paired
    /\ state = "ESTABLISHED" /\ ~(op = "deselect" /\ air.dir = "up") => card.st = "PROTOCOL"
    /\ op = "pps" \/ air.kind = "ATS" => card.st = "PROTOCOL"
    /\ op = "xchg" => state = "ESTABLISHED" /\ air.kind \in {"I", "R", "WTX"}
    /\ op = "deselect" /\ state = "ESTABLISHED" => air.kind = "DESELECT"
    /\ air.kind = "DESELECT" => op = "deselect"
    /\ air.kind = "WTX" => ~BadWtxm(air.inf)
    /\ air.foreign = FALSE

(* A chain of I-blocks in the card holds the current command from its      *)
(* first byte, and no chain survives its call.                             *)
PureChain ==
    /\ air.dir = "down" /\ air.kind = "I" => CoversTo(card.chain, ctx.call, air.seg.off)
    /\ air.dir = "up" /\ air.kind = "R" => CoversTo(card.chain, ctx.call, ctx.next_tx)
    /\ ~Commanding => card.chain = <<>>

(* The card takes every block of an exchange, and the reader its answer. *)
LEMMA CardListens ==
    ASSUME TypeOK, Carries, SpeedInv, InTouch, air.dir = "down",
           op = "xchg" \/ (op = "deselect" /\ state = "ESTABLISHED")
    PROVE  Obeys /\ rate.rx = card.dsi
<1>1. state = "ESTABLISHED" /\ card.st = "PROTOCOL" /\ air.kind \notin {"RATS", "PPS"}
  BY DEF InTouch
<1>2. rate = [rx |-> card.dsi, tx |-> card.dri]
  BY <1>1 DEF SpeedInv
<1> QED BY <1>1, <1>2 DEF Obeys, InTune

(* On an undisturbed link reader and card stay in step. *)
LEMMA InTouchStep ==
    ASSUME Undisturbed
    PROVE  TypeOK /\ Carries /\ NumberingInv /\ SpeedInv /\ ProgressInv /\ InTouch
           /\ [Next]_vars => InTouch'
<1> SUFFICES ASSUME TypeOK, Carries, NumberingInv, SpeedInv, ProgressInv, InTouch, [Next]_vars
             PROVE  InTouch'
  OBVIOUS
<1> USE DEF InTouch
<1>0. air'.foreign = FALSE
  BY OurCidStep DEF Undisturbed
<1>a. /\ Quiet.kind = "none" /\ Quiet.dir = "quiet" /\ Silence.kind = "none"
      /\ Silence.dir = "up"
  BY DEF Quiet, Silence, Frame
<1>1. CASE rfid_layer2_init \/ tcl_init \/ tcl_fini
  BY <1>0, <1>1 DEF rfid_layer2_init, tcl_init, tcl_fini, handle, app, Carries
<1>2. CASE tcl_connect \/ tcl_deselect
  BY <1>0, <1>2, <1>a DEF tcl_connect, tcl_deselect, Transmit, Return, Frame, handle, Carries
<1>3. ASSUME NEW len \in TxLens, tcl_transceive(len) PROVE InTouch'
  <2>1. tcl_transceive(len) /\ state = "ESTABLISHED" /\ len # 0 /\ op = "none"
    BY <1>3 DEF tcl_transceive, Undisturbed
  <2> DEFINE c == [call |-> ctx.call + 1, tx_len |-> len, next_tx |-> 0, rx |-> <<>>]
  <2>2. tcl_refill_xcvb(c)
    BY <1>3 DEF tcl_transceive
  <2>3. c \in Ctx /\ c.next_tx = 0 /\ c.tx_len = len /\ len \in Nat
    <3>1. len \in Nat /\ ctx.call + 1 \in Nat
      BY AppAssumption, ByteTypes
    <3>2. c \in Ctx
      BY <3>1 DEF Ctx
    <3>3. c.next_tx = 0 /\ c.tx_len = len
      OBVIOUS
    <3> QED BY <3>1, <3>2, <3>3
  <2> HIDE DEF c
  <2>4. op' = "xchg" /\ air'.kind = "I"
    <3>1. c \in Ctx /\ ~(c.next_tx >= c.tx_len)
      BY <2>1, <2>3
    <3> QED BY <2>2, <3>1, RefillSends
  <2> QED BY <1>0, <1>3, <2>1, <2>4 DEF tcl_transceive
<1>4. CASE RatsFails \/ PpsFails \/ XchgFails \/ DeselectFails
  BY <1>0, <1>4, <1>a DEF RatsFails, PpsFails, XchgFails, DeselectFails, Return, handle, Carries
<1>5. CASE RatsAnswered
  <2>1. /\ UNCHANGED <<card, paired, skew>> /\ air.kind = "ATS"
        /\ \/ op' = "none" /\ air' = Quiet
           \/ op' = "pps" /\ air'.kind = "PPS" /\ state' = "ATS_RCVD"
    BY <1>5 DEF RatsAnswered, Return, Transmit, Frame
  <2> QED BY <1>0, <1>a, <2>1
<1>6. CASE PpsAnswered
  BY <1>0, <1>6, <1>a DEF PpsAnswered, Return
<1>7. CASE XchgRBlock
  <2>1. ~WrongToggle(air) /\ check_cid(air)
    BY <1>7 DEF XchgRBlock, NumberingInv, BlockNumbers, ToggleParity, Due, Numbered,
                WrongToggle, check_cid
  <2>2. tcl_refill_xcvb(ctx) /\ ctx.next_tx < ctx.tx_len
    BY <1>7, <2>1 DEF XchgRBlock, ProgressInv, CommandUnderWay
  <2>3. op' = "xchg" /\ air'.kind = "I"
    <3>1. ctx \in Ctx /\ ~(ctx.next_tx >= ctx.tx_len)
      BY <2>2, ByteTypes DEF TypeOK
    <3> QED BY <2>2, <3>1, RefillSends
  <2> QED BY <1>0, <1>7, <2>3 DEF XchgRBlock
<1>8. CASE XchgSBlock
  <2>1. op' = "xchg" /\ air'.kind = "WTX" /\ air'.inf = air.inf % 64
    BY <1>8 DEF XchgSBlock, check_cid, Transmit, Frame
  <2>2. air.inf \in Nat /\ ~BadWtxm(air.inf)
    BY <1>8 DEF TypeOK, Block, XchgSBlock
  <2>3. ~BadWtxm(air.inf % 64)
    BY <2>2 DEF BadWtxm
  <2> QED BY <1>0, <1>8, <2>1, <2>3 DEF XchgSBlock, handle
<1>9. CASE XchgIBlock
  <2>1. ~WrongToggle(air) /\ check_cid(air)
    BY <1>9 DEF XchgIBlock, NumberingInv, BlockNumbers, ToggleParity, Due, Numbered,
                WrongToggle, check_cid
  <2>2. \/ op' = "xchg" /\ air'.kind = "R"
        \/ op' = "none" /\ air' = Quiet
    BY <1>9, <2>1 DEF XchgIBlock, Return, Transmit, Frame
  <2> QED BY <1>0, <1>9, <1>a, <2>2 DEF XchgIBlock
<1>10. CASE DeselectAnswered
  BY <1>0, <1>10, <1>a DEF DeselectAnswered, Return
<1>11. CASE CardMute
  <2>1. ~(op = "xchg" \/ (op = "deselect" /\ state = "ESTABLISHED"))
    BY <1>11, CardListens DEF CardMute
  <2>2. ~Numbered
    BY <2>1 DEF Numbered, Carries
  <2> QED BY <1>0, <1>11, <1>a, <2>1, <2>2 DEF CardMute, Untaken, handle, app
<1>12. CASE CardRats \/ CardPps \/ CardDeselect
  <2>1. CASE CardRats
    BY <1>0, <2>1 DEF CardRats, Frame, handle, app, Carries, TypeOK, Card
  <2>2. CASE CardPps
    BY <1>0, <2>2 DEF CardPps, Frame, handle, app, Carries, TypeOK, Card
  <2>3. CASE CardDeselect
    BY <1>0, <2>3 DEF CardDeselect, Frame, handle, app, Carries, TypeOK, Card
  <2> QED BY <1>12, <2>1, <2>2, <2>3
<1>13. CASE Serves
  <2>1. /\ card'.st = card.st /\ air'.dir = "up"
        /\ air'.kind \in {"none", "I", "R", "WTX"}
        /\ air.dir = "down" /\ air.kind \in {"I", "R", "WTX"}
        /\ UNCHANGED <<handle, app, rate, paired, skew>>
    BY <1>13, ServesKeeps
  <2>2. op = "xchg"
    BY <2>1 DEF Carries
  <2>3. rate.rx = card.dsi
    BY <2>1, <2>2, CardListens
  <2>4. air'.kind # "none" /\ (air'.kind = "WTX" => air'.inf \in WTXMs)
    <3>1. CASE CardIBlock
      BY <2>3, <3>1, CardIBlockTakes
    <3>2. CASE CardRBlock
      <4>1. [card EXCEPT !.num = 1 - @] \in Card
        BY FlipCard DEF TypeOK, Card
      <4> QED BY <2>3, <3>2, <4>1, SendResponseSends, SendResponseKeeps DEF CardRBlock
    <3>3. CASE CardWtx
      BY <2>3, <3>3, SendResponseSends, SendResponseKeeps, AskForTimeAsks, AskForTimeKeeps
      DEF CardWtx, TypeOK
    <3> QED BY <1>13, <3>1, <3>2, <3>3 DEF Serves
  <2> QED BY <1>0, <2>1, <2>2, <2>4 DEF Undisturbed, handle, app
<1>14. CASE Loss
  BY <1>14 DEF Loss, LoseDown, LoseUp, Undisturbed, TypeOK
<1>15. CASE UNCHANGED vars
  BY <1>15 DEF vars, handle, app
<1> QED
  BY <1>1, <1>2, <1>3, <1>4, <1>5, <1>6, <1>7, <1>8, <1>9, <1>10, <1>11, <1>12, <1>13,
     <1>14, <1>15
  DEF Next, Application, Reader, CardStep, Serves
(* On an undisturbed link the chain in the card holds bytes of this call   *)
(* only.                                                                   *)
LEMMA PureChainStep ==
    ASSUME Undisturbed
    PROVE  TypeOK /\ Carries /\ NumberingInv /\ SpeedInv /\ ProgressInv /\ InTouch
           /\ PureChain /\ [Next]_vars => PureChain'
<1> SUFFICES ASSUME TypeOK, Carries, NumberingInv, SpeedInv, ProgressInv, InTouch, PureChain,
                    [Next]_vars
             PROVE  PureChain'
  OBVIOUS
<1>0. op = "none" => card.chain = <<>>
  BY DEF Carries, PureChain, Commanding
<1>a. ASSUME card'.chain = <<>>, air'.kind \notin {"I", "R"} PROVE PureChain'
  BY <1>a DEF PureChain, Commanding
<1>b. Quiet.kind = "none" /\ Silence.kind = "none"
  BY DEF Quiet, Silence, Frame
<1>1. CASE rfid_layer2_init
  <2>1. card'.chain = <<>> /\ air'.kind = "none"
    BY <1>1 DEF rfid_layer2_init, FreshCard, Carries
  <2> QED BY <1>a, <2>1
<1>2. CASE tcl_init \/ tcl_fini
  <2>1. card'.chain = <<>> /\ air'.kind = "none"
    BY <1>0, <1>2 DEF tcl_init, tcl_fini, Carries
  <2> QED BY <1>a, <2>1
<1>3. CASE tcl_connect \/ tcl_deselect
  <2>1. card'.chain = <<>> /\ air'.kind \in {"RATS", "DESELECT", "none"}
    BY <1>0, <1>3, <1>b DEF tcl_connect, tcl_deselect, Transmit, Return, Frame
  <2> QED BY <1>a, <2>1
<1>4. ASSUME NEW len \in TxLens, tcl_transceive(len) PROVE PureChain'
  <2> DEFINE c == [call |-> ctx.call + 1, tx_len |-> len, next_tx |-> 0, rx |-> <<>>]
  <2>1. tcl_refill_xcvb(c) /\ UNCHANGED card /\ card.chain = <<>>
    BY <1>0, <1>4 DEF tcl_transceive
  <2>2. c \in Ctx
    BY AppAssumption, ByteTypes DEF Ctx
  <2>3. c.next_tx = 0
    OBVIOUS
  <2> HIDE DEF c
  <2>4. \/ air' = Quiet
        \/ air'.dir = "down" /\ air'.kind = "I" /\ air'.seg.off = 0
    BY <2>1, <2>2, <2>3, RefillSends
  <2> QED BY <1>a, <1>b, <2>1, <2>4 DEF PureChain, CoversTo, Commanding
<1>5. CASE RatsFails \/ RatsAnswered \/ PpsFails \/ PpsAnswered
  <2>1. card'.chain = card.chain /\ air'.kind \in {"PPS", "none"} /\ op \in {"rats", "pps"}
    BY <1>5, <1>b DEF RatsFails, RatsAnswered, PpsFails, PpsAnswered, Return, Transmit, Frame
  <2> QED BY <1>a, <2>1 DEF PureChain, Commanding, Carries
<1>6. CASE XchgRBlock
  <2>1. ~WrongToggle(air) /\ check_cid(air)
    BY <1>6 DEF XchgRBlock, NumberingInv, BlockNumbers, ToggleParity, Due, Numbered,
                WrongToggle, check_cid, InTouch
  <2>2. /\ tcl_refill_xcvb(ctx) /\ ctx.next_tx < ctx.tx_len /\ UNCHANGED card
        /\ CoversTo(card.chain, ctx.call, ctx.next_tx)
    BY <1>6, <2>1 DEF XchgRBlock, ProgressInv, CommandUnderWay, PureChain
  <2>3. ctx \in Ctx /\ ~(ctx.next_tx >= ctx.tx_len)
    BY <2>2, ByteTypes DEF TypeOK
  <2>4. /\ air'.dir = "down" /\ air'.kind = "I" /\ air'.seg.off = ctx.next_tx
        /\ ctx'.call = ctx.call
    BY <2>2, <2>3, RefillSends
  <2> QED BY <2>2, <2>4 DEF PureChain, Commanding
<1>7. CASE XchgFails \/ XchgSBlock
  <2>1. card'.chain = card.chain /\ air'.kind \in {"WTX", "none"} /\ ~Commanding
    BY <1>7, <1>b DEF XchgFails, XchgSBlock, Return, Transmit, Frame, InTouch, Commanding
  <2> QED BY <1>a, <2>1 DEF PureChain
<1>8. CASE XchgIBlock
  <2>1. /\ card'.chain = card.chain /\ ~Commanding
        /\ air' = Quiet \/ (air'.dir = "down" /\ air'.kind = "R")
    BY <1>8 DEF XchgIBlock, Return, Transmit, Frame, Commanding
  <2> QED BY <1>a, <1>b, <2>1 DEF PureChain, Commanding
<1>9. CASE DeselectFails \/ DeselectAnswered
  <2>1. card'.chain = card.chain /\ air'.kind = "none" /\ ~Commanding
    BY <1>9, <1>b DEF DeselectFails, DeselectAnswered, Return, Commanding, Carries
  <2> QED BY <1>a, <2>1 DEF PureChain
<1>10. CASE CardMute
  <2>1. card'.chain = card.chain /\ air'.kind = "none" /\ ~Commanding
    BY <1>10, <1>b, CardListens DEF CardMute, Commanding, Carries
  <2> QED BY <1>a, <2>1 DEF PureChain
<1>11. CASE CardRats \/ CardPps \/ CardDeselect
  <2>1. air'.kind \in {"ATS", "PPS", "DESELECT"} /\ ~Commanding
    BY <1>11 DEF CardRats, CardPps, CardDeselect, Commanding, Frame
  <2>2. card'.chain = card.chain
    BY <1>11 DEF CardRats, CardPps, CardDeselect, TypeOK, Card
  <2> QED BY <1>a, <2>1, <2>2 DEF PureChain
<1>12. CASE CardIBlock
  <2>1. /\ air.dir = "down" /\ air.kind = "I" /\ UNCHANGED ctx /\ air'.dir = "up"
        /\ air'.kind \in {"none", "I", "R", "WTX"}
    BY <1>12, ServesKeeps DEF CardIBlock, app, Serves
  <2>2. rate.rx = card.dsi
    BY <2>1, CardListens DEF Carries
  <2>3. CASE air.more
    <3>1. card'.chain = Append(card.chain, air.seg) /\ air'.kind = "R"
      BY <1>12, <2>2, <2>3, CardIBlockTakes
    <3>2. /\ air.seg \in Seg /\ card.chain \in Seq(Seg)
          /\ CoversTo(card.chain, air.seg.src, air.seg.off)
          /\ air.seg.src = ctx.call /\ air.seg.off + air.seg.len = ctx.next_tx
      BY <2>1, ByteTypes DEF PureChain, ProgressInv, CommandUnderWay
    <3>3. Covers(card'.chain, ctx.call, ctx.next_tx)
      BY <3>1, <3>2, CoversAppend
    <3> QED BY <2>1, <3>1, <3>3 DEF PureChain, Commanding, CoversTo
  <2>4. CASE ~air.more
    <3>1. card'.chain = <<>> /\ air'.kind \in {"I", "WTX"}
      BY <1>12, <2>2, <2>4, CardIBlockTakes
    <3> QED BY <2>1, <3>1 DEF PureChain, Commanding
  <2> QED BY <2>3, <2>4
<1>13. CASE CardRBlock \/ CardWtx
  <2>1. ~Commanding /\ UNCHANGED ctx
    BY <1>13 DEF CardRBlock, CardWtx, Commanding, app
  <2>2. /\ card'.chain = card.chain /\ air'.dir = "up" /\ air'.kind \in {"none", "I", "WTX"}
    <3>1. CASE CardRBlock
      <4> DEFINE c == [card EXCEPT !.num = 1 - @]
      <4>1. c \in Card /\ c.chain = card.chain
        BY FlipCard DEF TypeOK, Card
      <4>2. SendResponse(c)
        BY <3>1 DEF CardRBlock
      <4> HIDE DEF c
      <4> QED BY <4>1, <4>2, SendResponseSends, SendResponseKeeps
    <3>2. CASE CardWtx
      BY <3>2, SendResponseSends, SendResponseKeeps, AskForTimeAsks, AskForTimeKeeps
      DEF CardWtx, TypeOK
    <3> QED BY <1>13, <3>1, <3>2
  <2> QED BY <2>1, <2>2 DEF PureChain, Commanding
<1>14. CASE Loss
  BY <1>14 DEF Loss, LoseDown, LoseUp, Undisturbed, TypeOK
<1>15. CASE UNCHANGED vars
  BY <1>15 DEF vars, app, PureChain, Commanding
<1> QED
  BY <1>1, <1>2, <1>3, <1>4, <1>5, <1>6, <1>7, <1>8, <1>9, <1>10, <1>11, <1>12, <1>13,
     <1>14, <1>15
  DEF Next, Application, Reader, CardStep

(* The two halves of EndToEnd: what the card executed, and what the        *)
(* application is told.                                                    *)
ExecutedWhole ==
    \A i \in 1..Len(executed) :
        Covers(executed[i].cmd, executed[i].call, executed[i].asked)
ToldTruly == op = "none" /\ ret.of = "xchg" => ret.val = "ok" /\ Completed

(* On an undisturbed link the card executes whole commands. *)
LEMMA ExecutedWholeStep ==
    ASSUME TypeOK, Carries, ProgressInv, PureChain, ExecutedWhole, [Next]_vars
    PROVE  ExecutedWhole'
<1>1. CASE CardIBlock /\ ~air.more
  <2>1. PICK n \in RespLens :
             executed' = Append(executed, [call |-> ctx.call, asked |-> ctx.tx_len,
                                cmd |-> Append(card.chain, air.seg), resp |-> n])
    BY <1>1, CardIBlockTakes
  <2> DEFINE e == [call |-> ctx.call, cmd |-> Append(card.chain, air.seg),
                   asked |-> ctx.tx_len, resp |-> n]
  <2>2. e \in Execution
    <3>1. Append(card.chain, air.seg) \in Seq(Seg) /\ n \in Nat
      BY CardAssumption, ByteTypes
    <3> QED BY <3>1, ByteTypes DEF Execution
  <2>3. e.cmd = Append(card.chain, air.seg) /\ e.call = ctx.call /\ e.asked = ctx.tx_len
    OBVIOUS
  <2>4. executed' = Append(executed, e)
    BY <2>1
  <2> HIDE DEF e
  <2>5. /\ air.seg.src = ctx.call /\ air.seg.off + air.seg.len = ctx.tx_len
        /\ CoversTo(card.chain, air.seg.src, air.seg.off)
    <3>1. air.dir = "down" /\ air.kind = "I" /\ ~air.more
      BY <1>1 DEF CardIBlock
    <3>2. /\ air.seg.src = ctx.call /\ air.seg.off + air.seg.len = ctx.next_tx
          /\ ctx.next_tx <= ctx.tx_len /\ ~(ctx.next_tx < ctx.tx_len)
      BY <3>1 DEF ProgressInv, CommandUnderWay
    <3>3. ctx.next_tx = ctx.tx_len
      BY <3>2, ByteTypes
    <3> QED BY <3>1, <3>2, <3>3 DEF PureChain
  <2>6. Covers(e.cmd, e.call, e.asked)
    BY <2>3, <2>5, ByteTypes, CoversAppend
  <2>7. /\ executed \in Seq(Execution) /\ Len(executed') = Len(executed) + 1
        /\ executed'[Len(executed) + 1] = e
        /\ \A i \in 1..Len(executed) : executed'[i] = executed[i]
    BY <2>2, <2>4, AppendCalls, ByteTypes
  <2>8. Len(executed) \in Nat
    BY <2>7
  <2> QED BY <2>6, <2>7, <2>8 DEF ExecutedWhole
<1>2. CASE CardIBlock /\ air.more
  BY <1>2 DEF CardIBlock, ExecutedWhole
<1>3. CASE ~CardIBlock
  <2>1. UNCHANGED executed
    BY <1>3 DEF Next, Application, Reader, CardStep, Loss, rfid_layer2_init, tcl_init,
       tcl_connect, tcl_transceive, tcl_deselect, tcl_fini, RatsFails, RatsAnswered, PpsFails,
       PpsAnswered, XchgFails, XchgRBlock, XchgSBlock, XchgIBlock, DeselectFails,
       DeselectAnswered, CardMute, CardRats, CardPps, CardRBlock, CardWtx, CardDeselect,
       LoseDown, LoseUp, vars
  <2> QED BY <2>1 DEF ExecutedWhole
<1> QED BY <1>1, <1>2, <1>3

(* On an undisturbed link every call that returns has succeeded. *)
LEMMA ToldTrulyStep ==
    ASSUME Undisturbed
    PROVE  TypeOK /\ Carries /\ NumberingInv /\ ExchangeInv /\ ProgressInv /\ InTouch
           /\ ToldTruly /\ [Next]_vars => ToldTruly'
<1> SUFFICES ASSUME TypeOK, Carries, NumberingInv, ExchangeInv, ProgressInv, InTouch, ToldTruly,
                    [Next]_vars
             PROVE  ToldTruly'
  OBVIOUS
<1> USE DEF ToldTruly
<1>a. ASSUME air.dir = "up", air.kind \in {"I", "R"}, op = "xchg"
      PROVE  ~WrongToggle(air) /\ check_cid(air)
  BY <1>a DEF NumberingInv, BlockNumbers, ToggleParity, Due, Numbered, WrongToggle, check_cid,
              InTouch
<1>1. CASE rfid_layer2_init \/ tcl_init \/ tcl_fini
  <2>1. UNCHANGED <<op, ret, ctx, executed>>
    BY <1>1 DEF rfid_layer2_init, tcl_init, tcl_fini, app
  <2> QED BY <2>1 DEF Completed, LastExecuted
<1>2. CASE tcl_connect \/ tcl_deselect
  <2>1. op' \in {"rats", "deselect"} \/ Return("connect", "err")
    BY <1>2 DEF tcl_connect, tcl_deselect, Transmit
  <2>2. op' # "none" \/ ret'.of = "connect"
    BY <2>1 DEF Return
  <2> QED BY <2>2
<1>3. ASSUME NEW len \in TxLens, tcl_transceive(len) PROVE ToldTruly'
  <2> DEFINE c == [call |-> ctx.call + 1, tx_len |-> len, next_tx |-> 0, rx |-> <<>>]
  <2>1. tcl_refill_xcvb(c)
    BY <1>3 DEF tcl_transceive
  <2>2. c \in Ctx
    BY AppAssumption, ByteTypes DEF Ctx
  <2>3. c.next_tx = 0 /\ c.tx_len = len /\ len \in Nat /\ len # 0
    BY AppAssumption DEF Undisturbed
  <2> HIDE DEF c
  <2>4. op' = "xchg"
    <3>1. ~(c.next_tx >= c.tx_len)
      BY <2>3
    <3> QED BY <2>1, <2>2, <3>1, RefillSends
  <2> QED BY <2>4
<1>4. CASE RatsFails \/ RatsAnswered \/ PpsFails \/ PpsAnswered
  <2>1. op' = "pps" \/ \E v \in {"ok", "err"} : Return("connect", v)
    BY <1>4 DEF RatsFails, RatsAnswered, PpsFails, PpsAnswered, Transmit
  <2>2. op' # "none" \/ ret'.of = "connect"
    BY <2>1 DEF Return
  <2> QED BY <2>2
<1>5. CASE XchgFails
  BY <1>5 DEF XchgFails, Silence, Frame, InTouch
<1>6. CASE XchgRBlock
  <2>1. tcl_refill_xcvb(ctx) /\ ctx.next_tx < ctx.tx_len
    BY <1>6, <1>a DEF XchgRBlock, ProgressInv, CommandUnderWay
  <2>2. ctx \in Ctx /\ ~(ctx.next_tx >= ctx.tx_len)
    BY <2>1, ByteTypes DEF TypeOK
  <2>3. op' = "xchg"
    BY <2>1, <2>2, RefillSends
  <2> QED BY <2>3
<1>7. CASE XchgSBlock
  <2>1. op' = "xchg"
    BY <1>7 DEF XchgSBlock, Transmit, InTouch, check_cid
  <2> QED BY <2>1
<1>8. CASE XchgIBlock
  <2>1. ~(WrongToggle(air) \/ ~check_cid(air))
    BY <1>8, <1>a DEF XchgIBlock
  <2>2. CASE air.more
    BY <1>8, <2>1, <2>2 DEF XchgIBlock, Transmit
  <2>3. CASE ~air.more
    <3>1. Completed'
      BY <1>8, <2>1, <2>3, LastBlockCompletes
    <3>2. ret' = [of |-> "xchg", val |-> "ok"]
      BY <1>8, <2>1, <2>3 DEF XchgIBlock, Return
    <3> QED BY <3>1, <3>2
  <2> QED BY <2>2, <2>3
<1>9. CASE DeselectFails \/ DeselectAnswered
  <2>1. ret'.of = "deselect"
    BY <1>9 DEF DeselectFails, DeselectAnswered, Return
  <2> QED BY <2>1
<1>10. CASE CardStep \/ Loss
  <2>1. air.dir # "quiet" /\ UNCHANGED op
    BY <1>10 DEF CardStep, Loss, CardMute, CardRats, CardPps, CardIBlock, CardRBlock,
                 CardWtx, CardDeselect, LoseDown, LoseUp, app
  <2> QED BY <2>1 DEF Carries
<1>11. CASE UNCHANGED vars
  BY <1>11 DEF vars, app, Completed, LastExecuted
<1> QED
  BY <1>1, <1>2, <1>3, <1>4, <1>5, <1>6, <1>7, <1>8, <1>9, <1>10, <1>11
  DEF Next, Application, Reader

(* On an undisturbed link the exchange is transparent: every call of       *)
(* tcl_transceive succeeds, the card executes exactly the bytes that were  *)
(* passed, and the application gets the whole response.                    *)
THEOREM EndToEndHolds ==
    ASSUME Undisturbed
    PROVE  Spec => []EndToEnd
<1>1. Init => InTouch /\ PureChain /\ ExecutedWhole /\ ToldTruly
  <2> SUFFICES ASSUME Init PROVE InTouch /\ PureChain /\ ExecutedWhole /\ ToldTruly
    OBVIOUS
  <2>1. InTouch
    BY DEF Init, InTouch, Quiet, Frame
  <2>2. card.chain = <<>> /\ air.kind = "none" /\ executed = <<>> /\ ret.of = "none"
    BY DEF Init, FreshCard, Quiet, Frame
  <2> QED BY <2>1, <2>2 DEF PureChain, Commanding, ExecutedWhole, ToldTruly
<1>2. ExecutedWhole /\ ToldTruly => EndToEnd
  BY DEF ExecutedWhole, ToldTruly, EndToEnd
<1>3. TypeOK /\ Carries /\ ProgressInv /\ PureChain /\ ExecutedWhole /\ [Next]_vars
      => ExecutedWhole'
  BY ExecutedWholeStep
<1>4. Spec => []SpeedInv
  BY SpeedInvHolds
<1> QED
  BY <1>1, <1>2, <1>3, <1>4, InTouchStep, PureChainStep, ToldTrulyStep, TypeCorrect,
     CarriesHolds, NumberingCorrect, ExchangeInvHolds, ProgressHolds, PTL DEF Spec
=============================================================================
