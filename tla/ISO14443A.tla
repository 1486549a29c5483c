----------------------------- MODULE ISO14443A -----------------------------
(***************************************************************************)
(* Layer 2 for ISO 14443-3 type A: src/src/rfid_layer2_iso14443a.c, with   *)
(* the two RC632 functions below it that transmit short frames and         *)
(* anticollision frames (rc632_iso14443a_transceive_sf and _acf).          *)
(*                                                                         *)
(* A handle selects one of the tags of the field: REQA or WUPA, at each    *)
(* cascade level a loop of anticollision frames that narrows the tags down *)
(* to one, and SELECT.  Tags are not code of the library; they follow the  *)
(* state diagram of ISO 14443-3 that the code relies on.                   *)
(*                                                                         *)
(* A UID has one part for each cascade level, a sequence of UidBits bits   *)
(* (40 in the code).  The parts of a tag that follows the standard begin   *)
(* with the cascade tag, here a single bit 1, all but the last, and there  *)
(* are at most three.                                                      *)
(***************************************************************************)
EXTENDS Integers, Sequences, FiniteSets

CONSTANTS
    Tags,        \* the tags that may be in the field
    UID,         \* UID[t]: the parts of the UID of tag t
    Bitframe,    \* tags whose ATQA announces bit frame anticollision
    TclTags,     \* tags whose SAK announces T=CL
    UidBits,     \* bits of a part
    HdrBits,     \* bits of SEL and NVB in front of a part (16)
    MaxOpens,    \* bound: number of rfid_layer2_open calls
    MaxLoss      \* bound: number of failed exchanges

Bit == {0, 1}
Part == [1..UidBits -> Bit]

ASSUME BitsAssumption == UidBits \in Nat /\ HdrBits \in Nat /\ UidBits > 1 /\ HdrBits > 0
ASSUME UidAssumption ==
    /\ \A t \in Tags : UID[t] \in Seq(Part) /\ Len(UID[t]) \in 1..4
    /\ \A t, u \in Tags : UID[t] = UID[u] => t = u
ASSUME TagsAssumption == Bitframe \subseteq Tags /\ TclTags \subseteq Tags
ASSUME BoundAssumption == MaxOpens \in Nat /\ MaxLoss \in Nat

VARIABLES
    \* struct rfid_layer2_handle and struct iso14443a_handle
    hstate,      \* handle state; "FREE" when there is no handle
    level,       \* cascade level, 0 outside of anticollision
    uid,         \* uid: the parts without their cascade tags
    uid_len,     \* number of cascade levels of the UID (4, 7 or 10 bytes)
    tcl,         \* tcl_capable
    wup,         \* RFID_OPT_LAYER2_WUP of flags
    \* iso14443a_anticol in progress
    pc,          \* the exchange to come
    acf,         \* struct iso14443a_anticol_cmd: sel_code as a level, nvb, uid_bits
    ret,         \* return value of the last open or close
    \* the field
    tag,         \* state of each tag
    \* ghosts
    history,     \* the tags selected so far
    opens, losses

handle == <<hstate, level, uid, uid_len, tcl, wup>>
vars   == <<handle, pc, acf, ret, tag, history, opens, losses>>

NoBits == [i \in 1..UidBits |-> 0]
NoAcf  == [sel |-> 1, nvb |-> HdrBits, bits |-> NoBits]

Init ==
    /\ hstate = "FREE" /\ level = 0 /\ uid = <<>> /\ uid_len = 0
    /\ tcl = FALSE /\ wup = FALSE
    /\ pc = "none" /\ acf = NoAcf /\ ret = "none"
    /\ tag = [t \in Tags |-> [st |-> "IDLE", lvl |-> 1, halted |-> FALSE]]
    /\ history = <<>> /\ opens = 0 /\ losses = 0

---------------------------------------------------------------------------
(* The tags.                                                               *)

(* A tag that is not expecting what it hears falls back to where it came   *)
(* from.                                                                   *)
Rest(x) == [st |-> IF x.halted THEN "HALT" ELSE "IDLE", lvl |-> 1, halted |-> x.halted]

(* Faulty variant: the request does not depend on the flag. *)
AlwaysWupa == "WUPA"

(* The request that iso14443a_anticol sends first. *)
SfCmd == IF wup THEN "WUPA" ELSE "REQA"

(* REQA wakes idle tags, WUPA halted ones as well. *)
Wakes(t) == tag[t].st = "IDLE" \/ (SfCmd = "WUPA" /\ tag[t].st = "HALT")
Woken == [t \in Tags |->
            IF Wakes(t) THEN [tag[t] EXCEPT !.st = "READY", !.lvl = 1] ELSE Rest(tag[t])]

(* Tags that answer to an anticollision frame or to SELECT with these      *)
(* leading bits.                                                           *)
Matching(sel, bits, n) ==
    {t \in Tags : /\ tag[t].st = "READY" /\ tag[t].lvl = sel
                  /\ \A i \in 1..n : UID[t][sel][i] = bits[i]}

(* SELECT with a full part: the tag moves a level up, or is selected; the  *)
(* others leave the anticollision.                                         *)
Selected(S) ==
    [t \in Tags |->
        IF t \notin S THEN Rest(tag[t])
        ELSE IF tag[t].lvl = Len(UID[t]) THEN [tag[t] EXCEPT !.st = "ACTIVE"]
        ELSE [tag[t] EXCEPT !.lvl = @ + 1]]

Halted == [t \in Tags |->
            IF tag[t].st = "ACTIVE" THEN [st |-> "HALT", lvl |-> 1, halted |-> TRUE]
            ELSE Rest(tag[t])]

---------------------------------------------------------------------------
(* The handle.                                                             *)

Return(r) == pc' = "none" /\ ret' = r

iso14443a_init ==
    /\ hstate = "FREE"
    /\ hstate' = "NONE" /\ level' = 0 /\ uid' = <<>> /\ uid_len' = 0
    /\ tcl' = FALSE /\ wup' = FALSE
    /\ ret' = "none"
    /\ UNCHANGED <<pc, acf, tag, history, opens, losses>>

iso14443a_fini ==
    /\ hstate # "FREE" /\ pc = "none"
    /\ hstate' = "FREE"
    /\ UNCHANGED <<level, uid, uid_len, tcl, wup, pc, acf, ret, tag, history, opens, losses>>

(* iso14443a_setopt(RFID_OPT_14443A_WUPA) looks at the pointer, not at     *)
(* what it points to: every value sets the flag, only NULL clears it.      *)
iso14443a_setopt(optval) ==
    /\ hstate # "FREE" /\ pc = "none"
    /\ wup' = (optval # "NULL")
    /\ UNCHANGED <<hstate, level, uid, uid_len, tcl, pc, acf, ret, tag, history, opens, losses>>

(* iso14443a_anticol begins. *)
Open ==
    /\ hstate # "FREE" /\ pc = "none" /\ opens < MaxOpens
    /\ opens' = opens + 1
    /\ uid' = <<>> /\ acf' = NoAcf
    /\ pc' = "sf"
    /\ UNCHANGED <<hstate, level, uid_len, tcl, wup, ret, tag, history, losses>>

(* An exchange fails: the frame is lost on the way to the tags, or the     *)
(* answer on the way back, then the tags have heard it.                    *)
Fails(heard) ==
    /\ losses < MaxLoss
    /\ losses' = losses + 1
    /\ tag' \in {tag, heard}

(* REQA or WUPA.  Answers that differ collide in ATQA; rc632_transceive    *)
(* either reports that as an error, or lets it pass.                       *)
transceive_sf ==
    /\ pc = "sf"
    /\ LET R == {t \in Tags : Wakes(t)}
       IN \/ /\ Fails(Woken) \/ (tag' = Woken /\ UNCHANGED losses
                                 /\ \/ R = {}
                                    \/ R \cap Bitframe # {} /\ R \ Bitframe # {})
             /\ hstate' = "REQA_SENT"
             /\ Return("err")
             /\ UNCHANGED <<level, acf>>
          \/ /\ R # {} /\ tag' = Woken /\ UNCHANGED losses
             /\ \E t \in R :
                   IF t \notin Bitframe
                   THEN /\ hstate' = "NO_BITFRAME_ANTICOL"
                        /\ Return("err")
                        /\ UNCHANGED <<level, acf>>
                   ELSE /\ hstate' = "ANTICOL_RUNNING" /\ level' = 1
                        /\ acf' = [acf EXCEPT !.sel = 1, !.nvb = HdrBits]
                        /\ pc' = "acf" /\ UNCHANGED ret
    /\ UNCHANGED <<uid, uid_len, tcl, wup, history, opens>>

(* rnd_toggle_bit_in_field: a random bit is xor'ed into bit number         *)
(* `bit', if the field has it.                                             *)
rnd_toggle_bit_in_field(bits, bit) ==
    {[i \in 1..UidBits |-> IF i = bit /\ rnd = 1 THEN 1 - bits[i] ELSE bits[i]] : rnd \in Bit}

(* First position at which the parts of S differ. *)
Differ(S, l, i) == \E t, u \in S : UID[t][l][i] # UID[u][l][i]
CollisionAt(S, l) ==
    CHOOSE i \in 1..UidBits : Differ(S, l, i) /\ \A j \in 1..i - 1 : ~Differ(S, l, j)

(* What the RC632 receives from S: the common bits, then anything. *)
Received(S, l, n) ==
    {b \in Part : \A i \in 1..n : \A t \in S : UID[t][l][i] = b[i]}

(* Faulty variants: NVB does not count the bit that collided; it counts    *)
(* one more.                                                               *)
code_nvb_bits_short(boc) == boc - 1
code_nvb_bits_over(boc)  == boc + 1

(* iso14443a_code_nvb_bits(&acf.nvb, bit_of_col): NVB keeps its value when  *)
(* the count has less than two bytes or more than seven (from 64 bits on). *)
code_nvb_bits(boc) ==
    IF HdrBits <= boc /\ boc < 2 * HdrBits + UidBits THEN boc ELSE acf.nvb

(* An anticollision frame, and the body of the loop around it.  After a    *)
(* collision at bit p of the part, bit_of_col counts from the start of the *)
(* frame: HdrBits + p.                                                     *)
transceive_acf ==
    /\ pc = "acf"
    /\ LET l == acf.sel
           S == Matching(l, acf.bits, acf.nvb - HdrBits)
           p == CollisionAt(S, l)
           boc == HdrBits + p
           collides == Cardinality({UID[t][l] : t \in S}) > 1
       IN \/ /\ (Fails(tag) \/ (tag' = tag /\ UNCHANGED losses /\ (S = {} \/ collides)))
             /\ Return("err")
             /\ UNCHANGED acf
          \/ /\ S # {} /\ ~collides
             /\ acf' = [acf EXCEPT !.bits = UID[CHOOSE t \in S : TRUE][l],
                                   !.nvb = HdrBits + UidBits]
             /\ pc' = "select"
             /\ UNCHANGED <<ret, tag, losses>>
          \/ /\ collides
             /\ \E rx \in Received(S, l, p - 1) :
                   \E bits \in rnd_toggle_bit_in_field(rx, boc) :
                      acf' = [acf EXCEPT !.bits = bits, !.nvb = code_nvb_bits(boc)]
             /\ UNCHANGED <<pc, ret, tag, losses>>
    /\ UNCHANGED <<handle, history, opens>>

(* Faulty variant: the part is stored with its cascade tag. *)
StoredWhole(part) == part

(* What is stored of a part that is not the last: memcpy from uid_bits[1]. *)
Stored(part) == Tail(part)

(* SELECT, and what follows from SAK: the next cascade level, or the end   *)
(* of iso14443a_anticol.                                                   *)
Select ==
    /\ pc = "select"
    /\ LET l == acf.sel
           S == Matching(l, acf.bits, UidBits)
           part == acf.bits
       IN \/ /\ Fails(Selected(S)) \/ (S = {} /\ tag' = Selected(S) /\ UNCHANGED losses)
             /\ Return("err")
             /\ UNCHANGED <<hstate, level, uid, uid_len, tcl, acf, history>>
          \/ \E t \in S :
             /\ tag' = Selected(S) /\ UNCHANGED losses
             /\ \/ /\ Len(UID[t]) > l           \* cascade bit
                   /\ \/ /\ l = 3
                         /\ hstate' = "ERROR" /\ Return("err")
                         /\ UNCHANGED <<level, uid, acf>>
                      \/ /\ l = 1 /\ part[1] # 1
                         /\ Return("err")
                         /\ UNCHANGED <<hstate, level, uid, acf>>
                      \/ /\ l = 2 \/ (l = 1 /\ part[1] = 1)
                         /\ uid' = uid \o Stored(part)
                         /\ level' = l + 1
                         /\ acf' = [acf EXCEPT !.sel = l + 1, !.nvb = HdrBits]
                         /\ pc' = "acf" /\ UNCHANGED <<hstate, ret>>
                   /\ UNCHANGED <<uid_len, tcl, history>>
                \/ /\ Len(UID[t]) = l
                   /\ uid' = uid \o part
                   /\ uid_len' = level /\ level' = 0
                   /\ hstate' = "SELECTED"
                   /\ tcl' = (t \in TclTags)
                   /\ Return("ok")
                   /\ history' = Append(history, t)
                   /\ UNCHANGED acf
    /\ UNCHANGED <<wup, opens>>

(* HLTA is never answered: any failure, a lost frame too, is success. *)
iso14443a_hlta ==
    /\ hstate # "FREE" /\ pc = "none"
    /\ \/ tag' = Halted /\ UNCHANGED losses
       \/ Fails(Halted)
    /\ ret' = "closed"
    /\ UNCHANGED <<handle, pc, acf, history, opens>>

---------------------------------------------------------------------------
Application ==
    \/ iso14443a_init \/ iso14443a_fini
    \/ \E v \in {"NULL", "0", "1"} : iso14443a_setopt(v)
    \/ Open \/ iso14443a_hlta

Anticol == transceive_sf \/ transceive_acf \/ Select

Next == Application \/ Anticol

Spec == Init /\ [][Next]_vars

(* iso14443a_anticol runs on: each exchange below it returns. *)
FairSpec == Spec /\ WF_vars(Anticol)

---------------------------------------------------------------------------
(* Properties.                                                             *)

(* The variables keep their types. *)
TypeOK ==
    /\ hstate \in {"FREE", "ERROR", "NONE", "REQA_SENT", "NO_BITFRAME_ANTICOL",
                   "ANTICOL_RUNNING", "SELECTED"}
    /\ level \in 0..3 /\ uid_len \in 0..3
    /\ uid \in Seq(Bit) /\ Len(uid) <= 3 * UidBits
    /\ tcl \in BOOLEAN /\ wup \in BOOLEAN
    /\ pc \in {"none", "sf", "acf", "select"}
    /\ acf \in [sel : 1..3, nvb : HdrBits..(HdrBits + UidBits), bits : Part]
    /\ ret \in {"none", "ok", "err", "closed"}
    /\ tag \in [Tags -> [st : {"IDLE", "READY", "ACTIVE", "HALT"}, lvl : 1..4,
                         halted : BOOLEAN]]

(* The UID of a tag as the handle stores it. *)
FullUID(t) ==
    LET u == UID[t]
    IN IF Len(u) = 1 THEN u[1]
       ELSE IF Len(u) = 2 THEN Tail(u[1]) \o u[2]
       ELSE Tail(u[1]) \o Tail(u[2]) \o u[3]

(* A successful open leaves exactly one tag selected, and what the handle  *)
(* stores, UID, length and T=CL capability, is that tag's: not a mixture   *)
(* of tags that collided, of cascade levels, or of an attempt that failed. *)
SelectsOne ==
    pc = "none" /\ ret = "ok" =>
        \E t \in Tags : /\ {u \in Tags : tag[u].st = "ACTIVE"} = {t}
                        /\ uid = FullUID(t) /\ uid_len = Len(UID[t])
                        /\ tcl = (t \in TclTags)

(* The anticollision loop makes progress: at one cascade level every frame *)
(* carries more bits of the UID than the one before.                       *)
NvbGrows ==
    [][pc = "acf" /\ pc' = "acf" /\ acf'.sel = acf.sel => acf'.nvb > acf.nvb]_vars

(* Every open returns, however many tags collide. *)
OpenReturns == (pc # "none") ~> (pc = "none")

(* A tag that heard HLTA is selected again only by an open with WUPA,      *)
(* whatever failed in between: half-finished opens included.               *)
NoRevival ==
    [][Len(history') > Len(history) /\ ~wup =>
          LET t == history'[Len(history')] IN ~tag[t].halted]_vars

=============================================================================
