------------------------------ MODULE ISO15693 ------------------------------
(***************************************************************************)
(* Layer 2 for ISO 15693: src/src/rfid_layer2_iso15693.c, with the RC632   *)
(* function below its inventory (rc632_iso15693_transceive_ac).            *)
(*                                                                         *)
(* rfid_layer2_open runs an inventory: requests with a growing mask until  *)
(* one tag answers alone.  Blocks are then read and written, addressed by  *)
(* UID or, once SELECT went through, by the SELECTED flag.  Closing sends  *)
(* STAY QUIET.  The calls come in the order in which the tools make them:  *)
(* a tag is closed before the next one is opened.                          *)
(*                                                                         *)
(* Bits are numbered in the order of their transmission.  The tags are not *)
(* code of the library.  The options that travel in the flags without      *)
(* changing who answers here (modulation, subcarriers, AFI) are left out.  *)
(***************************************************************************)
EXTENDS Integers, Sequences, FiniteSets

CONSTANTS
    Tags,        \* tags, which enter and leave the field
    UID, DSFID,  \* their UIDs and data storage format identifiers
    SelectTags,  \* tags that implement SELECT, which is optional
    ByteBits,    \* bits of a byte (8)
    UidBits,     \* bits of a UID (64)
    Slots,       \* number of slots (16)
    SlotBits,    \* bits behind the mask that a tag takes its slot from (4)
    MaxOpens,    \* bound: number of rfid_layer2_open calls
    MaxLoss      \* bound: number of failing exchanges

Bit == {0, 1}
Uid == [1..UidBits -> Bit]
Byte == [1..ByteBits -> Bit]

ASSUME BitsAssumption ==
    /\ ByteBits \in Nat \ {0} /\ SlotBits \in Nat /\ Slots \in Nat \ {0}
    /\ UidBits \in Nat /\ UidBits >= ByteBits + SlotBits
ASSUME TagsAssumption ==
    /\ \A t \in Tags : UID[t] \in Uid /\ DSFID[t] \in Byte
    /\ \A t, u \in Tags : UID[t] = UID[u] => t = u
    /\ SelectTags \subseteq Tags
ASSUME BoundAssumption == MaxOpens \in Nat /\ MaxLoss \in Nat

VARIABLES
    \* struct rfid_layer2_handle and struct iso15693_handle
    hstate,      \* what the handle believes of its tag; "FREE": no handle
    uid,         \* uid
    opt,         \* vicc_fast and single_slot
    \* iso15693_anticol in progress
    pc,          \* "slot": an inventory request, "eval": after the last slot
    mask,        \* mask of the request: its length, the bits that are sent
    slot,        \* the loop's i
    list,        \* uuid_list_valid: 0, or the position of the collision
    resp,        \* resp.uuid as the last slot left it: its first byte, no more is used
    \* the application
    opened,      \* the last open succeeded and was not closed
    ret,         \* return value of the last operation
    \* the field
    tag,         \* state of each tag
    acted,       \* tags that executed the last read or write request
    \* ghosts
    blind,       \* the handle became SELECTED although SELECT failed
    faulty,      \* a register access failed during the last open
    opens, losses

anticol == <<pc, mask, slot, list, resp>>
ghosts  == <<blind, faulty, opens>>
vars    == <<hstate, uid, opt, anticol, opened, ret, tag, acted, ghosts, losses>>

Zeros == [i \in 1..UidBits |-> 0]
ZeroByte == [i \in 1..ByteBits |-> 0]

---------------------------------------------------------------------------
(* Inventory requests, and who answers them.                               *)

(* Faulty variant: the mask ends before the bit that collided. *)
build_acf_short(len, uuid) ==
    [len |-> IF len < 2 THEN 0 ELSE len - 2, sent |-> ByteBits,
     bits |-> [i \in 1..ByteBits |-> uuid[i]]]

(* iso15693_build_acf.  `mask_len/8 + (mask_len%8)?1:0' is 1 for every     *)
(* length but 0: never more than one byte of the mask is sent.  Of it,     *)
(* mask_len % 8 bits are kept, none of a full byte.                        *)
build_acf(len, uuid) ==
    [len  |-> len,
     sent |-> IF len = 0 THEN 0 ELSE ByteBits,
     bits |-> [i \in 1..ByteBits |-> IF i <= len % ByteBits THEN uuid[i] ELSE 0]]

(* A tag takes no notice of a request that is shorter than its mask.  With *)
(* more than one slot, those of slot 0 answer; no request ever opens the   *)
(* next slot.                                                              *)
Answering ==
    {t \in Tags : /\ tag[t] \in {"READY", "SELECTED"} /\ mask.len <= mask.sent
                  /\ \A i \in 1..mask.len : UID[t][i] = mask.bits[i]
                  /\ opt.single \/ \A i \in 1..SlotBits : UID[t][mask.len + i] = 0}

(* A response: flags, DSFID, UID.  The RC632 reports the first bit in      *)
(* which responses differ, counted from 1.                                 *)
HdrBits == 2 * ByteBits
ResponseBit(t, i) == CASE i <= ByteBits -> 0
                       [] i > ByteBits /\ i <= HdrBits -> DSFID[t][i - ByteBits]
                       [] i > HdrBits -> UID[t][i - HdrBits]
Differ(S, i) == \E t, u \in S : ResponseBit(t, i) # ResponseBit(u, i)
CollisionAt(S) ==
    CHOOSE i \in 1..HdrBits + UidBits : Differ(S, i) /\ \A j \in 1..i - 1 : ~Differ(S, j)

(* What is received of the UIDs of S, in their first byte: the common      *)
(* bits, then anything.                                                    *)
Received(S) ==
    LET common == CollisionAt(S) - 1 - HdrBits
    IN {b \in Byte : \A i \in 1..ByteBits : i <= common => \A t \in S : UID[t][i] = b[i]}

(* The chip is set up for the high data rate only. *)
Decodable == opt.fast

---------------------------------------------------------------------------
(* The handle.                                                             *)

Init ==
    /\ hstate = "FREE" /\ uid = Zeros /\ opt = [fast |-> TRUE, single |-> TRUE]
    /\ pc = "none" /\ mask = build_acf(0, ZeroByte) /\ slot = 1
    /\ list = [i \in 1..Slots |-> 0] /\ resp = ZeroByte
    /\ opened = FALSE /\ ret = "none"
    /\ tag \in [Tags -> {"ABSENT", "READY"}] /\ acted = {}
    /\ blind = FALSE /\ faulty = FALSE /\ opens = 0 /\ losses = 0

Ready == hstate # "FREE" /\ pc = "none"
Loses == losses < MaxLoss /\ losses' = losses + 1

(* iso15693_init does not clear the memory of the handle: uid keeps what   *)
(* was there.  The radio field stays on, and tags keep their state.        *)
iso15693_init ==
    /\ hstate = "FREE"
    /\ hstate' = "NONE" /\ opt' = [fast |-> TRUE, single |-> TRUE]
    /\ opened' = FALSE /\ ret' = "none" /\ acted' = {} /\ blind' = FALSE
    /\ UNCHANGED <<uid, anticol, tag, faulty, opens, losses>>

iso15693_fini ==
    /\ Ready /\ ~opened
    /\ hstate' = "FREE"
    /\ UNCHANGED <<uid, opt, anticol, opened, ret, tag, acted, ghosts, losses>>

(* rfid_reader_setopt(RFID_OPT_RDR_RF_KILL) off and on again, as the tools *)
(* do between scans: tags lose their state.                                *)
rf_kill ==
    /\ hstate = "FREE" \/ Ready
    /\ tag' = [t \in Tags |-> IF tag[t] = "ABSENT" THEN "ABSENT" ELSE "READY"]
    /\ acted' = {}
    /\ UNCHANGED <<hstate, uid, opt, anticol, opened, ret, ghosts, losses>>

(* iso15693_setopt.  VICC_SPEED falls through to VCD_SLOTS: "slow" (1)     *)
(* also chooses a single slot, and "fast" (2) is stored, then refused.     *)
iso15693_setopt(name, val) ==
    /\ Ready
    /\ opt' = [fast   |-> IF name = "SPEED" THEN val = 2 ELSE opt.fast,
               single |-> IF val \in {1, 16} THEN val = 1 ELSE opt.single]
    /\ ret' = IF val \in {1, 16} THEN "ok" ELSE "EINVAL"
    /\ UNCHANGED <<hstate, uid, anticol, opened, tag, acted, ghosts, losses>>

Settings == {<<"SPEED", 1>>, <<"SPEED", 2>>, <<"SLOTS", 1>>, <<"SLOTS", 16>>}

(* iso15693_anticol begins, with a request without a mask. *)
Open ==
    /\ Ready /\ ~opened /\ opens < MaxOpens
    /\ opens' = opens + 1
    /\ pc' = "slot" /\ UNCHANGED <<mask, slot, list, resp>>
    /\ acted' = {} /\ faulty' = FALSE
    /\ UNCHANGED <<hstate, uid, opt, opened, ret, tag, blind, losses>>

NumSlots == IF opt.single THEN 1 ELSE Slots

(* The end of iso15693_anticol, and of its local variables. *)
Return(r) ==
    /\ pc' = "none" /\ ret' = r
    /\ mask' = build_acf(0, ZeroByte) /\ slot' = 1
    /\ list' = [i \in 1..Slots |-> 0] /\ resp' = ZeroByte

(* The slot yields a UID: it is stored, and the inventory ends. *)
Found(u) == uid' = u /\ opened' = TRUE /\ Return("ok")

(* Faulty variant: the loop runs one slot too far. *)
NextSlotOver(boc, rx) ==
    /\ list' = [list EXCEPT ![slot] = boc] /\ resp' = rx
    /\ slot' = slot + 1
    /\ pc' = IF slot = NumSlots + 1 THEN "eval" ELSE "slot"
    /\ UNCHANGED <<uid, opened, ret, mask>>

(* The slot yields nothing (0), or a collision at boc. *)
NextSlot(boc, rx) ==
    /\ list' = [list EXCEPT ![slot] = boc] /\ resp' = rx
    /\ slot' = slot + 1
    /\ pc' = IF slot = NumSlots THEN "eval" ELSE "slot"
    /\ UNCHANGED <<uid, opened, ret, mask>>

(* Faulty variant: a collision is not looked for. *)
CollidesTaken(rx) == Found([i \in 1..UidBits |-> IF i <= ByteBits THEN rx[i] ELSE 1])

(* An answer with a collision in it, whose position is known. *)
Collides(rx) == NextSlot(CollisionAt(Answering), rx)

(* One request.  Most collisions end in an error below; a failed register  *)
(* access, other than one reported as EIO or ETIMEDOUT, does not: what     *)
(* counts then is ERROR_FLAG, and the response is still all zeros.         *)
transceive_ac ==
    /\ pc = "slot"
    /\ LET S == Answering
           collision == Cardinality(S) > 1
       IN \/ /\ S = {} \/ collision \/ ~Decodable
             /\ NextSlot(0, ZeroByte) /\ UNCHANGED <<losses, faulty>>
          \/ Loses /\ NextSlot(0, ZeroByte) /\ UNCHANGED faulty
          \/ /\ Loses /\ faulty' = TRUE
             /\ IF collision THEN Collides(ZeroByte) ELSE Found(Zeros)
          \/ /\ collision /\ Decodable
             /\ \E rx \in Received(S) : Collides(rx)
             /\ UNCHANGED <<losses, faulty>>
          \/ /\ Cardinality(S) = 1 /\ Decodable
             /\ \E t \in S : Found(UID[t])
             /\ UNCHANGED <<losses, faulty>>
    /\ UNCHANGED <<hstate, opt, tag, acted, blind, opens>>

(* After the last slot: the first collision becomes the next mask, taken   *)
(* from resp, which the last slot may have overwritten.  UIDs differ, so a *)
(* collision behind the UID, for which the code has a branch, is not met.  *)
Evaluate ==
    /\ pc = "eval"
    /\ LET C == {i \in 1..NumSlots : list[i] > 0}
           boc == list[CHOOSE i \in C : \A j \in C : i <= j]
           bit == IF boc > HdrBits THEN boc - HdrBits ELSE boc
       IN IF C = {}
          THEN Return("err")
          ELSE /\ mask' = build_acf(bit + 1, resp)
               /\ slot' = 1 /\ pc' = "slot" /\ UNCHANGED <<ret, list, resp>>
    /\ UNCHANGED <<hstate, uid, opt, opened, tag, acted, ghosts, losses>>

(* The tag with our UID, and the one that a request with it reaches. *)
Own == {t \in Tags : UID[t] = uid}
Addressed == {t \in Own : tag[t] # "ABSENT"}

(* A request makes the tags `heard', or, when it is lost, leaves them.     *)
(* answered: the response came back.                                       *)
Reaches(heard, answered) ==
    \/ tag' = heard /\ answered = (Addressed # {} /\ Decodable) /\ UNCHANGED losses
    \/ ~answered /\ Loses /\ tag' \in {tag, heard}

(* iso15693_select looks at the response, which is cleared beforehand, and *)
(* not at the return value: only an error response keeps the handle from   *)
(* becoming SELECTED.                                                      *)
iso15693_select ==
    /\ Ready /\ opened
    /\ LET now == [t \in Tags |->
                     IF t \in Addressed \cap SelectTags THEN "SELECTED"
                     ELSE IF tag[t] = "SELECTED" THEN "READY" ELSE tag[t]]
       IN \E answered \in BOOLEAN :
             /\ Reaches(now, answered)
             /\ IF answered /\ Addressed \cap SelectTags = {}
                THEN ret' = "err" /\ UNCHANGED <<hstate, blind>>
                ELSE ret' = "ok" /\ hstate' = "SELECTED" /\ blind' = ~answered
    /\ acted' = {}
    /\ UNCHANGED <<uid, opt, anticol, opened, faulty, opens>>

(* iso15693_read_block and iso15693_write_block, and who executes the      *)
(* request; the tag may answer with an error.                              *)
Target == IF hstate = "SELECTED" THEN {t \in Tags : tag[t] = "SELECTED"} ELSE Addressed

read_write_block ==
    /\ Ready /\ opened
    /\ \/ /\ acted' = Target /\ UNCHANGED losses
          /\ ret' \in IF Cardinality(Target) = 1 /\ Decodable THEN {"ok", "err"} ELSE {"err"}
       \/ Loses /\ acted' \in {{}, Target} /\ ret' = "err"
    /\ UNCHANGED <<hstate, uid, opt, anticol, opened, tag, ghosts>>

(* Faulty variant: the handle keeps its state. *)
StayQuietKeeps ==
    /\ Ready /\ opened
    /\ \E answered \in BOOLEAN :
          Reaches([t \in Tags |-> IF t \in Addressed THEN "QUIET" ELSE tag[t]], answered)
    /\ ret' = "ok" /\ opened' = FALSE /\ acted' = {}
    /\ UNCHANGED <<hstate, uid, opt, anticol, ghosts>>

(* iso15693_stay_quiet is not answered; nothing is made of the result. *)
iso15693_stay_quiet ==
    /\ Ready /\ opened
    /\ \E answered \in BOOLEAN :
          Reaches([t \in Tags |-> IF t \in Addressed THEN "QUIET" ELSE tag[t]], answered)
    /\ hstate' = "QUIET" /\ blind' = FALSE
    /\ ret' = "ok" /\ opened' = FALSE /\ acted' = {}
    /\ UNCHANGED <<uid, opt, anticol, faulty, opens>>

(* A tag is put on the reader, or taken away, at any time. *)
TagMoves(t) ==
    /\ tag' = [tag EXCEPT ![t] = IF @ = "ABSENT" THEN "READY" ELSE "ABSENT"]
    /\ UNCHANGED <<hstate, uid, opt, anticol, opened, ret, acted, ghosts, losses>>

---------------------------------------------------------------------------
Application ==
    \/ iso15693_init \/ iso15693_fini \/ rf_kill
    \/ \E s \in Settings : iso15693_setopt(s[1], s[2])
    \/ Open \/ iso15693_select \/ read_write_block \/ iso15693_stay_quiet

Anticol == transceive_ac \/ Evaluate

Next == Application \/ Anticol \/ \E t \in Tags : TagMoves(t)

Spec == Init /\ [][Next]_vars

(* iso15693_anticol runs on: each exchange below it returns. *)
FairSpec == Spec /\ WF_vars(Anticol)

---------------------------------------------------------------------------
(* Properties.                                                             *)

(* The variables keep their types; masks are those of a UID. *)
TypeOK ==
    /\ hstate \in {"FREE", "NONE", "SELECTED", "QUIET"} /\ uid \in Uid
    /\ opt \in [fast : BOOLEAN, single : BOOLEAN]
    /\ pc \in {"none", "slot", "eval"}
    /\ mask \in [len : 0..HdrBits + UidBits, sent : {0, ByteBits}, bits : Byte]
    /\ slot \in 1..Slots + 1 /\ list \in [1..Slots -> 0..HdrBits + UidBits]
    /\ resp \in Byte
    /\ opened \in BOOLEAN /\ ret \in {"none", "ok", "err", "EINVAL"}
    /\ tag \in [Tags -> {"ABSENT", "READY", "SELECTED", "QUIET"}] /\ acted \subseteq Tags
    /\ blind \in BOOLEAN /\ faulty \in BOOLEAN /\ opens \in Nat /\ losses \in Nat

(* An inventory that succeeds, all register accesses working, has found    *)
(* the UID of a tag that is not quiet: never a mixture of the UIDs that    *)
(* collided in a slot, nor the remains of another slot or round.           *)
OpenFindsTag ==
    opened /\ ~faulty => \E t \in Tags : uid = UID[t] /\ tag[t] # "QUIET"

(* Reading and writing touch no tag but the opened one, although other     *)
(* tags may still be selected from an earlier open whose STAY QUIET was    *)
(* lost, unless SELECT itself failed unnoticed.                            *)
OwnTagOnly == ~blind => acted \subseteq Own

(* Each round of the inventory uses a longer mask than the one before. *)
MaskGrows ==
    [][pc = "eval" /\ pc' = "slot" => mask'.len > mask.len]_vars

(* Every inventory ends, however many tags collide. *)
OpenReturns == (pc # "none") ~> (pc = "none")
=============================================================================
