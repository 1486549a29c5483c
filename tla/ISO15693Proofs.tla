--------------------------- MODULE ISO15693Proofs ---------------------------
(***************************************************************************)
(* Proofs about the ISO 15693 layer: for any number of tags, of slots and  *)
(* of bits, whatever the UIDs and the DSFIDs are.                          *)
(***************************************************************************)
EXTENDS ISO15693, FiniteSetTheorems, WellFoundedInduction, TLAPS

---------------------------------------------------------------------------
(* Collisions.                                                             *)

(* A set of numbers that is not empty has a least element. *)
LEMMA SmallestOf ==
    ASSUME NEW T, T \subseteq Nat, T # {}
    PROVE  \E x \in T : \A y \in T : x <= y
<1> DEFINE R == OpToRel(<, Nat)
<1>1. IsWellFoundedOn(R, Nat)
  BY NatLessThanWellFounded, Zenon
<1>2. \A x, y \in Nat : y < x => <<y, x>> \in R
  BY DEF OpToRel
<1> HIDE DEF R
<1>3. PICK x \in T : \A y \in T : ~(<<y, x>> \in R)
  BY <1>1, WFMin
<1>4. ASSUME NEW y \in T PROVE x <= y
  <2>1. ~(y < x)
    BY <1>2, <1>3
  <2> QED BY <2>1
<1> QED BY <1>4

(* A set with more than one element has two different ones. *)
LEMMA TwoOf ==
    ASSUME NEW S, Cardinality(S) > 1
    PROVE  \E x, y \in S : x # y
<1>1. Cardinality({}) = 0 /\ \A x : Cardinality({x}) = 1
  BY FS_EmptySet, FS_Singleton
<1>2. SUFFICES ASSUME \A x, y \in S : x = y PROVE FALSE
  OBVIOUS
<1>3. S = {} \/ \E x : S = {x}
  BY <1>2
<1>4. Cardinality(S) \in {0, 1}
  BY <1>1, <1>3
<1> QED BY <1>4

(* UIDs are unique, so two tags that answer together collide somewhere,    *)
(* and CollisionAt is a position at which they differ.                     *)
LEMMA CollisionFound ==
    ASSUME NEW S \in SUBSET Tags, Cardinality(S) > 1
    PROVE  CollisionAt(S) \in 1..HdrBits + UidBits /\ Differ(S, CollisionAt(S))
<1> DEFINE N == HdrBits + UidBits
           D == {i \in 1..N : Differ(S, i)}
<1>0. HdrBits \in Nat /\ HdrBits >= ByteBits /\ UidBits \in Nat /\ N \in Nat
  BY BitsAssumption DEF HdrBits
<1>1. PICK t \in S, u \in S : t # u
  BY TwoOf
<1>2. UID[t] \in Uid /\ UID[u] \in Uid /\ UID[t] # UID[u]
  BY <1>1, TagsAssumption
<1>3. PICK i \in 1..UidBits : UID[t][i] # UID[u][i]
  <2> SUFFICES ASSUME \A i \in 1..UidBits : UID[t][i] = UID[u][i] PROVE UID[t] = UID[u]
    BY <1>2
  <2>1. UID[t] = [i \in 1..UidBits |-> UID[t][i]] /\ UID[u] = [i \in 1..UidBits |-> UID[u][i]]
    BY <1>2 DEF Uid
  <2> QED BY <2>1
<1>4. HdrBits + i \in 1..N /\ HdrBits + i > HdrBits /\ HdrBits + i - HdrBits = i
  BY <1>0, <1>3
<1>5. ResponseBit(t, HdrBits + i) = UID[t][i] /\ ResponseBit(u, HdrBits + i) = UID[u][i]
  BY <1>0, <1>3, <1>4, BitsAssumption DEF ResponseBit
<1>6. HdrBits + i \in D
  BY <1>3, <1>4, <1>5 DEF Differ
<1>7. PICK p \in D : \A j \in D : p <= j
  <2>1. D \subseteq Nat
    BY <1>0
  <2> QED BY <1>6, <2>1, SmallestOf
<1>8. p \in 1..N /\ Differ(S, p) /\ \A j \in 1..p - 1 : ~Differ(S, j)
  BY <1>0, <1>7
<1> QED BY <1>8 DEF CollisionAt

(* The tags that answer agree in the mask and in the flags: they collide   *)
(* behind them.                                                            *)
LEMMA CollisionBehindMask ==
    ASSUME TypeOK, Cardinality(Answering) > 1
    PROVE  LET p == CollisionAt(Answering)
           IN /\ p \in 1..HdrBits + UidBits
              /\ p > HdrBits => p - HdrBits > mask.len
              /\ p <= HdrBits => p > mask.len
<1> DEFINE p == CollisionAt(Answering)
<1>0. /\ HdrBits \in Nat /\ HdrBits = 2 * ByteBits /\ ByteBits \in Nat /\ UidBits \in Nat
      /\ mask.len \in Nat /\ mask.sent \in {0, ByteBits}
  BY BitsAssumption DEF HdrBits, TypeOK
<1>1. p \in 1..HdrBits + UidBits /\ Differ(Answering, p)
  BY CollisionFound DEF Answering
<1> HIDE DEF p
<1>2. PICK t \in Answering, u \in Answering : ResponseBit(t, p) # ResponseBit(u, p)
  BY <1>1 DEF Differ
<1>3. p > ByteBits
  BY <1>0, <1>1, <1>2 DEF ResponseBit
<1>4. mask.len <= ByteBits
  BY <1>0, <1>2 DEF Answering
<1>5. ASSUME p > HdrBits PROVE p - HdrBits > mask.len
  <2>1. ResponseBit(t, p) = UID[t][p - HdrBits] /\ ResponseBit(u, p) = UID[u][p - HdrBits]
    BY <1>0, <1>1, <1>3, <1>5 DEF ResponseBit
  <2>2. p - HdrBits \notin 1..mask.len
    BY <1>2, <2>1 DEF Answering
  <2> QED BY <1>0, <1>1, <1>5, <2>2
<1>6. ASSUME p <= HdrBits PROVE p > mask.len
  BY <1>0, <1>1, <1>3, <1>4
<1> QED BY <1>1, <1>5, <1>6 DEF p

(* What is received is a byte of bits. *)
LEMMA ReceivedType == \A S : Received(S) \subseteq Byte
  BY DEF Received

(* The mask that iso15693_build_acf sends has its length in its range. *)
LEMMA build_acfType ==
    ASSUME NEW len \in Nat, NEW b \in Byte
    PROVE  /\ build_acf(len, b).len = len
           /\ build_acf(len, b) \in [len : {len}, sent : {0, ByteBits}, bits : Byte]
<1>1. len % ByteBits \in Nat
  BY BitsAssumption
<1>2. [i \in 1..ByteBits |-> IF i <= len % ByteBits THEN b[i] ELSE 0] \in Byte
  BY <1>1, BitsAssumption DEF Byte, Bit
<1> QED BY <1>2 DEF build_acf

(* The values that iso15693_anticol starts from. *)
LEMMA ZeroTypes ==
    /\ Zeros \in Uid /\ ZeroByte \in Byte
    /\ [i \in 1..Slots |-> 0] \in [1..Slots -> 0..HdrBits + UidBits]
    /\ build_acf(0, ZeroByte) \in [len : 0..HdrBits + UidBits, sent : {0, ByteBits}, bits : Byte]
<1>1. Zeros \in Uid /\ ZeroByte \in Byte
  BY DEF Zeros, ZeroByte, Uid, Byte, Bit
<1>2. 0 \in 0..HdrBits + UidBits
  BY BitsAssumption DEF HdrBits
<1>3. build_acf(0, ZeroByte) \in [len : {0}, sent : {0, ByteBits}, bits : Byte]
  BY <1>1, build_acfType
<1> QED BY <1>1, <1>2, <1>3

---------------------------------------------------------------------------
(* The inductive invariant.                                                *)

(* An inventory runs only while nothing is opened, and inside its slots.   *)
Inventory ==
    /\ pc # "none" => ~opened /\ hstate # "FREE" /\ acted = {}
    /\ pc = "none" => slot = 1
    /\ pc = "slot" => slot <= NumSlots
    /\ hstate = "SELECTED" => opened

(* The collisions noted in this round lie behind its mask. *)
Noted == IF pc = "eval" THEN 1..NumSlots ELSE 1..slot - 1
CollisionsAhead ==
    \A i \in Noted : list[i] > 0 =>
        IF list[i] > HdrBits THEN list[i] - HdrBits >= mask.len ELSE list[i] >= mask.len

(* A handle that knows itself SELECTED has the only selected tag. *)
SelectedIsOwn ==
    ~blind /\ hstate = "SELECTED" => \A t \in Tags : tag[t] = "SELECTED" => t \in Own



(* The slots of an inventory are counted within the list. *)
LEMMA SlotBounds ==
    ASSUME TypeOK
    PROVE  NumSlots \in 1..Slots /\ NumSlots \in Nat /\ Slots \in Nat /\ slot \in Nat
  BY BitsAssumption DEF NumSlots, TypeOK

(* What iso15693_anticol returns with when a tag answered alone. *)
LEMMA FoundEffect ==
    ASSUME TypeOK, NEW u \in Uid, Found(u)
    PROVE  /\ uid' \in Uid /\ opened' = TRUE /\ pc' = "none" /\ ret' = "ok"
           /\ mask' \in [len : 0..HdrBits + UidBits, sent : {0, ByteBits}, bits : Byte]
           /\ slot' = 1 /\ list' \in [1..Slots -> 0..HdrBits + UidBits] /\ resp' \in Byte
  BY ZeroTypes DEF Found, Return

(* What the end of a slot does to the loop. *)
LEMMA NextSlotEffect ==
    ASSUME TypeOK, Inventory, pc = "slot", NEW boc \in 0..HdrBits + UidBits, NEW rx \in Byte,
           NextSlot(boc, rx)
    PROVE  /\ list' \in [1..Slots -> 0..HdrBits + UidBits] /\ list'[slot] = boc
           /\ \A i \in 1..Slots : i # slot => list'[i] = list[i]
           /\ resp' \in Byte /\ slot \in 1..Slots /\ slot' = slot + 1
           /\ \/ pc' = "eval" /\ slot = NumSlots
              \/ pc' = "slot" /\ slot < NumSlots
           /\ UNCHANGED <<uid, opened, ret, mask>>
<1>1. slot \in 1..Slots /\ slot <= NumSlots
  BY SlotBounds DEF Inventory, TypeOK
<1> QED BY <1>1, SlotBounds DEF NextSlot, TypeOK

(* The outcomes of a request: a slot without or with a collision, or a UID. *)
LEMMA transceive_acEffect ==
    ASSUME TypeOK, transceive_ac
    PROVE  /\ pc = "slot" /\ losses' \in Nat /\ faulty' \in BOOLEAN
           /\ UNCHANGED <<hstate, opt, tag, acted, blind, opens>>
           /\ \/ NextSlot(0, ZeroByte)
              \/ /\ Cardinality(Answering) > 1
                 /\ \E rx \in Byte : NextSlot(CollisionAt(Answering), rx)
              \/ faulty' /\ Found(Zeros)
              \/ \E t \in Answering : Found(UID[t])
<1>1. /\ pc = "slot" /\ losses' \in Nat /\ faulty' \in BOOLEAN
      /\ UNCHANGED <<hstate, opt, tag, acted, blind, opens>>
  <2>1. pc = "slot" /\ UNCHANGED <<hstate, opt, tag, acted, blind, opens>>
    BY DEF transceive_ac
  <2>2. (UNCHANGED losses \/ Loses) /\ (UNCHANGED faulty \/ faulty' = TRUE)
    BY DEF transceive_ac
  <2>3. losses' \in Nat
    BY <2>2 DEF Loses, TypeOK
  <2>4. faulty' \in BOOLEAN
    BY <2>2 DEF TypeOK
  <2> QED BY <2>1, <2>3, <2>4
<1>2. \/ NextSlot(0, ZeroByte)
      \/ faulty' = TRUE /\ IF Cardinality(Answering) > 1 THEN Collides(ZeroByte) ELSE Found(Zeros)
      \/ Cardinality(Answering) > 1 /\ \E rx \in Received(Answering) : Collides(rx)
      \/ \E t \in Answering : Found(UID[t])
  BY DEF transceive_ac
<1> QED BY <1>1, <1>2, ReceivedType, ZeroTypes DEF Collides

(* Each step keeps the types. *)
LEMMA TypeStep == TypeOK /\ Inventory /\ [Next]_vars => TypeOK'
<1> SUFFICES ASSUME TypeOK, Inventory, [Next]_vars PROVE TypeOK'
  OBVIOUS
<1>1. CASE iso15693_init \/ iso15693_fini
  <2>1. CASE iso15693_init
    <3>1. opt' \in [fast : BOOLEAN, single : BOOLEAN] /\ opened' \in BOOLEAN /\ blind' \in BOOLEAN
      BY <2>1 DEF iso15693_init
    <3> QED BY <2>1, <3>1 DEF iso15693_init, anticol, TypeOK
  <2>2. CASE iso15693_fini
    BY <2>2 DEF iso15693_fini, anticol, ghosts, TypeOK
  <2> QED BY <1>1, <2>1, <2>2
<1>2. CASE rf_kill
  BY <1>2 DEF rf_kill, anticol, ghosts, TypeOK
<1>3. ASSUME NEW s \in Settings, iso15693_setopt(s[1], s[2]) PROVE TypeOK'
  <2>1. opt' \in [fast : BOOLEAN, single : BOOLEAN]
    <3>1. opt.fast \in BOOLEAN /\ opt.single \in BOOLEAN
      BY DEF TypeOK
    <3>2. PICK f \in BOOLEAN, g \in BOOLEAN : opt' = [fast |-> f, single |-> g]
      BY <1>3, <3>1 DEF iso15693_setopt
    <3> QED BY <3>2
  <2> QED BY <1>3, <2>1 DEF iso15693_setopt, anticol, ghosts, TypeOK
<1>4. CASE Open
  <2>1. faulty' \in BOOLEAN
    BY <1>4 DEF Open
  <2>2. opens' \in Nat
    BY <1>4 DEF Open, TypeOK
  <2> QED BY <1>4, <2>1, <2>2 DEF Open, TypeOK
<1>5. CASE iso15693_select
  <2> DEFINE now == [t \in Tags |->
                     IF t \in Addressed \cap SelectTags THEN "SELECTED"
                     ELSE IF tag[t] = "SELECTED" THEN "READY" ELSE tag[t]]
  <2>1. now \in [Tags -> {"ABSENT", "READY", "SELECTED", "QUIET"}]
    BY DEF TypeOK
  <2>2. tag' \in {tag, now} /\ losses' \in Nat
    BY <1>5 DEF iso15693_select, Reaches, Loses, TypeOK
  <2> HIDE DEF now
  <2>3. ret' \in {"ok", "err"} /\ hstate' \in {hstate, "SELECTED"} /\ blind' \in BOOLEAN
    BY <1>5 DEF iso15693_select, TypeOK
  <2> QED BY <1>5, <2>1, <2>2, <2>3 DEF iso15693_select, anticol, TypeOK
<1>6. CASE read_write_block
  <2>1. Target \subseteq Tags
    BY DEF Target, Addressed, Own
  <2> QED BY <1>6, <2>1 DEF read_write_block, Loses, anticol, ghosts, TypeOK
<1>7. CASE iso15693_stay_quiet
  <2> DEFINE now == [t \in Tags |-> IF t \in Addressed THEN "QUIET" ELSE tag[t]]
  <2>1. now \in [Tags -> {"ABSENT", "READY", "SELECTED", "QUIET"}]
    BY DEF TypeOK
  <2>2. tag' \in {tag, now} /\ losses' \in Nat
    BY <1>7 DEF iso15693_stay_quiet, Reaches, Loses, TypeOK
  <2> HIDE DEF now
  <2> QED BY <1>7, <2>1, <2>2 DEF iso15693_stay_quiet, anticol, TypeOK
<1>8. CASE transceive_ac
  <2>1. /\ pc = "slot" /\ losses' \in Nat /\ faulty' \in BOOLEAN
        /\ UNCHANGED <<hstate, opt, tag, acted, blind, opens>>
    BY <1>8, transceive_acEffect
  <2>2. ASSUME NEW boc \in 0..HdrBits + UidBits, NEW rx \in Byte, NextSlot(boc, rx)
        PROVE  TypeOK'
    <3>1. slot' \in 1..Slots + 1
      <4>1. slot \in 1..Slots /\ slot' = slot + 1 /\ Slots \in Nat
        BY <2>1, <2>2, NextSlotEffect, SlotBounds
      <4> QED BY <4>1
    <3> QED BY <2>1, <2>2, <3>1, NextSlotEffect DEF TypeOK
  <2>3. ASSUME NEW u \in Uid, Found(u) PROVE TypeOK'
    <3>1. slot' \in 1..Slots + 1
      <4>1. slot' = 1 /\ Slots \in Nat
        BY <2>3, FoundEffect, SlotBounds
      <4> QED BY <4>1
    <3> QED BY <2>1, <2>3, <3>1, FoundEffect DEF TypeOK
  <2>4. 0 \in 0..HdrBits + UidBits
    BY BitsAssumption DEF HdrBits
  <2>5. Cardinality(Answering) > 1 => CollisionAt(Answering) \in 0..HdrBits + UidBits
    BY CollisionBehindMask, BitsAssumption DEF HdrBits
  <2>6. \A t \in Answering : UID[t] \in Uid
    BY TagsAssumption DEF Answering
  <2> QED BY <1>8, <2>2, <2>3, <2>4, <2>5, <2>6, transceive_acEffect, ZeroTypes
<1>9. CASE Evaluate
  <2>1. CASE Return("err")
    <3>1. slot' \in 1..Slots + 1
      BY <2>1, SlotBounds DEF Return
    <3> QED BY <1>9, <2>1, <3>1, ZeroTypes DEF Evaluate, Return, ghosts, TypeOK
  <2>2. CASE ~Return("err")
    <3> DEFINE C == {i \in 1..NumSlots : list[i] > 0}
               boc == list[CHOOSE i \in C : \A j \in C : i <= j]
               bit == IF boc > HdrBits THEN boc - HdrBits ELSE boc
    <3>1. C # {} /\ mask' = build_acf(bit + 1, resp) /\ slot' = 1 /\ pc' = "slot"
          /\ UNCHANGED <<ret, list, resp, hstate, uid, opt, opened, tag, acted, ghosts, losses>>
      BY <1>9, <2>2 DEF Evaluate
    <3>2. (CHOOSE i \in C : \A j \in C : i <= j) \in C
      <4>1. C \subseteq Nat
        BY SlotBounds
      <4>2. \E i \in C : \A j \in C : i <= j
        BY <3>1, <4>1, SmallestOf
      <4> QED BY <4>2
    <3>3. boc \in 1..HdrBits + UidBits
      <4>1. boc \in 0..HdrBits + UidBits /\ boc > 0
        BY <3>2, SlotBounds DEF TypeOK
      <4> QED BY <4>1, BitsAssumption DEF HdrBits
    <3> HIDE DEF boc
    <3>4. bit + 1 \in 0..HdrBits + UidBits /\ bit + 1 \in Nat
      BY <3>3, BitsAssumption DEF HdrBits
    <3> HIDE DEF bit
    <3>5. mask' \in [len : 0..HdrBits + UidBits, sent : {0, ByteBits}, bits : Byte]
      <4>1. build_acf(bit + 1, resp) \in [len : {bit + 1}, sent : {0, ByteBits}, bits : Byte]
        BY <3>4, build_acfType DEF TypeOK
      <4> QED BY <3>1, <3>4, <4>1
    <3>6. slot' \in 1..Slots + 1
      BY <3>1, SlotBounds
    <3> QED BY <3>1, <3>5, <3>6 DEF ghosts, TypeOK
  <2> QED BY <2>1, <2>2
<1>10. ASSUME NEW t \in Tags, TagMoves(t) PROVE TypeOK'
  BY <1>10 DEF TagMoves, anticol, ghosts, TypeOK
<1>11. CASE UNCHANGED vars
  BY <1>11 DEF vars, anticol, ghosts, TypeOK
<1> QED
  BY <1>1, <1>2, <1>3, <1>4, <1>5, <1>6, <1>7, <1>8, <1>9, <1>10, <1>11
  DEF Next, Application, Anticol

(* Each step keeps the lists of the inventory those of tags that           *)
(* answered.                                                               *)
LEMMA InventoryStep == TypeOK /\ Inventory /\ [Next]_vars => Inventory'
<1> SUFFICES ASSUME TypeOK, Inventory, [Next]_vars PROVE Inventory'
  OBVIOUS
<1> USE DEF Inventory
<1>1. CASE iso15693_init \/ iso15693_fini \/ rf_kill
  BY <1>1 DEF iso15693_init, iso15693_fini, rf_kill, anticol, Ready
<1>2. ASSUME NEW s \in Settings, iso15693_setopt(s[1], s[2]) PROVE Inventory'
  BY <1>2 DEF iso15693_setopt, anticol, Ready
<1>3. CASE Open
  <2>1. pc' = "slot" /\ slot' = 1 /\ ~opened' /\ hstate' # "FREE" /\ acted' = {} /\ opt' = opt
    BY <1>3 DEF Open, Ready
  <2>2. 1 <= NumSlots /\ NumSlots' = NumSlots
    BY <2>1, SlotBounds DEF NumSlots
  <2>3. hstate' # "SELECTED"
    BY <1>3 DEF Open, Ready
  <2> QED BY <2>1, <2>2, <2>3
<1>4. CASE iso15693_select \/ read_write_block \/ iso15693_stay_quiet
  BY <1>4 DEF iso15693_select, read_write_block, iso15693_stay_quiet, anticol, Ready
<1>5. CASE transceive_ac
  <2>1. /\ pc = "slot" /\ UNCHANGED <<hstate, opt, acted>>
    BY <1>5, transceive_acEffect
  <2>2. ASSUME NEW boc \in 0..HdrBits + UidBits, NEW rx \in Byte, NextSlot(boc, rx)
        PROVE  Inventory'
    <3>1. /\ slot' = slot + 1 /\ UNCHANGED opened
          /\ pc' = "eval" \/ (pc' = "slot" /\ slot < NumSlots)
      BY <2>1, <2>2, NextSlotEffect
    <3>2. NumSlots' = NumSlots
      BY <2>1 DEF NumSlots
    <3> QED BY <2>1, <3>1, <3>2, SlotBounds
  <2>3. ASSUME NEW u \in Uid, Found(u) PROVE Inventory'
    BY <2>1, <2>3, FoundEffect
  <2>4. 0 \in 0..HdrBits + UidBits
    BY BitsAssumption DEF HdrBits
  <2>5. Cardinality(Answering) > 1 => CollisionAt(Answering) \in 0..HdrBits + UidBits
    BY CollisionBehindMask, BitsAssumption DEF HdrBits
  <2>6. \A t \in Answering : UID[t] \in Uid
    BY TagsAssumption DEF Answering
  <2> QED BY <1>5, <2>2, <2>3, <2>4, <2>5, <2>6, transceive_acEffect, ZeroTypes
<1>6. CASE Evaluate
  <2>1. /\ pc = "eval" /\ slot' = 1 /\ pc' \in {"none", "slot"}
        /\ UNCHANGED <<opt, opened, hstate, acted>>
    BY <1>6 DEF Evaluate, Return
  <2>2. 1 <= NumSlots /\ NumSlots' = NumSlots
    BY <2>1, SlotBounds DEF NumSlots
  <2> QED BY <2>1, <2>2
<1>7. ASSUME NEW t \in Tags, TagMoves(t) PROVE Inventory'
  BY <1>7 DEF TagMoves, anticol, NumSlots
<1>8. CASE UNCHANGED vars
  BY <1>8 DEF vars, anticol, NumSlots
<1> QED
  BY <1>1, <1>2, <1>3, <1>4, <1>5, <1>6, <1>7, <1>8 DEF Next, Application, Anticol

(* The variables keep their types: in particular the loop over the slots   *)
(* of iso15693_anticol stays inside uuid_list_valid, and no mask is longer *)
(* than a response.                                                        *)
THEOREM TypeCorrect == Spec => []TypeOK
<1>1. Init => TypeOK /\ Inventory
  <2> SUFFICES ASSUME Init PROVE TypeOK /\ Inventory
    OBVIOUS
  <2>1. slot = 1 /\ Slots \in Nat /\ slot \in 1..Slots + 1
    BY BitsAssumption DEF Init
  <2>2. opt \in [fast : BOOLEAN, single : BOOLEAN] /\ tag \in [Tags -> {"ABSENT", "READY"}]
    BY DEF Init
  <2>3. tag \in [Tags -> {"ABSENT", "READY", "SELECTED", "QUIET"}]
    BY <2>2
  <2>4. opened \in BOOLEAN /\ blind \in BOOLEAN /\ faulty \in BOOLEAN
    BY DEF Init
  <2> QED BY <2>1, <2>2, <2>3, <2>4, ZeroTypes DEF Init, TypeOK, Inventory
<1> QED BY <1>1, TypeStep, InventoryStep, PTL DEF Spec

(* A UID that the inventory found is that of a tag that answered alone. *)
LEMMA InventoryHolds == Spec => []Inventory
<1>1. Init => Inventory
  BY DEF Init, Inventory
<1> QED BY <1>1, TypeCorrect, InventoryStep, PTL DEF Spec

---------------------------------------------------------------------------
(* Who is opened, and who obeys.                                           *)

(* Each step keeps the selected tag that of the handle. *)
LEMMA OwnershipStep ==
    TypeOK /\ Inventory /\ SelectedIsOwn /\ OpenFindsTag /\ OwnTagOnly /\ [Next]_vars
    => SelectedIsOwn' /\ OpenFindsTag' /\ OwnTagOnly'
<1> SUFFICES ASSUME TypeOK, Inventory, SelectedIsOwn, OpenFindsTag, OwnTagOnly, [Next]_vars
             PROVE  SelectedIsOwn' /\ OpenFindsTag' /\ OwnTagOnly'
  OBVIOUS
<1> USE DEF SelectedIsOwn, OpenFindsTag, OwnTagOnly, Own
<1>0. tag \in [Tags -> {"ABSENT", "READY", "SELECTED", "QUIET"}]
  BY DEF TypeOK
<1>1. CASE iso15693_init
  BY <1>1 DEF iso15693_init
<1>2. CASE iso15693_fini
  BY <1>2 DEF iso15693_fini, ghosts
<1>3. CASE rf_kill
  <2>1. \A t \in Tags : tag'[t] \in {"ABSENT", "READY"}
    BY <1>3 DEF rf_kill
  <2> QED BY <1>3, <2>1 DEF rf_kill, ghosts
<1>4. ASSUME NEW s \in Settings, iso15693_setopt(s[1], s[2])
      PROVE SelectedIsOwn' /\ OpenFindsTag' /\ OwnTagOnly'
  BY <1>4 DEF iso15693_setopt, ghosts
<1>5. CASE Open
  BY <1>5 DEF Open, Inventory
<1>6. CASE iso15693_select
  <2> DEFINE now == [t \in Tags |->
                     IF t \in Addressed \cap SelectTags THEN "SELECTED"
                     ELSE IF tag[t] = "SELECTED" THEN "READY" ELSE tag[t]]
  <2>1. UNCHANGED <<uid, opened, faulty>> /\ acted' = {}
    BY <1>6 DEF iso15693_select
  <2>2. PICK answered \in BOOLEAN :
          /\ Reaches(now, answered)
          /\ IF answered /\ Addressed \cap SelectTags = {}
             THEN UNCHANGED <<hstate, blind>>
             ELSE hstate' = "SELECTED" /\ blind' = ~answered
    BY <1>6 DEF iso15693_select
  <2>3. tag' \in {tag, now} /\ (answered => tag' = now)
    BY <2>2 DEF Reaches
  <2>4. \A t \in Tags : /\ now[t] = "SELECTED" => t \in Own
                        /\ tag[t] # "QUIET" => now[t] # "QUIET"
    BY <1>0 DEF Addressed
  <2> HIDE DEF now
  <2>5. SelectedIsOwn'
    BY <2>1, <2>2, <2>3, <2>4
  <2>6. OpenFindsTag'
    BY <2>1, <2>3, <2>4
  <2> QED BY <2>1, <2>5, <2>6
<1>7. CASE read_write_block
  <2>1. ~blind => Target \subseteq Own
    BY <1>7 DEF read_write_block, Target, Addressed
  <2> QED BY <1>7, <2>1 DEF read_write_block, ghosts
<1>8. CASE iso15693_stay_quiet
  BY <1>8 DEF iso15693_stay_quiet
<1>9. CASE transceive_ac
  <2>1. /\ pc = "slot" /\ UNCHANGED <<hstate, tag, acted, blind>>
        /\ acted = {} /\ hstate # "SELECTED" /\ ~opened
    BY <1>9, transceive_acEffect DEF Inventory
  <2>2. opened' => faulty' \/ \E t \in Answering : uid' = UID[t]
    BY <1>9, <2>1, transceive_acEffect DEF NextSlot, Found
  <2>3. \A t \in Answering : t \in Tags /\ tag[t] # "QUIET"
    BY DEF Answering
  <2> QED BY <2>1, <2>2, <2>3
<1>10. CASE Evaluate
  BY <1>10 DEF Evaluate, ghosts
<1>11. ASSUME NEW t \in Tags, TagMoves(t)
       PROVE SelectedIsOwn' /\ OpenFindsTag' /\ OwnTagOnly'
  <2>1. \A u \in Tags : tag'[u] = tag[u] \/ tag'[u] \in {"ABSENT", "READY"}
    BY <1>0, <1>11 DEF TagMoves
  <2> QED BY <1>11, <2>1 DEF TagMoves, ghosts
<1>12. CASE UNCHANGED vars
  BY <1>12 DEF vars, ghosts
<1> QED
  BY <1>1, <1>2, <1>3, <1>4, <1>5, <1>6, <1>7, <1>8, <1>9, <1>10, <1>11, <1>12
  DEF Next, Application, Anticol

(* The tag that was opened, and the one that is selected. *)
LEMMA OwnershipHolds == Spec => [](SelectedIsOwn /\ OpenFindsTag /\ OwnTagOnly)
<1>1. Init => SelectedIsOwn /\ OpenFindsTag /\ OwnTagOnly
  BY DEF Init, SelectedIsOwn, OpenFindsTag, OwnTagOnly
<1> QED BY <1>1, TypeCorrect, InventoryHolds, OwnershipStep, PTL DEF Spec

(* iso15693_anticol never opens a mixture of UIDs: when all register       *)
(* accesses worked, the UID it stores is that of one tag which is not      *)
(* quiet, for any tags, masks and slots, however many tags answer at once. *)
THEOREM OpenFindsTagHolds == Spec => []OpenFindsTag
  BY OwnershipHolds, PTL

(* Reads and writes reach no tag but the one whose UID the handle has,     *)
(* whatever was lost and whichever tags an earlier open left selected, as  *)
(* long as SELECT did not fail unnoticed.                                  *)
THEOREM OwnTagOnlyHolds == Spec => []OwnTagOnly
  BY OwnershipHolds, PTL

---------------------------------------------------------------------------
(* Progress of the inventory.                                              *)

(* Each step keeps the collisions of a round behind its mask. *)
LEMMA CollisionsAheadStep ==
    TypeOK /\ Inventory /\ CollisionsAhead /\ [Next]_vars => CollisionsAhead'
<1> SUFFICES ASSUME TypeOK, Inventory, CollisionsAhead, [Next]_vars PROVE CollisionsAhead'
  OBVIOUS
<1>1. ASSUME UNCHANGED anticol, pc = "none" \/ UNCHANGED opt PROVE CollisionsAhead'
  <2>1. Noted' = Noted
    BY <1>1 DEF anticol, Noted, NumSlots
  <2> QED BY <1>1, <2>1 DEF anticol, CollisionsAhead
<1>2. CASE Open
  <2>1. pc' = "slot" /\ slot' = 1
    BY <1>2 DEF Open, Ready, Inventory
  <2> QED BY <2>1 DEF CollisionsAhead, Noted
<1>3. CASE transceive_ac
  <2>1. pc = "slot" /\ UNCHANGED opt
    BY <1>3, transceive_acEffect
  <2>2. ASSUME NEW boc \in 0..HdrBits + UidBits, NEW rx \in Byte, NextSlot(boc, rx),
               boc > 0 => IF boc > HdrBits THEN boc - HdrBits >= mask.len ELSE boc >= mask.len
        PROVE  CollisionsAhead'
    <3>1. /\ list'[slot] = boc /\ \A i \in 1..Slots : i # slot => list'[i] = list[i]
          /\ slot' = slot + 1 /\ UNCHANGED mask /\ slot \in 1..Slots
          /\ (pc' = "eval" /\ slot = NumSlots) \/ (pc' = "slot" /\ slot < NumSlots)
      BY <2>1, <2>2, NextSlotEffect
    <3>2. Noted' = 1..slot /\ Noted = 1..slot - 1
      BY <2>1, <3>1, SlotBounds DEF Noted, NumSlots
    <3>3. ASSUME NEW i \in 1..slot, i # slot PROVE i \in Noted /\ list'[i] = list[i]
      BY <3>1, <3>2, <3>3, SlotBounds
    <3> QED BY <2>2, <3>1, <3>2, <3>3 DEF CollisionsAhead
  <2>3. ASSUME NEW u \in Uid, Found(u) PROVE CollisionsAhead'
    <3>1. pc' = "none" /\ slot' = 1
      BY <2>3, FoundEffect
    <3> QED BY <3>1 DEF CollisionsAhead, Noted
  <2>4. 0 \in 0..HdrBits + UidBits
    BY BitsAssumption DEF HdrBits
  <2>5. ASSUME Cardinality(Answering) > 1, NEW rx \in Byte, NextSlot(CollisionAt(Answering), rx)
        PROVE  CollisionsAhead'
    <3> DEFINE p == CollisionAt(Answering)
    <3>1. /\ p \in 1..HdrBits + UidBits
          /\ p > HdrBits => p - HdrBits > mask.len
          /\ p <= HdrBits => p > mask.len
      BY <2>5, CollisionBehindMask
    <3>2. NextSlot(p, rx)
      BY <2>5
    <3> HIDE DEF p
    <3>3. mask.len \in Nat /\ HdrBits \in Nat /\ UidBits \in Nat
      BY BitsAssumption DEF TypeOK, HdrBits
    <3> QED BY <2>2, <3>1, <3>2, <3>3
  <2>6. \A t \in Answering : UID[t] \in Uid
    BY TagsAssumption DEF Answering
  <2> QED BY <1>3, <2>2, <2>3, <2>4, <2>5, <2>6, transceive_acEffect, ZeroTypes
<1>4. CASE Evaluate
  <2>1. slot' = 1 /\ pc' \in {"none", "slot"}
    BY <1>4 DEF Evaluate, Return
  <2> QED BY <2>1 DEF CollisionsAhead, Noted
<1>5. CASE iso15693_init \/ iso15693_fini \/ rf_kill
  <2>1. UNCHANGED anticol /\ (pc = "none" \/ UNCHANGED opt)
    BY <1>5 DEF iso15693_init, iso15693_fini, rf_kill, Inventory
  <2> QED BY <1>1, <2>1
<1>6. ASSUME NEW s \in Settings, iso15693_setopt(s[1], s[2]) PROVE CollisionsAhead'
  BY <1>1, <1>6 DEF iso15693_setopt, Ready
<1>7. CASE iso15693_select \/ read_write_block \/ iso15693_stay_quiet
  BY <1>1, <1>7 DEF iso15693_select, read_write_block, iso15693_stay_quiet
<1>8. ASSUME NEW t \in Tags, TagMoves(t) PROVE CollisionsAhead'
  BY <1>1, <1>8 DEF TagMoves
<1>9. CASE UNCHANGED vars
  BY <1>1, <1>9 DEF vars
<1> QED
  BY <1>2, <1>3, <1>4, <1>5, <1>6, <1>7, <1>8, <1>9 DEF Next, Application, Anticol

(* Every round of iso15693_anticol asks with a longer mask than the round  *)
(* before, also when a collision lies in the DSFID, or in an earlier slot  *)
(* than the last: the loop cannot repeat itself.                           *)
THEOREM MaskGrowsHolds == Spec => MaskGrows
<1> DEFINE Grows == pc = "eval" /\ pc' = "slot" => mask'.len > mask.len
<1>1. Init => CollisionsAhead
  BY DEF Init, CollisionsAhead, Noted
<1>2. TypeOK /\ CollisionsAhead /\ [Next]_vars => [Grows]_vars
  <2> SUFFICES ASSUME TypeOK, CollisionsAhead, [Next]_vars, pc = "eval", pc' = "slot"
               PROVE  mask'.len > mask.len
    OBVIOUS
  <2>1. Evaluate
    BY DEF Next, Application, Anticol, iso15693_init, iso15693_fini, rf_kill, iso15693_setopt,
       Open, Ready, iso15693_select, read_write_block, iso15693_stay_quiet, transceive_ac,
       TagMoves, anticol, vars
  <2> DEFINE C == {i \in 1..NumSlots : list[i] > 0}
             boc == list[CHOOSE i \in C : \A j \in C : i <= j]
             bit == IF boc > HdrBits THEN boc - HdrBits ELSE boc
  <2>2. C # {} /\ mask' = build_acf(bit + 1, resp)
    BY <2>1 DEF Evaluate, Return
  <2>3. (CHOOSE i \in C : \A j \in C : i <= j) \in C
    <3>1. C \subseteq Nat
      BY SlotBounds
    <3>2. \E i \in C : \A j \in C : i <= j
      BY <2>2, <3>1, SmallestOf
    <3> QED BY <3>2
  <2>4. boc \in 0..HdrBits + UidBits /\ boc > 0
    BY <2>3, SlotBounds DEF TypeOK
  <2>5. IF boc > HdrBits THEN boc - HdrBits >= mask.len ELSE boc >= mask.len
    BY <2>3, <2>4 DEF CollisionsAhead, Noted
  <2> HIDE DEF boc
  <2>6. bit \in Nat /\ bit >= mask.len /\ mask.len \in Nat
    BY <2>4, <2>5, BitsAssumption DEF HdrBits, TypeOK
  <2> HIDE DEF bit
  <2>7. mask'.len = bit + 1
    BY <2>2, <2>6, build_acfType DEF TypeOK
  <2> QED BY <2>6, <2>7
<1> QED
  BY <1>1, <1>2, TypeCorrect, InventoryHolds, CollisionsAheadStep, PTL DEF Spec, MaskGrows
=============================================================================
