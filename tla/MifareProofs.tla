---------------------------- MODULE MifareProofs ----------------------------
(***************************************************************************)
(* Proofs about module Mifare: its type invariant, and that writes report, *)
(* reads show and access conditions say what is the case on the card.      *)
(*                                                                         *)
(* Base (types, places, loops) is inductive by itself; Waiting and Written *)
(* (for WriteOutcome), Lines and Dumped (for ReadOutcome) are inductive    *)
(* beside it.  AccessShown follows from Base by the lemmas about bits.     *)
(***************************************************************************)
EXTENDS Mifare, TLAPS

Reading == {"dump", "read", "ulread"}
Classic == {"dump", "read", "write"}
Ultralight == {"ulread", "ulblank", "ulwrite", "lock"}
Labels == {"none", "key", "auth", "read", "next", "cmd", "data", "ended"}
States == {"active", "auth", "writing", "idle"}

(* The records of the card and of the counters. *)
CardRecord == [kind : Cards, acc : [0..3 -> 0..7], st : States, sec : 0..39, pend : 0..255]
CountRecord == [ops : 0..MaxOps, before : 0..MaxTrouble]
ShownRecord == [last : -1..255, blocks : SUBSET Nat]

Types ==
    /\ op \in Ops \cup {NoOp} /\ at \in Labels
    /\ sector \in 0..39 /\ block \in Nat \cup {EINVAL} /\ buf.len \in {1, 16, 20}
    /\ rc \in {0, EINVAL, EPERM, EIO, ETIMEDOUT, EACCES}
    /\ card \in CardRecord
    /\ DOMAIN mem \subseteq 0..255 /\ lock \subseteq 0..15
    /\ shown \in ShownRecord
    /\ count \in CountRecord /\ trouble \in count.before..MaxTrouble

(* Which operation is where, and on which card. *)
Places ==
    /\ at = "none" <=> op = NoOp
    /\ at \in {"key", "auth"} => op.name \in Classic
    /\ at = "read" => op.name \in Reading
    /\ at = "next" => op.name = "dump"
    /\ at = "cmd" => op.name \in {"write", "ulblank", "ulwrite", "lock"}
    /\ at = "data" => op.name = "write" /\ op.page <= MFCL_PAGE_MAX
    /\ at # "none" => (op.name \in Ultralight <=> card.kind = "ul")

(* Which block the loops are at. *)
Loops ==
    /\ op.name \in {"read", "write", "ulwrite", "lock"} => block = op.page
    /\ op.name = "ulread" => block \in 0..15
    /\ op.name = "ulblank" => block \in 4..15
    /\ op.name = "dump" /\ at = "read" /\ sector < 36 =>
          block \in mfcl_sector2block(sector)..(mfcl_sector2block(sector) + mfcl_sector_blocks(sector) - 1)

(* A card waits for data only between the two exchanges of mfcl_write, or  *)
(* after an operation whose first one failed.                              *)
Waiting ==
    card.st = "writing" =>
        /\ at \in {"data", "ended"}
        /\ at = "data" => card.pend = op.page

(* What has changed since the operation began. *)
Same == mem = old.mem /\ lock = old.lock
ChangedIn(S) ==
    \A b \in DOMAIN mem : (b \in DOMAIN old.mem /\ mem[b] = old.mem[b]) \/ (b \in S /\ mem[b] = Payload)
Has(b) == b \in DOMAIN mem /\ mem[b] = Payload

Written ==
    /\ op.name \in Reading \cup {None} \/ at \in {"none", "key", "auth", "data"} => Same
    /\ at = "cmd" /\ op.name # "ulblank" => Same
    /\ op.name \in {"write", "ulwrite"} => lock = old.lock /\ ChangedIn({op.page})
    /\ op.name = "ulblank" => lock = old.lock /\ ChangedIn(4..15)
    /\ op.name = "lock" => mem = old.mem /\ lock \in {old.lock, old.lock \cup ({8} \cap {op.page})}
    /\ op.name = "ulblank" /\ at = "cmd" => \A b \in 4..(block - 1) : Has(b)
    /\ at = "ended" /\ rc >= 0 =>
          /\ op.name \in {"write", "ulwrite"} => Has(op.page)
          /\ op.name = "ulblank" => \A b \in 4..15 : Has(b)
    /\ at = "ended" /\ rc = EINVAL => Same

(* What is in the caller's buffer, and the line printed from it. *)
Lines ==
    /\ buf.len = 1 => count.before < trouble
    /\ op.name \notin Reading => shown.last = -1
    /\ shown.last >= 0 /\ buf.len > 1 => buf.head = Content(shown.last) /\ buf.rest = Content(shown.last)

(* The first block of sector s, of those sectors that have one. *)
Lo(s) == IF s < 36 THEN mfcl_sector2block(s) ELSE 192

Undisturbed ==
    /\ op.name = "dump" /\ op.key = "good" /\ trouble = count.before
    /\ \A b \in 0..2 : MayRead("A", card.acc[b])

(* How far an undisturbed dump has come. *)
Dumped ==
    /\ op.name = "dump" => sector < num_sectors(card.kind)
    /\ Undisturbed =>
          /\ at \in {"key", "auth"} => shown.blocks = 0..(Lo(sector) - 1) /\ card.st \in {"active", "auth"}
          /\ at = "read" => /\ shown.blocks = 0..((IF sector < 36 THEN block ELSE 192) - 1)
                            /\ card.st = "auth" /\ (sector < 36 => card.sec = sector)
          /\ at = "next" => shown.blocks = 0..(Lo(sector + 1) - 1) /\ card.st = "auth"
          /\ at = "ended" => shown.blocks = 0..(Lo(num_sectors(card.kind)) - 1)

---------------------------------------------------------------------------
(* Numbers.                                                                *)

(* Blocks, sectors and groups are numbers of the card. *)
LEMMA BlockNumbers ==
    /\ \A b \in 0..255 : SectorOf(b) \in 0..39 /\ Group(b) \in 0..3
    /\ \A k \in Cards : Blocks(k) \in {16, 20, 64, 256} /\ (k = "ul" \/ num_sectors(k) \in {5, 16, 40})
    /\ \A s \in 0..35 : mfcl_sector2block(s) \in 0..191 /\ mfcl_sector_blocks(s) \in {4, 16}
    /\ \A s \in 36..39 : mfcl_sector2block(s) = EINVAL
<1>1. \A b \in 0..255 : SectorOf(b) \in 0..39 /\ Group(b) \in 0..3
  BY DEF SectorOf, Group
<1>2. ASSUME NEW k \in Cards
      PROVE  Blocks(k) \in {16, 20, 64, 256} /\ (k = "ul" \/ num_sectors(k) \in {5, 16, 40})
  <2>1. k \in {"mini", "1k", "4k", "ul"}
    BY CardsAssumption
  <2>2. Blocks(k) \in {16, 20, 64, 256}
    BY <2>1 DEF Blocks
  <2>3. k = "ul" \/ num_sectors(k) \in {5, 16, 40}
    BY <2>1 DEF num_sectors, mfcl_size
  <2> QED BY <2>2, <2>3
<1>3. /\ \A s \in 0..35 : mfcl_sector2block(s) \in 0..191 /\ mfcl_sector_blocks(s) \in {4, 16}
      /\ \A s \in 36..39 : mfcl_sector2block(s) = EINVAL
  BY DEF mfcl_sector2block, mfcl_sector_blocks, SMALL_SECTORS, LARGE_SECTORS, BLOCKS_1k, BLOCKS_4k
<1> QED BY <1>1, <1>2, <1>3

(* The sectors from 36 on have no first block. *)
LEMMA FirstBlocks ==
    ASSUME NEW s \in 0..39
    PROVE  /\ s < 36 => mfcl_sector2block(s) \in 0..191 /\ mfcl_sector_blocks(s) \in {4, 16}
           /\ s >= 36 => mfcl_sector2block(s) = EINVAL
           /\ mfcl_sector2block(s) \in Nat \cup {EINVAL}
<1>1. CASE s \in 0..35
  <2>1. mfcl_sector2block(s) \in 0..191 /\ mfcl_sector_blocks(s) \in {4, 16}
    BY <1>1, BlockNumbers
  <2> QED BY <1>1, <2>1
<1>2. CASE s \in 36..39
  BY <1>2, BlockNumbers
<1> QED BY <1>1, <1>2

---------------------------------------------------------------------------
(* Exchanges.                                                              *)

(* A command reaches the card, or garbled, or not at all. *)
LEMMA ThreeWays ==
    ASSUME NEW c, NEW r, NEW a, Transceive(c, r, a)
    PROVE  \/ \E b : Obeys(c, b)
           \/ card' = [card EXCEPT !.st = "idle"] /\ UNCHANGED <<mem, lock>>
           \/ UNCHANGED <<card, mem, lock>>
BY DEF Transceive, Garbled

(* Losses and failures are counted. *)
LEMMA TroubleCounted ==
    ASSUME NEW c, NEW r, NEW a, Transceive(c, r, a), trouble \in Nat
    PROVE  trouble' = trouble \/ (trouble < MaxTrouble /\ trouble' = trouble + 1)
BY DEF Transceive, Trouble

(* What a command may do to the card's state. *)
LEMMA CardEffect ==
    ASSUME NEW c, NEW r, NEW a, Transceive(c, r, a), card \in CardRecord, c.block \in 0..255
    PROVE  /\ card' \in CardRecord
           /\ card'.kind = card.kind /\ card'.acc = card.acc /\ card'.sec = card.sec
           /\ card'.st = "writing" =>
                \/ card.st = "writing" /\ card'.pend = card.pend
                \/ c.cmd = "write16" /\ card'.pend = c.block
<1>1. ASSUME NEW st \in States, card' = [card EXCEPT !.st = st]
      PROVE  /\ card' \in CardRecord
             /\ card'.kind = card.kind /\ card'.acc = card.acc /\ card'.sec = card.sec
             /\ card'.pend = card.pend /\ card'.st = st
  BY <1>1 DEF CardRecord
<1>2. CASE \E b : Obeys(c, b)
  <2>1. PICK b : Obeys(c, b)
    BY <1>2
  <2>2. \/ card' = card
        \/ Refuses
        \/ c.cmd = "write16" /\ card' = [card EXCEPT !.st = "writing", !.pend = c.block]
        \/ card' = [card EXCEPT !.st = "auth"]
    BY <2>1 DEF Obeys
  <2>3. CASE Refuses
    BY <1>1, <2>3 DEF Refuses, CardRecord, States
  <2>4. CASE card' = [card EXCEPT !.st = "auth"]
    BY <1>1, <2>4 DEF States
  <2>5. CASE c.cmd = "write16" /\ card' = [card EXCEPT !.st = "writing", !.pend = c.block]
    <3>1. card.kind \in Cards /\ card.acc \in [0..3 -> 0..7] /\ card.sec \in 0..39
      BY DEF CardRecord
    <3>2. card' = [kind |-> card.kind, acc |-> card.acc, st |-> "writing", sec |-> card.sec, pend |-> c.block]
      BY <2>5, ZenonT(60) DEF CardRecord
    <3>3. card' \in CardRecord
      BY <3>1, <3>2 DEF CardRecord, States
    <3> QED BY <2>5, <3>2, <3>3
  <2> QED BY <2>2, <2>3, <2>4, <2>5
<1>3. CASE card' = [card EXCEPT !.st = "idle"]
  <2>1. "idle" \in States /\ "idle" # "writing"
    BY DEF States
  <2> QED BY <1>1, <1>3, <2>1
<1>4. CASE UNCHANGED card
  BY <1>4
<1> QED BY <1>2, <1>3, <1>4, ThreeWays

(* Reading, and the first command of mfcl_write, write nothing. *)
LEMMA NothingWritten ==
    ASSUME NEW c, NEW r, NEW a, Transceive(c, r, a), c.cmd \in {"read", "write16"}
    PROVE  UNCHANGED <<mem, lock>>
<1>1. ASSUME NEW b, Obeys(c, b) PROVE UNCHANGED <<mem, lock>>
  BY <1>1 DEF Obeys, Refuses
<1> QED BY <1>1, ThreeWays

(* The data of mfcl_write goes to the block the card waits for. *)
LEMMA DataWritten ==
    ASSUME NEW c, NEW r, NEW a, Transceive(c, r, a), c.cmd = "data"
    PROVE  /\ lock' = lock
           /\ mem' = mem \/ (card.st = "writing" /\ Stores(card.pend, c.data))
           /\ r = 0 /\ Acked(a) => card.st = "writing" /\ Stores(card.pend, c.data)
<1>1. /\ lock' = lock
      /\ mem' = mem \/ (card.st = "writing" /\ Stores(card.pend, c.data))
  <2>1. ASSUME NEW b, Obeys(c, b)
        PROVE  /\ lock' = lock
               /\ mem' = mem \/ (card.st = "writing" /\ Stores(card.pend, c.data))
    BY <2>1 DEF Obeys, Refuses
  <2> QED BY <2>1, ThreeWays
<1>2. ASSUME r = 0, Acked(a)
      PROVE  card.st = "writing" /\ Stores(card.pend, c.data)
  <2>1. Obeys(c, a)
    BY <1>2 DEF Transceive, Garbled, Acked, Code, ACK, Silent, ETIMEDOUT, EIO
  <2>2. a # Silent /\ a # Code(0)
    BY <1>2 DEF Acked, Code, ACK, Silent
  <2> QED BY <2>1, <2>2 DEF Obeys
<1> QED BY <1>1, <1>2

(* What lock bits the page 2 that rfid_mful_lock_page writes sets. *)
LEMMA LockBits ==
    ASSUME NEW p \in 3..15
    PROVE  {i \in 3..7 : Bit(lock_bytes(p)[1], i) = 1} \cup {i \in 8..15 : Bit(lock_bytes(p)[2], i - 8) = 1}
           = {8} \cap {p}
<1>1. lock_bytes(p) = <<0, IF p = 8 THEN 1 ELSE 0>>
  <2>1. Shift(0) = 1
    BY DEF Shift
  <2>2. CASE p > 8
    BY <2>2 DEF lock_bytes, Shift
  <2>3. CASE p = 8
    BY <2>1, <2>3 DEF lock_bytes
  <2>4. CASE p < 8
    BY <2>4 DEF lock_bytes, Shift
  <2> QED BY <2>2, <2>3, <2>4
<1>2. /\ Bit(0, 0) = 0 /\ Bit(0, 1) = 0 /\ Bit(0, 2) = 0 /\ Bit(0, 3) = 0
      /\ Bit(0, 4) = 0 /\ Bit(0, 5) = 0 /\ Bit(0, 6) = 0 /\ Bit(0, 7) = 0
  BY DEF Bit
<1>3. /\ Bit(1, 0) = 1 /\ Bit(1, 1) = 0 /\ Bit(1, 2) = 0 /\ Bit(1, 3) = 0
      /\ Bit(1, 4) = 0 /\ Bit(1, 5) = 0 /\ Bit(1, 6) = 0 /\ Bit(1, 7) = 0
  BY DEF Bit
<1>4. \A i \in 0..7 : Bit(0, i) = 0 /\ (Bit(1, i) = 1 <=> i = 0)
  BY <1>2, <1>3
<1>5. ASSUME NEW i \in 3..7 PROVE Bit(lock_bytes(p)[1], i) # 1
  BY <1>1, <1>4
<1>6. ASSUME NEW i \in 8..15 PROVE Bit(lock_bytes(p)[2], i - 8) = 1 <=> (i = 8 /\ p = 8)
  <2>1. i - 8 \in 0..7
    OBVIOUS
  <2>2. CASE p = 8
    BY <1>1, <1>4, <2>1, <2>2
  <2>3. CASE p # 8
    BY <1>1, <1>4, <2>1, <2>3
  <2> QED BY <2>2, <2>3
<1>7. {i \in 3..7 : Bit(lock_bytes(p)[1], i) = 1} = {}
  BY <1>5
<1>8. {i \in 8..15 : Bit(lock_bytes(p)[2], i - 8) = 1} = {8} \cap {p}
  <2> DEFINE S == {i \in 8..15 : Bit(lock_bytes(p)[2], i - 8) = 1}
  <2>1. \A i : i \in S <=> (i = 8 /\ p = 8)
    BY <1>6
  <2>2. S = {8} \cap {p}
    <3> HIDE DEF S
    <3> QED BY <2>1
  <2> QED BY <2>2
<1> QED BY <1>7, <1>8

(* The lock bits of a card that has got <<d[1], d[2]>> in page 2. *)
LocksOf(d) == lock \cup {i \in 3..7 : Bit(d[1], i) = 1} \cup {i \in 8..15 : Bit(d[2], i - 8) = 1}

(* What a write that takes effect does. *)
Takes(c) == \/ c.block # 2 /\ Stores(c.block, c.data) /\ lock' = lock
            \/ c.block = 2 /\ lock' = LocksOf(c.data) /\ mem' = mem

(* An Ultralight write changes its page, or sets lock bits, or fails. *)
LEMMA PageWritten ==
    ASSUME NEW c, NEW r, NEW a, Transceive(c, r, a), c.cmd = "write4"
    PROVE  /\ UNCHANGED <<mem, lock>> \/ Takes(c)
           /\ r = 0 /\ Acked(a) => Takes(c)
<1>1. ASSUME NEW b, Obeys(c, b)
      PROVE  (b \in {Silent, Code(0), Data(c.block)} /\ UNCHANGED <<mem, lock>>) \/ Takes(c)
  BY <1>1 DEF Obeys, Refuses, Takes, LocksOf
<1>2. ASSUME r = 0, Acked(a)
      PROVE  Takes(c)
  <2>1. Obeys(c, a)
    BY <1>2 DEF Transceive, Garbled, Acked, Code, ACK, Silent, ETIMEDOUT, EIO
  <2>2. a \notin {Silent, Code(0), Data(c.block)}
    BY <1>2 DEF Acked, Code, ACK, Silent, Data
  <2> QED BY <1>1, <2>1, <2>2
<1> QED BY <1>1, <1>2, ThreeWays

---------------------------------------------------------------------------
(* Types, places and loops.                                                *)

Base == Types /\ Places /\ Loops

(* The fields of an operation. *)
LEMMA OpFields ==
    ASSUME NEW o \in Ops
    PROVE  /\ o.name \in Classic \cup Ultralight /\ o.page \in Nat /\ o.len \in Nat
           /\ o.key \in {"good", "bad"} /\ o # NoOp
           /\ o.name = "ulwrite" => o.page > 3
<1>1. o \in [name : {"dump", "read", "write", "ulread", "ulblank", "ulwrite", "lock"},
             page : Nat, len : Nat, key : {"good", "bad"}]
  BY OpsAssumption
<1>2. o.name # NoOp.name
  BY <1>1 DEF NoOp, None
<1> QED BY <1>1, <1>2, PagesAssumption DEF Classic, Ultralight

(* Initially. *)
LEMMA BaseInit == Init => Base
<1> SUFFICES ASSUME Init PROVE Base
  OBVIOUS
<1>1. op = NoOp /\ at = "none" /\ sector = 0 /\ block = 0 /\ buf.len = 20 /\ rc = 0
      /\ trouble = 0 /\ DOMAIN mem = {} /\ lock = {}
  BY DEF Init, Buffer, Untouched
<1>2. NewCard \in [0..3 -> 0..7]
  BY DEF NewCard
<1>3. card \in CardRecord
  BY <1>2, AccessAssumption DEF Init, CardRecord, States
<1>4. count \in CountRecord /\ count.before = 0
  BY BoundAssumption DEF Init, CountRecord
<1>a. shown \in ShownRecord
  BY DEF Init, NoLine, ShownRecord
<1>5. Types
  BY <1>1, <1>3, <1>4, <1>a, BoundAssumption DEF Types, Labels
<1>6. Places /\ Loops
  BY <1>1 DEF Places, Loops, NoOp, None, Reading, Classic, Ultralight
<1> QED BY <1>5, <1>6 DEF Base

(* What Start does. *)
LEMMA StartIs ==
    ASSUME Base, Start
    PROVE  /\ op' \in Ops
           /\ (card.kind = "ul") <=> (op'.name \in Ultralight)
           /\ at' = IF op'.name \in Classic THEN "key" ELSE IF op'.name = "ulread" THEN "read" ELSE "cmd"
           /\ block' = IF op'.name = "ulread" THEN 0 ELSE IF op'.name = "ulblank" THEN 4 ELSE op'.page
           /\ buf'.len \in {16, 20}
           /\ sector' = 0 /\ rc' = 0 /\ shown' \in ShownRecord /\ shown'.last = -1 /\ shown'.blocks = {}
           /\ old'.mem = mem /\ old'.lock = lock
           /\ count' \in CountRecord /\ count'.before = trouble
           /\ card' \in CardRecord /\ card'.kind = card.kind /\ card'.st = "active" /\ card'.acc = card.acc
           /\ UNCHANGED <<mem, lock, trouble>>
<1>1. PICK o \in Ops :
          /\ (card.kind = "ul") <=> (o.name \in {"ulread", "ulblank", "ulwrite", "lock"})
          /\ op' = o /\ Goto(First(o))
          /\ block' = CASE o.name = "ulread" -> 0 [] o.name = "ulblank" -> 4 [] OTHER -> o.page
          /\ buf' = Buffer(IF o.name = "read" THEN 16 ELSE 20)
  BY Zenon DEF Start
<1>2. First(o) = IF o.name \in Classic THEN "key" ELSE IF o.name = "ulread" THEN "read" ELSE "cmd"
  BY Zenon DEF First, Classic
<1>3. block' = IF o.name = "ulread" THEN 0 ELSE IF o.name = "ulblank" THEN 4 ELSE o.page
  BY Zenon, <1>1
<1>4. buf'.len \in {16, 20}
  BY <1>1 DEF Buffer
<1>5. /\ sector' = 0 /\ rc' = 0 /\ shown' = NoLine /\ count.ops < MaxOps
      /\ old' = [mem |-> mem, lock |-> lock]
      /\ count' = [ops |-> count.ops + 1, before |-> trouble]
      /\ card' = [card EXCEPT !.st = "active", !.sec = 0, !.pend = 0]
      /\ UNCHANGED <<mem, lock, trouble>>
  BY Zenon DEF Start
<1>6. count' \in CountRecord /\ count'.before = trouble
  BY <1>5, BoundAssumption DEF Base, Types, CountRecord
<1>7. card' \in CardRecord /\ card'.kind = card.kind /\ card'.st = "active" /\ card'.acc = card.acc
  <2>1. card \in CardRecord /\ card.kind \in Cards /\ card.acc \in [0..3 -> 0..7]
    BY DEF Base, Types, CardRecord
  <2>2. card' = [kind |-> card.kind, acc |-> card.acc, st |-> "active", sec |-> 0, pend |-> 0]
    BY <1>5, <2>1 DEF CardRecord
  <2> QED BY <2>1, <2>2 DEF CardRecord, States
<1>8. shown' \in ShownRecord /\ shown'.last = -1 /\ shown'.blocks = {} /\ old'.mem = mem /\ old'.lock = lock
  BY <1>5 DEF NoLine, ShownRecord
<1> QED BY <1>1, <1>2, <1>3, <1>4, <1>5, <1>6, <1>7, <1>8 DEF Goto, Ultralight

(* Start. *)
LEMMA BaseStart ==
    ASSUME Base, Start
    PROVE  Base'
<1>1. Types'
  <2>1. op' \in Ops /\ at' \in Labels /\ block' \in Nat
    BY StartIs, OpFields DEF Labels
  <2>2. trouble' \in count'.before..MaxTrouble
    BY StartIs, BoundAssumption DEF Base, Types, CountRecord
  <2>3. /\ sector' \in 0..39 /\ buf'.len \in {1, 16, 20} /\ rc' = 0 /\ card' \in CardRecord
        /\ UNCHANGED <<mem, lock>> /\ count' \in CountRecord /\ shown' \in ShownRecord
    BY StartIs
  <2> QED BY <2>1, <2>2, <2>3 DEF Base, Types
<1>2. Places' /\ Loops'
  BY StartIs, OpFields DEF Places, Loops, Reading, Classic, Ultralight
<1> QED BY <1>1, <1>2 DEF Base

(* What mfcl_auth does: it succeeds, or the operation ends. *)
LEMMA AuthIs ==
    ASSUME Base, mfcl_auth
    PROVE  /\ at = "auth" /\ UNCHANGED <<op, sector, old, count, mem, lock>>
           /\ card' \in CardRecord /\ card'.kind = card.kind /\ card'.acc = card.acc
           /\ card'.st \in {"auth", "idle"} /\ shown' \in ShownRecord
           /\ \/ /\ at' = (IF op.name = "write" THEN "cmd" ELSE "read") /\ rc' = 0
                 /\ card'.st = "auth" /\ card'.sec = SectorOf(AuthBlock) /\ UNCHANGED trouble
                 /\ \/ /\ op.name = "dump" /\ block' = mfcl_sector2block(sector) /\ buf'.len = 20
                       /\ shown'.last = -1 /\ shown'.blocks = shown.blocks
                    \/ op.name # "dump" /\ UNCHANGED <<block, buf, shown>>
              \/ /\ at' = "ended" /\ rc' \in {ETIMEDOUT, EIO, EACCES} /\ UNCHANGED <<block, buf, shown>>
                 /\ \/ trouble < MaxTrouble /\ trouble' = trouble + 1
                    \/ /\ UNCHANGED trouble
                       /\ card.st = "idle" \/ op.key = "bad" \/ AuthBlock >= Blocks(card.kind)
<1>1. /\ at = "auth" /\ UNCHANGED <<mem, lock>>
      /\ \/ /\ card' = [card EXCEPT !.st = "auth", !.sec = SectorOf(AuthBlock)]
            /\ AuthBlock < Blocks(card.kind) /\ rc' = 0
            /\ at' = (IF op.name = "write" THEN "cmd" ELSE "read")
            /\ IF op.name = "dump"
               THEN /\ block' = mfcl_sector2block(sector) /\ buf' = Buffer(20)
                    /\ shown' = [shown EXCEPT !.last = -1]
               ELSE UNCHANGED <<block, buf, shown>>
            /\ UNCHANGED <<op, sector, old, count, trouble>>
         \/ /\ card' = [card EXCEPT !.st = "idle"] /\ at' = "ended" /\ rc' \in {ETIMEDOUT, EIO, EACCES}
            /\ UNCHANGED <<op, sector, block, buf, shown, old, count>>
            /\ \/ trouble < MaxTrouble /\ trouble' = trouble + 1
               \/ /\ UNCHANGED trouble
                  /\ card.st = "idle" \/ op.key = "bad" \/ AuthBlock >= Blocks(card.kind)
  BY DEF mfcl_auth, AuthFails, Ends, Goto, Trouble
<1>2. card \in CardRecord /\ shown \in ShownRecord
  BY DEF Base, Types
<1>3. SectorOf(AuthBlock) \in 0..39
  <2>1. mfcl_sector2block(sector) \in Int /\ op.page \in Int
    <3>1. mfcl_sector2block(sector) \in Nat \cup {EINVAL}
      BY FirstBlocks DEF Base, Types
    <3>2. op.page \in Nat
      BY OpFields DEF Base, Types, NoOp
    <3> QED BY <3>1, <3>2 DEF EINVAL
  <2>2. AuthBlock \in 0..255
    BY <2>1 DEF AuthBlock
  <2> QED BY <2>2, BlockNumbers
<1>4. CASE card' = [card EXCEPT !.st = "idle"] /\ at' = "ended" /\ UNCHANGED shown
  BY <1>1, <1>2, <1>4 DEF CardRecord, States
<1>5. CASE /\ card' = [card EXCEPT !.st = "auth", !.sec = SectorOf(AuthBlock)]
           /\ rc' = 0
  <2>1. /\ card' \in CardRecord /\ card'.kind = card.kind /\ card'.acc = card.acc
        /\ card'.st = "auth" /\ card'.sec = SectorOf(AuthBlock)
    <3>1. card.kind \in Cards /\ card.acc \in [0..3 -> 0..7] /\ card.pend \in 0..255
      BY <1>2 DEF CardRecord
    <3>2. card' = [kind |-> card.kind, acc |-> card.acc, st |-> "auth", sec |-> SectorOf(AuthBlock),
                   pend |-> card.pend]
      BY <1>2, <1>5 DEF CardRecord
    <3>3. card' \in CardRecord
      BY <1>3, <3>1, <3>2 DEF CardRecord, States
    <3> QED BY <3>2, <3>3
  <2>2. /\ at' = (IF op.name = "write" THEN "cmd" ELSE "read")
        /\ IF op.name = "dump"
           THEN /\ block' = mfcl_sector2block(sector) /\ buf' = Buffer(20)
                /\ shown' = [shown EXCEPT !.last = -1]
           ELSE UNCHANGED <<block, buf, shown>>
        /\ UNCHANGED <<op, sector, old, count, trouble>>
    BY <1>1, <1>5 DEF ETIMEDOUT, EIO, EACCES
  <2>3. CASE op.name = "dump"
    <3>1. buf'.len = 20
      BY <2>2, <2>3 DEF Buffer
    <3>2. shown' \in ShownRecord /\ shown'.last = -1 /\ shown'.blocks = shown.blocks
      BY <1>2, <2>2, <2>3 DEF ShownRecord
    <3> QED BY <1>1, <1>5, <2>1, <2>2, <2>3, <3>1, <3>2
  <2>4. CASE op.name # "dump"
    BY <1>1, <1>2, <1>5, <2>1, <2>2, <2>4
  <2> QED BY <2>3, <2>4
<1> QED BY <1>1, <1>4, <1>5

(* mfcl_set_key and mfcl_auth. *)
LEMMA BaseAuth ==
    ASSUME Base, mfcl_set_key \/ mfcl_auth
    PROVE  Base'
<1>1. CASE mfcl_set_key
  <2>1. /\ at = "key" /\ UNCHANGED <<op, sector, block, buf, shown, old, count, card, mem, lock>>
        /\ (at' = "auth" /\ rc' = 0) \/ (at' = "ended" /\ rc' = EIO)
        /\ trouble' = trouble \/ (trouble < MaxTrouble /\ trouble' = trouble + 1)
    BY <1>1 DEF mfcl_set_key, AuthFails, Ends, Goto, Trouble
  <2>2. Types'
    BY <2>1, BoundAssumption DEF Base, Types, Labels, CountRecord
  <2>3. Places' /\ Loops'
    BY <2>1 DEF Base, Places, Loops
  <2> QED BY <2>2, <2>3 DEF Base
<1>2. CASE mfcl_auth
  <2>0. /\ at = "auth" /\ op \in Ops /\ op.name \in Classic /\ op # NoOp
        /\ at' \in {"cmd", "read", "ended"}
    BY <1>2, AuthIs, OpFields DEF Base, Types, Places
  <2>1. \/ at' # "ended" /\ op.name = "dump" /\ block' = mfcl_sector2block(sector) /\ buf'.len = 20
        \/ (at' = "ended" \/ op.name # "dump") /\ UNCHANGED <<block, buf>>
    BY <1>2, AuthIs
  <2>2. sector \in 0..39 /\ mfcl_sector2block(sector) \in Nat \cup {EINVAL}
    BY FirstBlocks DEF Base, Types
  <2>3. Types'
    <3>1. block' \in Nat \cup {EINVAL} /\ buf'.len \in {1, 16, 20}
      BY <2>1, <2>2 DEF Base, Types
    <3>2. rc' \in {0, EIO, ETIMEDOUT, EACCES}
      BY <1>2, AuthIs
    <3>3. trouble' \in count'.before..MaxTrouble
      BY <1>2, AuthIs, BoundAssumption DEF Base, Types, CountRecord
    <3>4. card' \in CardRecord /\ shown' \in ShownRecord /\ UNCHANGED <<op, sector, count, mem, lock>>
      BY <1>2, AuthIs
    <3> QED BY <2>0, <3>1, <3>2, <3>3, <3>4 DEF Base, Types, Labels
  <2>4. Places'
    BY <1>2, <2>0, AuthIs DEF Base, Places, Classic, Reading
  <2>5. Loops'
    <3>1. UNCHANGED <<op, sector>>
      BY <1>2, AuthIs
    <3>2. CASE op.name = "dump" /\ block' = mfcl_sector2block(sector)
      BY <2>2, <3>1, <3>2, FirstBlocks DEF Loops
    <3>3. CASE (at' = "ended" \/ op.name # "dump") /\ UNCHANGED block
      BY <3>1, <3>3 DEF Base, Loops
    <3> QED BY <2>1, <3>2, <3>3
  <2> QED BY <2>3, <2>4, <2>5 DEF Base
<1> QED BY <1>1, <1>2

(* What rfid_protocol_read does: it fails, or a line is printed and the    *)
(* loop goes on.                                                           *)
LEMMA ReadIs ==
    ASSUME Base, rfid_protocol_read
    PROVE  /\ at = "read" /\ (op.name = "dump" => sector < 36) /\ UNCHANGED <<op, old, count, mem, lock>>
           /\ card' \in CardRecord /\ card'.kind = card.kind /\ card'.acc = card.acc
           /\ card'.sec = card.sec /\ (card.st # "writing" => card'.st # "writing")
           /\ trouble' = trouble \/ (trouble < MaxTrouble /\ trouble' = trouble + 1)
           /\ \/ /\ at' = (IF op.name = "dump" THEN "next" ELSE "ended") 
                 /\ rc' \in {EINVAL, ETIMEDOUT, EIO, EPERM}
                 /\ UNCHANGED <<sector, block, buf, shown>>
              \/ /\ block \in 0..255 /\ rc' = 0
                 /\ shown' = [last |-> block, blocks |-> shown.blocks \cup {block}]
                 /\ NextRead
                 /\ \E a \in Answers([cmd |-> "read", block |-> block]) :
                       /\ Transceive([cmd |-> "read", block |-> block], 0, a)
                       /\ ReadResult(a) = 0 /\ buf' = Filled(a)
<1> DEFINE c == [cmd |-> "read", block |-> block % 256]
<1>1. at = "read" /\ (op.name = "dump" => mfcl_sector2block(sector) >= 0)
  BY DEF rfid_protocol_read
<1>2. op.name = "dump" => sector < 36
  BY <1>1, BlockNumbers DEF Base, Types, EINVAL
<1>3. block \in Nat
  <2>1. op \in Ops /\ op.name \in Reading
    BY <1>1 DEF Base, Types, Places
  <2>2. CASE op.name = "dump"
    <3>1. sector \in 0..35 /\ mfcl_sector2block(sector) \in 0..191
      BY <1>2, <2>2, FirstBlocks DEF Base, Types
    <3>2. mfcl_sector_blocks(sector) \in {4, 16}
      BY <3>1, BlockNumbers
    <3> QED BY <1>1, <2>2, <3>1, <3>2 DEF Base, Loops
  <2>3. CASE op.name # "dump"
    BY <2>1, <2>3, OpFields DEF Base, Loops, Reading
  <2> QED BY <2>2, <2>3
<1>4. CASE block > PageMax /\ ReadFails(EINVAL) /\ UNCHANGED <<card, mem, lock, trouble>>
  BY <1>1, <1>2, <1>4 DEF ReadFails, Goto, Base, Types
<1>5. CASE block <= PageMax /\ \E r \in {0, ETIMEDOUT, EIO}, a \in Answers(c) :
             /\ Transceive(c, r, a)
             /\ IF r < 0 \/ ReadResult(a) < 0
                THEN ReadFails(IF r < 0 THEN r ELSE ReadResult(a))
                ELSE /\ buf' = Filled(a) /\ rc' = 0 /\ Printed(block) /\ NextRead
                     /\ UNCHANGED <<op, old, count>>
  <2>0. PICK r \in {0, ETIMEDOUT, EIO}, a \in Answers(c) :
             /\ Transceive(c, r, a)
             /\ IF r < 0 \/ ReadResult(a) < 0
                THEN ReadFails(IF r < 0 THEN r ELSE ReadResult(a))
                ELSE /\ buf' = Filled(a) /\ rc' = 0 /\ Printed(block) /\ NextRead
                     /\ UNCHANGED <<op, old, count>>
    BY <1>5, Zenon
  <2>1. block \in 0..255 /\ block % 256 = block
    BY <1>3, <1>5 DEF PageMax, MFUL_PAGE_MAX, MFCL_PAGE_MAX
  <2>2. c = [cmd |-> "read", block |-> block]
    BY <2>1
  <2>3. c.cmd = "read" /\ c.block \in 0..255
    BY <2>1, <2>2
  <2> HIDE DEF c
  <2>4. card \in CardRecord /\ trouble \in Nat
    BY BoundAssumption DEF Base, Types, CountRecord
  <2>5. UNCHANGED <<mem, lock>>
    BY <2>0, <2>3, NothingWritten
  <2>6. /\ card' \in CardRecord /\ card'.kind = card.kind /\ card'.acc = card.acc
        /\ card'.sec = card.sec /\ (card.st # "writing" => card'.st # "writing")
    BY <2>0, <2>3, <2>4, CardEffect
  <2>7. trouble' = trouble \/ (trouble < MaxTrouble /\ trouble' = trouble + 1)
    BY <2>0, <2>4, TroubleCounted
  <2>8. ReadResult(a) \in {EPERM, 0}
    BY DEF ReadResult
  <2>9. CASE r < 0 \/ ReadResult(a) < 0
    <3>1. ReadFails(IF r < 0 THEN r ELSE ReadResult(a))
      BY <2>0, <2>9
    <3>2. (IF r < 0 THEN r ELSE ReadResult(a)) \in {EINVAL, ETIMEDOUT, EIO, EPERM}
      BY <2>8, <2>9 DEF EPERM, EIO, ETIMEDOUT
    <3> QED BY <1>1, <1>2, <2>5, <2>6, <2>7, <3>1, <3>2 DEF ReadFails, Goto
  <2>10. CASE ~(r < 0 \/ ReadResult(a) < 0)
    <3>1. r = 0 /\ ReadResult(a) = 0
      BY <2>8, <2>10 DEF EPERM, EIO, ETIMEDOUT
    <3>2. /\ buf' = Filled(a) /\ rc' = 0 /\ Printed(block) /\ NextRead
          /\ UNCHANGED <<op, old, count>>
      BY <2>0, <2>10
    <3> QED BY <1>1, <1>2, <2>0, <2>1, <2>2, <2>5, <2>6, <2>7, <3>1, <3>2 DEF Printed
  <2> QED BY <2>9, <2>10
<1>6. \/ block > PageMax /\ ReadFails(EINVAL) /\ UNCHANGED <<card, mem, lock, trouble>>
      \/ block <= PageMax /\ \E r \in {0, ETIMEDOUT, EIO}, a \in Answers(c) :
             /\ Transceive(c, r, a)
             /\ IF r < 0 \/ ReadResult(a) < 0
                THEN ReadFails(IF r < 0 THEN r ELSE ReadResult(a))
                ELSE /\ buf' = Filled(a) /\ rc' = 0 /\ Printed(block) /\ NextRead
                     /\ UNCHANGED <<op, old, count>>
  BY Zenon DEF rfid_protocol_read
<1> QED BY <1>4, <1>5, <1>6

(* What remains of the loops after a read. *)
LEMMA NextReadIs ==
    ASSUME Base, NextRead, at = "read", op.name = "dump" => sector < 36
    PROVE  /\ UNCHANGED sector
           /\ \/ op.name \in {"read", "ulread"} /\ at' = "ended" /\ UNCHANGED block
              \/ op.name = "ulread" /\ block < MFUL_PAGE_MAX /\ at' = "read" /\ block' = block + 1
              \/ /\ op.name = "dump" /\ at' = "read" /\ block' = block + 1
                 /\ block + 1 < mfcl_sector2block(sector) + mfcl_sector_blocks(sector)
              \/ /\ op.name = "dump" /\ at' = "next" /\ UNCHANGED block
                 /\ block + 1 = mfcl_sector2block(sector) + mfcl_sector_blocks(sector)
<1>1. op.name \in Reading
  BY DEF Base, Places
<1>2. CASE op.name = "read"
  BY <1>2, Zenon DEF NextRead, Goto
<1>3. CASE op.name = "ulread"
  BY <1>3, Zenon DEF NextRead, Goto
<1>4. CASE op.name = "dump"
  <2>1. IF block + 1 < mfcl_sector2block(sector) + mfcl_sector_blocks(sector)
        THEN block' = block + 1 /\ at' = "read" /\ UNCHANGED sector
        ELSE at' = "next" /\ UNCHANGED <<sector, block>>
    BY <1>4, Zenon DEF NextRead, Goto
  <2>2. sector \in 0..35
    BY <1>4 DEF Base, Types
  <2>3. mfcl_sector2block(sector) \in 0..191 /\ mfcl_sector_blocks(sector) \in {4, 16}
    BY <2>2, BlockNumbers
  <2>4. block \in mfcl_sector2block(sector)..(mfcl_sector2block(sector) + mfcl_sector_blocks(sector) - 1)
    BY <1>4 DEF Base, Loops
  <2> QED BY <1>4, <2>1, <2>3, <2>4
<1> QED BY <1>1, <1>2, <1>3, <1>4 DEF Reading

(* How long the buffer's content is after a read: the answer is cut to the *)
(* length of the one before.                                               *)
LEMMA FilledIs ==
    ASSUME NEW c, NEW a \in Answers(c), a # Silent, buf.len \in {1, 16, 20}
    PROVE  /\ Filled(a).len \in {1, 16}
           /\ Filled(a).len = 1 => buf.len = 1 \/ a.n = 1
           /\ Filled(a).len > 1 => Filled(a).head = a.data /\ Filled(a).rest = a.data /\ a = Data(c.block)
<1>1. \/ a = Data(c.block) /\ a.n = 16
      \/ a # Data(c.block) /\ a.n = 1
  BY DEF Answers, Data, Code
<1> QED BY <1>1 DEF Filled

(* A success has an answer. *)
LEMMA SuccessAnswers ==
    ASSUME NEW c, NEW a, Transceive(c, 0, a)
    PROVE  a # Silent /\ ((Obeys(c, a) /\ UNCHANGED trouble) \/ (a = Code(1) /\ Trouble))
BY DEF Transceive, Result, Garbled, ETIMEDOUT, EIO

(* rfid_protocol_read. *)
LEMMA BaseRead ==
    ASSUME Base, rfid_protocol_read
    PROVE  Base'
<1>1. /\ op \in Ops /\ op.name \in Reading /\ op # NoOp /\ at = "read" /\ UNCHANGED <<op, mem, lock, count>>
      /\ card' \in CardRecord /\ card'.kind = card.kind
  BY ReadIs, OpFields DEF Base, Types, Places
<1>2. trouble' \in count'.before..MaxTrouble
  BY ReadIs, BoundAssumption DEF Base, Types, CountRecord
<1>3. CASE /\ at' = (IF op.name = "dump" THEN "next" ELSE "ended")
           /\ rc' \in {EINVAL, ETIMEDOUT, EIO, EPERM} /\ UNCHANGED <<sector, block, buf, shown>>
  <2>1. Types'
    BY <1>1, <1>2, <1>3 DEF Base, Types, Labels
  <2>2. Places' /\ Loops'
    BY <1>1, <1>3 DEF Base, Places, Loops, Reading
  <2> QED BY <2>1, <2>2 DEF Base
<1>4. CASE /\ block \in 0..255 /\ rc' = 0
           /\ shown' = [last |-> block, blocks |-> shown.blocks \cup {block}]
           /\ NextRead
           /\ \E a \in Answers([cmd |-> "read", block |-> block]) :
                 /\ Transceive([cmd |-> "read", block |-> block], 0, a)
                 /\ ReadResult(a) = 0 /\ buf' = Filled(a)
  <2>1. buf'.len \in {1, 16, 20}
    BY <1>4, SuccessAnswers, FilledIs DEF Base, Types
  <2>2. shown' \in ShownRecord
    BY <1>4 DEF Base, Types, ShownRecord
  <2>3. /\ UNCHANGED sector
        /\ \/ op.name \in {"read", "ulread"} /\ at' = "ended" /\ UNCHANGED block
           \/ op.name = "ulread" /\ block < MFUL_PAGE_MAX /\ at' = "read" /\ block' = block + 1
           \/ /\ op.name = "dump" /\ at' = "read" /\ block' = block + 1
              /\ block + 1 < mfcl_sector2block(sector) + mfcl_sector_blocks(sector)
           \/ /\ op.name = "dump" /\ at' = "next" /\ UNCHANGED block
              /\ block + 1 = mfcl_sector2block(sector) + mfcl_sector_blocks(sector)
    BY <1>1, <1>4, ReadIs, NextReadIs
  <2>4. Types'
    BY <1>1, <1>2, <1>4, <2>1, <2>2, <2>3 DEF Base, Types, Labels
  <2>5. Places'
    BY <1>1, <2>3 DEF Base, Places, Reading
  <2>6. Loops'
    <3>1. op.name = "dump" => sector \in 0..35
      BY ReadIs DEF Base, Types
    <3>2. op.name = "dump" => mfcl_sector2block(sector) \in 0..191 /\ mfcl_sector_blocks(sector) \in {4, 16}
      BY <3>1, BlockNumbers
    <3> QED BY <1>1, <1>4, <2>3, <3>2 DEF Base, Loops, MFUL_PAGE_MAX
  <2> QED BY <2>4, <2>5, <2>6 DEF Base
<1> QED BY <1>3, <1>4, ReadIs

(* The other steps of a dump. *)
LEMMA BaseDump ==
    ASSUME Base, NoSuchSector \/ mifare_classic_dump
    PROVE  Base'
<1>1. CASE NoSuchSector
  <2>1. /\ at = "read" /\ op.name = "dump" /\ at' = "next" /\ rc' = EINVAL
        /\ UNCHANGED <<op, sector, block, buf, shown, old, count, card, mem, lock, trouble>>
    BY <1>1 DEF NoSuchSector, ReadFails, Goto
  <2>2. Types' /\ Places' /\ Loops'
    BY <2>1 DEF Base, Types, Labels, Places, Loops, NoOp, None
  <2> QED BY <2>2 DEF Base
<1>2. CASE mifare_classic_dump
  <2>1. /\ at = "next"
        /\ \/ sector + 1 < num_sectors(card.kind) /\ sector' = sector + 1 /\ at' = "key"
           \/ at' = "ended" /\ UNCHANGED sector
        /\ UNCHANGED <<op, block, buf, rc, shown, old, count, card, mem, lock, trouble>>
    BY <1>2 DEF mifare_classic_dump, Goto
  <2>2. op.name = "dump" /\ card.kind \in Cards /\ card.kind # "ul"
    BY <2>1 DEF Base, Types, Places, CardRecord, Ultralight
  <2>3. num_sectors(card.kind) \in {5, 16, 40}
    BY <2>2, BlockNumbers
  <2>4. Types'
    BY <2>1, <2>3 DEF Base, Types, Labels
  <2>5. Places' /\ Loops'
    BY <2>1, <2>2 DEF Base, Places, Loops, Classic, NoOp, None
  <2> QED BY <2>4, <2>5 DEF Base
<1> QED BY <1>1, <1>2

(* What an exchange of a write does to the card and the counters. *)
LEMMA ExchangeIs ==
    ASSUME Base, NEW c, NEW r, NEW a, Transceive(c, r, a), c.block \in 0..255
    PROVE  /\ card' \in CardRecord /\ card'.kind = card.kind /\ card'.acc = card.acc
           /\ card'.st = "writing" =>
                \/ card.st = "writing" /\ card'.pend = card.pend
                \/ c.cmd = "write16" /\ card'.pend = c.block
           /\ trouble' = trouble \/ (trouble < MaxTrouble /\ trouble' = trouble + 1)
<1>1. card \in CardRecord /\ trouble \in Nat
  BY BoundAssumption DEF Base, Types, CountRecord
<1> QED BY <1>1, CardEffect, TroubleCounted

(* What the first exchange of mfcl_write does. *)
LEMMA WriteCmdIs ==
    ASSUME Base, mfcl_write_cmd
    PROVE  /\ at = "cmd" /\ op \in Ops /\ op.name = "write" /\ op.page <= MFCL_PAGE_MAX
           /\ UNCHANGED <<op, sector, block, buf, shown, old, count, mem, lock>>
           /\ (at' = "data" /\ UNCHANGED rc) \/ (at' = "ended" /\ rc' \in {ETIMEDOUT, EIO})
           /\ card' \in CardRecord /\ card'.kind = card.kind /\ card'.acc = card.acc
           /\ card'.st = "writing" => card.st = "writing" \/ card'.pend = op.page
           /\ trouble' = trouble \/ (trouble < MaxTrouble /\ trouble' = trouble + 1)
<1> DEFINE c == [cmd |-> "write16", block |-> block % 256]
<1>1. at = "cmd" /\ op.name = "write" /\ ~Refused
  BY DEF mfcl_write_cmd
<1>2. PICK r \in {0, ETIMEDOUT, EIO}, a \in Answers(c) :
          /\ Transceive(c, r, a)
          /\ IF r < 0 THEN WriteReturns(r)
             ELSE Goto("data") /\ UNCHANGED <<op, sector, block, buf, rc, shown, old, count>>
  BY Zenon DEF mfcl_write_cmd
<1>3. op \in Ops /\ op.page \in Nat /\ op.page <= MFCL_PAGE_MAX /\ block = op.page
  <2>1. op \in Ops
    BY <1>1 DEF Base, Types, NoOp, None
  <2> QED BY <1>1, <2>1, OpFields DEF Base, Loops, Refused, MFCL_PAGE_MAX
<1>4. c = [cmd |-> "write16", block |-> op.page]
  BY <1>3 DEF MFCL_PAGE_MAX
<1>5. c.cmd = "write16" /\ c.block = op.page /\ c.block \in 0..255
  BY <1>3, <1>4 DEF MFCL_PAGE_MAX
<1> HIDE DEF c
<1>6. UNCHANGED <<mem, lock>>
  BY <1>2, <1>5, NothingWritten
<1>7. /\ UNCHANGED <<op, sector, block, buf, shown, old, count>>
      /\ (at' = "data" /\ UNCHANGED rc) \/ (at' = "ended" /\ rc' \in {ETIMEDOUT, EIO})
  BY <1>1, <1>2 DEF WriteReturns, Goto, ETIMEDOUT, EIO
<1> QED BY <1>1, <1>2, <1>3, <1>5, <1>6, <1>7, ExchangeIs

(* What the second one does. *)
LEMMA WriteDataIs ==
    ASSUME Base, mfcl_write_data
    PROVE  /\ at = "data" /\ at' = "ended" /\ op \in Ops /\ op.name = "write" /\ op.page \in 0..255
           /\ UNCHANGED <<op, sector, block, buf, shown, old, count, lock>>
           /\ rc' \in {0, ETIMEDOUT, EIO}
           /\ mem' = mem \/ (card.st = "writing" /\ Stores(card.pend, Payload))
           /\ rc' = 0 => card.st = "writing" /\ Stores(card.pend, Payload)
           /\ card' \in CardRecord /\ card'.kind = card.kind /\ card'.acc = card.acc
           /\ trouble' = trouble \/ (trouble < MaxTrouble /\ trouble' = trouble + 1)
<1> DEFINE c == [cmd |-> "data", block |-> block, data |-> Payload]
<1>1. at = "data"
  BY DEF mfcl_write_data
<1>2. PICK r \in {0, ETIMEDOUT, EIO}, a \in Answers(c) :
          /\ Transceive(c, r, a)
          /\ WriteReturns(IF r < 0 THEN r ELSE IF Acked(a) THEN 0 ELSE EIO)
  BY Zenon DEF mfcl_write_data
<1>3. op \in Ops /\ op.name = "write" /\ op.page \in 0..255 /\ block = op.page
  <2>1. op \in Ops
    BY <1>1 DEF Base, Types, Places, NoOp, None
  <2> QED BY <1>1, <2>1, OpFields DEF Base, Places, Loops, MFCL_PAGE_MAX
<1>4. c.cmd = "data" /\ c.block \in 0..255 /\ c.data = Payload
  BY <1>3
<1> HIDE DEF c
<1>5. /\ lock' = lock
      /\ mem' = mem \/ (card.st = "writing" /\ Stores(card.pend, Payload))
      /\ r = 0 /\ Acked(a) => card.st = "writing" /\ Stores(card.pend, Payload)
  BY <1>2, <1>4, DataWritten
<1>6. /\ UNCHANGED <<op, sector, block, buf, shown, old, count>> /\ at' = "ended"
      /\ rc' = IF r < 0 THEN r ELSE IF Acked(a) THEN 0 ELSE EIO
  BY <1>2, <1>3 DEF WriteReturns, Goto
<1>7. rc' \in {0, ETIMEDOUT, EIO} /\ (rc' = 0 => r = 0 /\ Acked(a))
  BY <1>6 DEF ETIMEDOUT, EIO
<1> QED BY <1>1, <1>2, <1>3, <1>4, <1>5, <1>6, <1>7, ExchangeIs

(* What an Ultralight write that takes effect does. *)
Effect ==
    \/ op.name = "lock" /\ mem' = mem /\ lock' = lock \cup ({8} \cap {op.page})
    \/ op.name # "lock" /\ lock' = lock /\ Stores(block, Payload)

(* What mful_write, or rfid_mful_lock_page, does. *)
LEMMA UlWriteIs ==
    ASSUME Base, mful_write
    PROVE  /\ at = "cmd" /\ op \in Ops /\ op.name \in {"ulblank", "ulwrite", "lock"} 
           /\ op.name # "lock" => block \in 4..15
           /\ UNCHANGED <<op, sector, buf, shown, old, count>>
           /\ rc' \in {0, ETIMEDOUT, EIO}
           /\ UNCHANGED <<mem, lock>> \/ Effect
           /\ rc' = 0 => Effect
           /\ \/ op.name = "ulblank" /\ rc' = 0 /\ block < MFUL_PAGE_MAX /\ block' = block + 1 /\ at' = "cmd"
              \/ /\ op.name = "ulblank" /\ rc' = 0 => block = MFUL_PAGE_MAX
                 /\ at' = "ended" /\ UNCHANGED block
           /\ card' \in CardRecord /\ card'.kind = card.kind /\ card'.acc = card.acc
           /\ card'.st = "writing" => card.st = "writing"
           /\ trouble' = trouble \/ (trouble < MaxTrouble /\ trouble' = trouble + 1)
<1> DEFINE c == [cmd |-> "write4", block |-> Target, data |-> Payload]
<1>1. at = "cmd" /\ card.kind = "ul" /\ ~Refused
  BY DEF mful_write
<1>2. PICK r \in {0, ETIMEDOUT, EIO}, a \in Answers(c) :
          /\ Transceive(c, r, a)
          /\ WriteReturns(IF r < 0 THEN r ELSE IF Acked(a) THEN 0 ELSE EIO)
  BY Zenon DEF mful_write
<1>3. op \in Ops /\ op.name \in {"ulblank", "ulwrite", "lock"} /\ op.page \in Nat
  <2>1. op.name \in {"ulblank", "ulwrite", "lock"} /\ op # NoOp
    BY <1>1 DEF Base, Places, Ultralight
  <2>2. op \in Ops
    BY <2>1 DEF Base, Types
  <2> QED BY <2>1, <2>2, OpFields
<1>4. op.name # "lock" => block \in 4..15
  <2>1. CASE op.name = "ulblank"
    BY <2>1 DEF Base, Loops
  <2>2. CASE op.name = "ulwrite"
    <3>1. block = op.page /\ op.page <= 15
      BY <1>1, <1>3, <2>2 DEF Base, Loops, Refused, MFUL_PAGE_MAX
    <3>2. op.page > 3
      BY <1>3, <2>2, OpFields
    <3> QED BY <1>3, <3>1, <3>2
  <2> QED BY <1>3, <2>1, <2>2
<1>5. c.cmd = "write4" /\ c.block = Target /\ c.data = Payload /\ Target \in 0..255
  BY <1>4 DEF Target
<1> HIDE DEF c
<1>6. Takes(c) => Effect
  <2> SUFFICES ASSUME Takes(c) PROVE Effect
    OBVIOUS
  <2>1. CASE op.name = "lock"
    <3>1. Target = 2 /\ op.page \in 3..15
      BY <1>1, <2>1 DEF Target, Refused
    <3>2. Payload = lock_bytes(op.page)
      BY <2>1, Zenon DEF Payload
    <3>3. mem' = mem /\ lock' = LocksOf(lock_bytes(op.page))
      BY <1>5, <3>1, <3>2 DEF Takes
    <3>4. LocksOf(lock_bytes(op.page)) = lock \cup ({8} \cap {op.page})
      BY <3>1, LockBits DEF LocksOf
    <3> QED BY <2>1, <3>3, <3>4 DEF Effect
  <2>2. CASE op.name # "lock"
    BY <1>4, <1>5, <2>2 DEF Takes, Target, Effect
  <2> QED BY <2>1, <2>2
<1>7. /\ UNCHANGED <<mem, lock>> \/ Effect
      /\ r = 0 /\ Acked(a) => Effect
  BY <1>2, <1>5, <1>6, PageWritten
<1>8. PICK res \in {0, ETIMEDOUT, EIO} : res = (IF r < 0 THEN r ELSE IF Acked(a) THEN 0 ELSE EIO)
  OBVIOUS
<1>9. /\ rc' = res /\ UNCHANGED <<op, sector, buf, shown, old, count>>
      /\ \/ op.name = "ulblank" /\ res >= 0 /\ block < MFUL_PAGE_MAX /\ block' = block + 1 /\ at' = "cmd"
         \/ /\ ~(op.name = "ulblank" /\ res >= 0 /\ block < MFUL_PAGE_MAX)
            /\ at' = "ended" /\ UNCHANGED block
  BY <1>2, <1>8 DEF WriteReturns, Goto
<1>10. /\ \/ op.name = "ulblank" /\ rc' = 0 /\ block < MFUL_PAGE_MAX /\ block' = block + 1 /\ at' = "cmd"
          \/ /\ op.name = "ulblank" /\ rc' = 0 => block = MFUL_PAGE_MAX
             /\ at' = "ended" /\ UNCHANGED block
       /\ rc' \in {0, ETIMEDOUT, EIO} /\ (rc' = 0 => r = 0 /\ Acked(a))
  BY <1>4, <1>8, <1>9 DEF ETIMEDOUT, EIO, MFUL_PAGE_MAX
<1>11. /\ card' \in CardRecord /\ card'.kind = card.kind /\ card'.acc = card.acc
       /\ card'.st = "writing" => card.st = "writing"
       /\ trouble' = trouble \/ (trouble < MaxTrouble /\ trouble' = trouble + 1)
  BY <1>2, <1>5, ExchangeIs
<1> QED BY <1>1, <1>3, <1>4, <1>7, <1>9, <1>10, <1>11

(* The writes. *)
LEMMA BaseWrite ==
    ASSUME Base, write_refused \/ mfcl_write_cmd \/ mfcl_write_data \/ mful_write
    PROVE  Base'
<1>1. CASE write_refused
  <2>1. /\ at = "cmd" /\ at' = "ended" /\ rc' = EINVAL
        /\ UNCHANGED <<op, sector, block, buf, shown, old, count, card, mem, lock, trouble>>
    BY <1>1 DEF write_refused, Ends, Goto
  <2>2. Types' /\ Places' /\ Loops'
    BY <2>1 DEF Base, Types, Labels, Places, Loops
  <2> QED BY <2>2 DEF Base
<1>2. ASSUME trouble' = trouble \/ (trouble < MaxTrouble /\ trouble' = trouble + 1), UNCHANGED count
      PROVE  trouble' \in count'.before..MaxTrouble
  BY <1>2, BoundAssumption DEF Base, Types, CountRecord
<1>3. CASE mfcl_write_cmd
  <2>1. Types'
    <3>1. trouble' \in count'.before..MaxTrouble
      BY <1>2, <1>3, WriteCmdIs
    <3>2. /\ UNCHANGED <<op, sector, block, buf, shown, count, mem, lock>> /\ card' \in CardRecord
          /\ at' \in {"data", "ended"} /\ rc' \in {rc, ETIMEDOUT, EIO}
      BY <1>3, WriteCmdIs
    <3> QED BY <3>1, <3>2 DEF Base, Types, Labels
  <2>2. Places' /\ Loops'
    BY <1>3, WriteCmdIs DEF Base, Places, Loops
  <2> QED BY <2>1, <2>2 DEF Base
<1>4. CASE mfcl_write_data
  <2>1. DOMAIN mem' \subseteq 0..255
    <3>1. card.pend \in 0..255 /\ DOMAIN mem \subseteq 0..255
      BY DEF Base, Types, CardRecord
    <3> QED BY <1>4, <3>1, WriteDataIs DEF Stores
  <2>2. Types'
    <3>1. trouble' \in count'.before..MaxTrouble
      BY <1>2, <1>4, WriteDataIs
    <3>2. /\ UNCHANGED <<op, sector, block, buf, shown, count, lock>> /\ card' \in CardRecord
          /\ at' = "ended" /\ rc' \in {0, ETIMEDOUT, EIO}
      BY <1>4, WriteDataIs
    <3> QED BY <2>1, <3>1, <3>2 DEF Base, Types, Labels
  <2>3. Places' /\ Loops'
    BY <1>4, WriteDataIs DEF Base, Places, Loops
  <2> QED BY <2>2, <2>3 DEF Base
<1>5. CASE mful_write
  <2>1. DOMAIN mem' \subseteq 0..255 /\ lock' \subseteq 0..15
    <3>1. lock \subseteq 0..15 /\ DOMAIN mem \subseteq 0..255
      BY DEF Base, Types
    <3> QED BY <1>5, <3>1, UlWriteIs DEF Stores, Effect
  <2>2. block' \in Nat \cup {EINVAL} /\ at' \in Labels
    BY <1>5, UlWriteIs DEF Base, Types, Labels
  <2>3. Types'
    BY <1>2, <1>5, <2>1, <2>2, UlWriteIs DEF Base, Types
  <2>4. Places'
    BY <1>5, UlWriteIs DEF Base, Places
  <2>5. Loops'
    BY <1>5, UlWriteIs DEF Base, Loops, MFUL_PAGE_MAX
  <2> QED BY <2>3, <2>4, <2>5 DEF Base
<1> QED BY <1>1, <1>3, <1>4, <1>5

(* Every step. *)
LEMMA BaseStep == Base /\ [Next]_vars => Base'
<1> SUFFICES ASSUME Base, [Next]_vars PROVE Base'
  OBVIOUS
<1>1. CASE Next
  BY <1>1, BaseStart, BaseAuth, BaseRead, BaseDump, BaseWrite DEF Next
<1>2. CASE UNCHANGED vars
  BY <1>2 DEF vars, local, Base, Types, Places, Loops
<1> QED BY <1>1, <1>2

(* TypeOK holds for every set of cards, of access conditions and of        *)
(* operations: the numbers of blocks and sectors stay in range through     *)
(* the loops of the tools, and no answer leaves the buffer another length  *)
(* than the 1 or 16 bytes of an answer.                                    *)
THEOREM TypeCorrect == Spec => []TypeOK
<1>1. Base => TypeOK
  <2> SUFFICES ASSUME Base PROVE TypeOK
    OBVIOUS
  <2>1. /\ card.st \in States /\ card.kind \in Cards /\ card.sec \in 0..39 /\ card.pend \in 0..255
        /\ count.ops \in 0..MaxOps /\ count.before \in Nat
    BY DEF Base, Types, CardRecord, CountRecord
  <2>2. trouble \in 0..MaxTrouble
    BY <2>1, BoundAssumption DEF Base, Types
  <2> QED BY <2>1, <2>2 DEF Base, Types, TypeOK, Labels, States
<1> QED BY <1>1, BaseInit, BaseStep, PTL DEF Spec

---------------------------------------------------------------------------
(* What is written.                                                        *)

WriteInv == Waiting /\ Written

(* An operation that has written nothing, and reported no write. *)
LEMMA NothingYet ==
    ASSUME Same', op'.name = "ulblank" => at' = "cmd" /\ block' = 4,
           at' = "ended" /\ rc' >= 0 => op'.name \notin {"write", "ulwrite", "lock"}
    PROVE  Written'
<1>1. \A S : ChangedIn(S)'
  BY DEF Same, ChangedIn
<1> QED BY <1>1 DEF Same, Written

(* Initially. *)
LEMMA WriteInit == Init => WriteInv
<1> SUFFICES ASSUME Init PROVE WriteInv
  OBVIOUS
<1>1. op.name = None /\ at = "none" /\ old.mem = mem /\ old.lock = lock /\ card.st = "active"
  BY DEF Init, NoOp
<1>2. Written
  BY <1>1 DEF Written, Same, None
<1> QED BY <1>1, <1>2 DEF WriteInv, Waiting

(* Steps that write nothing. *)
LEMMA WriteOthers ==
    ASSUME Base, WriteInv,
           Start \/ mfcl_set_key \/ mfcl_auth \/ rfid_protocol_read \/ NoSuchSector \/ mifare_classic_dump
           \/ write_refused \/ mfcl_write_cmd
    PROVE  WriteInv'
<1>1. CASE Start
  <2>1. Same' /\ card'.st # "writing" /\ at' # "ended" /\ op' \in Ops
    BY <1>1, StartIs DEF Same
  <2>2. op'.name = "ulblank" => at' = "cmd" /\ block' = 4
    BY <1>1, StartIs DEF Classic
  <2>3. Written'
    BY <2>1, <2>2, NothingYet
  <2> QED BY <2>1, <2>3 DEF WriteInv, Waiting
<1>2. ASSUME Same, UNCHANGED <<op, mem, lock, old>>, op.name # "ulblank",
             at' = "ended" /\ rc' >= 0 => op.name \in Reading
      PROVE  Written'
  <2>1. Same' /\ (op'.name = "ulblank" => at' = "cmd" /\ block' = 4)
    BY <1>2 DEF Same
  <2>2. at' = "ended" /\ rc' >= 0 => op'.name \notin {"write", "ulwrite", "lock"}
    BY <1>2 DEF Reading
  <2> QED BY <2>1, <2>2, NothingYet
<1>3. CASE mfcl_set_key
  <2>1. /\ at = "key" /\ UNCHANGED <<op, mem, lock, old, card>>
        /\ at' = "auth" \/ (at' = "ended" /\ rc' = EIO)
    BY <1>3 DEF mfcl_set_key, AuthFails, Ends, Goto
  <2>2. Same /\ op.name # "ulblank"
    BY <2>1 DEF Base, Places, Classic, WriteInv, Written
  <2>3. Written'
    BY <1>2, <2>1, <2>2 DEF EIO
  <2> QED BY <2>1, <2>3 DEF WriteInv, Waiting
<1>4. CASE mfcl_auth
  <2>1. /\ at = "auth" /\ UNCHANGED <<op, mem, lock, old>> /\ card'.st # "writing"
        /\ at' # "ended" \/ rc' \in {ETIMEDOUT, EIO, EACCES}
    BY <1>4, AuthIs
  <2>2. Same /\ op.name # "ulblank"
    BY <2>1 DEF Base, Places, Classic, WriteInv, Written
  <2>3. Written'
    BY <1>2, <2>1, <2>2 DEF ETIMEDOUT, EIO, EACCES
  <2> QED BY <2>1, <2>3 DEF WriteInv, Waiting
<1>5. CASE rfid_protocol_read \/ NoSuchSector \/ mifare_classic_dump
  <2>1. /\ at \in {"read", "next"} /\ UNCHANGED <<op, mem, lock, old>>
        /\ card.st # "writing" => card'.st # "writing"
    <3>1. CASE rfid_protocol_read
      BY <3>1, ReadIs
    <3>2. CASE NoSuchSector \/ mifare_classic_dump
      BY <3>2 DEF NoSuchSector, mifare_classic_dump, ReadFails, Goto
    <3> QED BY <1>5, <3>1, <3>2
  <2>2. op.name \in Reading
    BY <2>1 DEF Base, Places, Reading
  <2>3. Same /\ op.name # "ulblank"
    BY <2>2 DEF Reading, WriteInv, Written
  <2>4. Written'
    BY <1>2, <2>1, <2>2, <2>3
  <2> QED BY <2>1, <2>4 DEF WriteInv, Waiting
<1>6. CASE write_refused
  <2>1. at = "cmd" /\ at' = "ended" /\ rc' = EINVAL /\ UNCHANGED <<op, mem, lock, old, card>> /\ Refused
    BY <1>6 DEF write_refused, Ends, Goto
  <2>2. Same /\ op.name # "ulblank"
    BY <2>1 DEF Refused, WriteInv, Written
  <2>3. Written'
    BY <1>2, <2>1, <2>2 DEF EINVAL
  <2> QED BY <2>1, <2>3 DEF WriteInv, Waiting
<1>7. CASE mfcl_write_cmd
  <2>1. /\ at = "cmd" /\ op.name = "write" /\ UNCHANGED <<op, mem, lock, old>>
        /\ at' = "data" \/ (at' = "ended" /\ rc' \in {ETIMEDOUT, EIO})
        /\ card'.st = "writing" => card.st = "writing" \/ card'.pend = op.page
    BY <1>7, WriteCmdIs
  <2>2. Same /\ card.st # "writing"
    BY <2>1 DEF WriteInv, Written, Waiting
  <2>3. Written'
    BY <1>2, <2>1, <2>2 DEF ETIMEDOUT, EIO
  <2>4. Waiting'
    BY <2>1, <2>2 DEF Waiting
  <2> QED BY <2>3, <2>4 DEF WriteInv
<1> QED BY <1>1, <1>3, <1>4, <1>5, <1>6, <1>7

(* Storing the operation's data in block b. *)
LEMMA StoresIs ==
    ASSUME NEW b, Stores(b, Payload), UNCHANGED <<op, count, old>>
    PROVE  /\ Has(b)'
           /\ \A x : Has(x) => Has(x)'
           /\ \A S : b \in S /\ ChangedIn(S) => ChangedIn(S)'
<1>1. /\ b \in DOMAIN mem' /\ mem'[b] = Payload
      /\ \A x \in DOMAIN mem : x \in DOMAIN mem' /\ (x # b => mem'[x] = mem[x])
      /\ \A x \in DOMAIN mem' : x = b \/ x \in DOMAIN mem
  BY DEF Stores
<1>2. Payload' = Payload
  BY DEF Payload
<1> QED BY <1>1, <1>2 DEF Has, ChangedIn

(* The second exchange of mfcl_write. *)
LEMMA WriteData ==
    ASSUME Base, WriteInv, mfcl_write_data
    PROVE  WriteInv'
<1>1. /\ at = "data" /\ at' = "ended" /\ op.name = "write" /\ UNCHANGED <<op, count, old, lock>>
      /\ rc' \in {0, ETIMEDOUT, EIO}
      /\ mem' = mem \/ Stores(op.page, Payload)
      /\ rc' = 0 => Stores(op.page, Payload)
  BY WriteDataIs DEF WriteInv, Waiting
<1>2. Same /\ lock = old.lock /\ ChangedIn({op.page})
  BY <1>1 DEF WriteInv, Written, Same
<1>3. ChangedIn({op.page})'
  <2>1. CASE mem' = mem
    <3>1. Payload' = Payload
      BY <1>1 DEF Payload
    <3> QED BY <1>1, <1>2, <2>1, <3>1 DEF ChangedIn
  <2>2. CASE Stores(op.page, Payload)
    <3>1. ChangedIn({op.page}) => ChangedIn({op.page})'
      BY <1>1, <2>2, StoresIs
    <3> QED BY <1>2, <3>1
  <2> QED BY <1>1, <2>1, <2>2
<1>4. rc' >= 0 => Has(op.page)'
  BY <1>1, StoresIs DEF ETIMEDOUT, EIO
<1>5. Written'
  BY <1>1, <1>2, <1>3, <1>4 DEF Written, Reading, None, EINVAL, ETIMEDOUT, EIO
<1> QED BY <1>1, <1>5 DEF WriteInv, Waiting

(* mful_write. *)
LEMMA WriteUl ==
    ASSUME Base, WriteInv, mful_write
    PROVE  WriteInv'
<1>1. /\ at = "cmd" /\ op.name \in {"ulblank", "ulwrite", "lock"} /\ op \in Ops
      /\ UNCHANGED <<op, count, old>> /\ rc' \in {0, ETIMEDOUT, EIO}
      /\ card'.st = "writing" => card.st = "writing"
  BY UlWriteIs
<1>2. Waiting'
  BY <1>1 DEF WriteInv, Waiting
<1>3. Payload' = Payload
  BY <1>1 DEF Payload
<1>4. UNCHANGED <<mem, lock>> => \A S : ChangedIn(S) => ChangedIn(S)'
  BY <1>1, <1>3 DEF ChangedIn
<1>5. at' = "ended" => (rc' >= 0 => rc' = 0) /\ rc' # EINVAL
  BY <1>1 DEF EINVAL, ETIMEDOUT, EIO
<1>6. CASE op.name = "lock"
  <2>1. at' = "ended" /\ (UNCHANGED <<mem, lock>> \/ Effect) /\ (rc' = 0 => Effect)
    BY <1>6, UlWriteIs
  <2>2. Effect => mem' = mem /\ lock' = lock \cup ({8} \cap {op.page})
    BY <1>6 DEF Effect
  <2>3. Same
    BY <1>1, <1>6 DEF WriteInv, Written
  <2>4. Written'
    BY <1>1, <1>5, <1>6, <2>1, <2>2, <2>3 DEF Written, Same, Reading, None
  <2> QED BY <1>2, <2>4 DEF WriteInv
<1>7. CASE op.name = "ulwrite"
  <2>1. at' = "ended" /\ (UNCHANGED <<mem, lock>> \/ Effect) /\ (rc' = 0 => Effect) /\ block = op.page
    BY <1>7, UlWriteIs DEF Base, Loops
  <2>2. Effect => lock' = lock /\ Stores(op.page, Payload)
    BY <1>7, <2>1 DEF Effect
  <2>3. Same /\ ChangedIn({op.page})
    BY <1>1, <1>7 DEF WriteInv, Written
  <2>4. ChangedIn({op.page})'
    <3>1. Stores(op.page, Payload) => (ChangedIn({op.page}) => ChangedIn({op.page})')
      BY <1>1, StoresIs
    <3>2. UNCHANGED <<mem, lock>> => ChangedIn({op.page})'
      BY <1>1, <1>3, <2>3 DEF ChangedIn
    <3> QED BY <2>1, <2>2, <2>3, <3>1, <3>2
  <2>5. rc' = 0 => Has(op.page)'
    BY <1>1, <2>1, <2>2, StoresIs
  <2>6. lock' = old'.lock
    BY <1>1, <2>1, <2>2, <2>3 DEF Same
  <2>7. Written'
    BY <1>1, <1>5, <1>7, <2>1, <2>4, <2>5, <2>6 DEF Written, Reading, None
  <2> QED BY <1>2, <2>7 DEF WriteInv
<1>8. CASE op.name = "ulblank"
  <2>1. /\ block \in 4..15 /\ (UNCHANGED <<mem, lock>> \/ Effect) /\ (rc' = 0 => Effect)
        /\ \/ rc' = 0 /\ block' = block + 1 /\ at' = "cmd"
           \/ (rc' = 0 => block = 15) /\ at' = "ended" /\ UNCHANGED block
    BY <1>8, UlWriteIs DEF MFUL_PAGE_MAX
  <2>2. Effect => lock' = lock /\ Stores(block, Payload)
    BY <1>8 DEF Effect
  <2>3. lock = old.lock /\ ChangedIn(4..15) /\ \A b \in 4..(block - 1) : Has(b)
    BY <1>1, <1>8 DEF WriteInv, Written
  <2>4. ChangedIn(4..15)'
    <3>1. Stores(block, Payload) => (ChangedIn(4..15) => ChangedIn(4..15)')
      BY <1>1, <2>1, StoresIs
    <3> QED BY <1>4, <2>1, <2>2, <2>3, <3>1
  <2>5. rc' = 0 => \A b \in 4..block : Has(b)'
    <3> SUFFICES ASSUME rc' = 0, NEW b \in 4..block PROVE Has(b)'
      OBVIOUS
    <3>1. Stores(block, Payload)
      BY <2>1, <2>2
    <3>2. CASE b = block
      BY <1>1, <3>1, <3>2, StoresIs
    <3>3. CASE b # block
      <4>1. Has(b)
        BY <2>1, <2>3, <3>3
      <4>2. \A x : Has(x) => Has(x)'
        BY <1>1, <3>1, StoresIs
      <4> QED BY <4>1, <4>2
    <3> QED BY <3>2, <3>3
  <2>6. lock' = old'.lock
    BY <1>1, <2>1, <2>2, <2>3
  <2>7. /\ at' = "cmd" => \A b \in 4..(block' - 1) : Has(b)'
        /\ at' = "ended" /\ rc' = 0 => \A b \in 4..15 : Has(b)'
    BY <2>1, <2>5
  <2>8. Written'
    BY <1>1, <1>5, <1>8, <2>1, <2>4, <2>6, <2>7 DEF Written, Reading, None
  <2> QED BY <1>2, <2>8 DEF WriteInv
<1> QED BY <1>1, <1>6, <1>7, <1>8

(* Every step. *)
LEMMA WriteStep == Base /\ WriteInv /\ [Next]_vars => WriteInv'
<1> SUFFICES ASSUME Base, WriteInv, [Next]_vars PROVE WriteInv'
  OBVIOUS
<1>1. CASE Next
  BY <1>1, WriteOthers, WriteData, WriteUl DEF Next
<1>2. CASE UNCHANGED vars
  <2>1. UNCHANGED <<op, at, block, rc, card, mem, lock, old, count>>
    BY <1>2 DEF vars, local
  <2>2. Payload' = Payload
    BY <2>1 DEF Payload
  <2>3. (\A S : ChangedIn(S)' <=> ChangedIn(S)) /\ (\A b : Has(b)' <=> Has(b))
    BY <2>1, <2>2 DEF ChangedIn, Has
  <2> QED BY <2>1, <2>3 DEF WriteInv, Waiting, Written, Same
<1> QED BY <1>1, <1>2

(* What a write reports is what happened to the card, for every kind of    *)
(* card, every sequence of operations and wherever frames get lost or      *)
(* garbled: although mfcl_write looks only at the failure of its first     *)
(* exchange, its success means that the block has the new content, and its *)
(* failure leaves the old or the new one; arguments that are refused reach *)
(* no card; no other block changes, and a lock locks no other page than    *)
(* the one it was asked for.                                               *)
THEOREM WriteOutcomeHolds == Spec => []WriteOutcome
<1>1. Base /\ WriteInv => WriteOutcome
  <2> SUFFICES ASSUME Base, WriteInv PROVE WriteOutcome
    OBVIOUS
  <2> DEFINE changed == {b \in DOMAIN mem : b \notin DOMAIN old.mem \/ mem[b] # old.mem[b]}
             locked  == lock \ old.lock
             where   == CASE op.name \in {"write", "ulwrite"} -> {op.page}
                          [] op.name = "ulblank" -> 4..15
                          [] OTHER -> {}
             done    == CASE op.name \in {"write", "ulwrite"} -> Content(op.page) = Payload
                          [] op.name = "ulblank" -> \A b \in 4..15 : Content(b) = Payload
                          [] OTHER -> TRUE
  <2>1. /\ op.name \in {"write", "ulwrite"} => where = {op.page}
        /\ op.name = "ulblank" => where = 4..15
        /\ op.name \notin {"write", "ulwrite", "ulblank"} => where = {}
    BY Zenon
  <2>2. op.name \in Reading \cup {None, "write", "ulwrite", "ulblank", "lock"}
    BY OpFields DEF Base, Types, NoOp, Reading, Classic, Ultralight
  <2>3. changed \subseteq where /\ \A b \in changed : mem[b] = Payload
    <3>1. ChangedIn(where)
      <4>1. CASE op.name \in Reading \cup {None, "lock"}
        BY <4>1 DEF WriteInv, Written, Same, ChangedIn
      <4>2. CASE op.name \in {"write", "ulwrite", "ulblank"}
        BY <2>1, <4>2 DEF WriteInv, Written
      <4> QED BY <2>2, <4>1, <4>2
    <3> HIDE DEF where
    <3> QED BY <3>1 DEF ChangedIn
  <2>4. locked \subseteq IF op.name = "lock" THEN {op.page} ELSE {}
    BY <2>2 DEF WriteInv, Written, Same
  <2>5. at = "ended" /\ rc >= 0 => done
    <3> SUFFICES ASSUME at = "ended", rc >= 0 PROVE done
      OBVIOUS
    <3>1. \A b : Has(b) => Content(b) = Payload
      BY DEF Has, Content
    <3>2. CASE op.name \in {"write", "ulwrite"}
      <4>1. Content(op.page) = Payload
        BY <3>1, <3>2 DEF WriteInv, Written
      <4> QED BY <3>2, <4>1, Zenon
    <3>3. CASE op.name = "ulblank"
      <4>1. \A b \in 4..15 : Content(b) = Payload
        BY <3>1, <3>3 DEF WriteInv, Written
      <4> QED BY <3>3, <4>1, Zenon
    <3>4. CASE op.name \notin {"write", "ulwrite", "ulblank"}
      BY <3>4, Zenon
    <3> QED BY <3>2, <3>3, <3>4
  <2>6. at = "ended" /\ rc = EINVAL => changed = {} /\ locked = {}
    BY DEF WriteInv, Written, Same
  <2> HIDE DEF changed, locked, where, done
  <2>7. /\ changed \subseteq where /\ \A b \in changed : mem[b] = Payload
        /\ locked \subseteq IF op.name = "lock" THEN {op.page} ELSE {}
        /\ at = "ended" /\ rc >= 0 => done
        /\ at = "ended" /\ rc = EINVAL => changed = {} /\ locked = {}
    BY <2>3, <2>4, <2>5, <2>6
  <2> QED BY <2>7, Zenon DEF WriteOutcome, changed, locked, where, done
<1> QED BY <1>1, BaseInit, BaseStep, WriteInit, WriteStep, PTL DEF Spec

---------------------------------------------------------------------------
(* What is shown.                                                          *)

(* A read that succeeds has got the block, or a code after a disturbance:  *)
(* the code 4 of a Mifare Classic card is an error.                        *)
LEMMA ReadAnswers ==
    ASSUME NEW c, NEW a, c.cmd = "read", Transceive(c, 0, a), ReadResult(a) = 0
    PROVE  a = Data(c.block) \/ (a = Code(1) /\ Trouble)
<1>1. CASE Obeys(c, a)
  <2>1. a # Silent
    BY SuccessAnswers
  <2>2. card.kind # "ul" => a # Code(4)
    BY DEF ReadResult, EPERM
  <2> QED BY <1>1, <2>1, <2>2 DEF Obeys
<1> QED BY <1>1, SuccessAnswers

(* Initially. *)
LEMMA LinesInit == Init => Lines
BY DEF Init, Lines, Buffer, NoLine, NoOp, None, Reading

(* Steps that print nothing. *)
LEMMA LinesKept ==
    ASSUME Base, Lines, UNCHANGED <<op, buf, shown, count>>,
           trouble' = trouble \/ trouble' = trouble + 1, mem' = mem \/ op.name \notin Reading
    PROVE  Lines'
<1>1. trouble \in Nat /\ count.before \in Nat
  BY BoundAssumption DEF Base, Types, CountRecord
<1>2. mem' = mem => \A b : Content(b)' = Content(b)
  BY DEF Content
<1> QED BY <1>1, <1>2 DEF Lines

(* A read. *)
LEMMA LinesRead ==
    ASSUME Base, Lines, rfid_protocol_read
    PROVE  Lines'
<1>1. /\ UNCHANGED <<op, old, count, mem, lock>> /\ op.name \in Reading
      /\ trouble' = trouble \/ trouble' = trouble + 1
  BY ReadIs DEF Base, Places
<1>2. CASE UNCHANGED <<buf, shown>>
  BY <1>1, <1>2, LinesKept
<1>3. CASE /\ block \in 0..255
           /\ shown' = [last |-> block, blocks |-> shown.blocks \cup {block}]
           /\ \E a \in Answers([cmd |-> "read", block |-> block]) :
                 /\ Transceive([cmd |-> "read", block |-> block], 0, a)
                 /\ ReadResult(a) = 0 /\ buf' = Filled(a)
  <2> DEFINE c == [cmd |-> "read", block |-> block]
  <2>1. PICK a \in Answers(c) : Transceive(c, 0, a) /\ ReadResult(a) = 0 /\ buf' = Filled(a)
    BY <1>3
  <2>2. c.cmd = "read" /\ c.block = block
    OBVIOUS
  <2> HIDE DEF c
  <2>3. a # Silent /\ (a = Data(block) \/ (a = Code(1) /\ Trouble))
    BY <2>1, <2>2, SuccessAnswers, ReadAnswers
  <2>4. /\ buf'.len \in {1, 16} /\ (buf'.len = 1 => buf.len = 1 \/ a.n = 1)
        /\ buf'.len > 1 => buf'.head = a.data /\ buf'.rest = a.data /\ a = Data(block)
    BY <2>1, <2>2, <2>3, FilledIs DEF Base, Types
  <2>5. a = Data(block) => a.n = 16 /\ a.data = Content(block)
    BY DEF Data
  <2>6. shown'.last = block /\ \A b : Content(b)' = Content(b)
    BY <1>1, <1>3 DEF Content
  <2>7. trouble \in Nat /\ count.before \in Nat /\ count.before <= trouble
    BY BoundAssumption DEF Base, Types, CountRecord
  <2>8. buf'.len = 1 => count.before < trouble'
    BY <1>1, <2>3, <2>4, <2>5, <2>7 DEF Lines, Trouble
  <2> QED BY <1>1, <2>4, <2>5, <2>6, <2>8 DEF Lines
<1> QED BY <1>2, <1>3, ReadIs

(* Every step. *)
LEMMA LinesStep == Base /\ Lines /\ [Next]_vars => Lines'
<1> SUFFICES ASSUME Base, Lines, [Next]_vars PROVE Lines'
  OBVIOUS
<1>1. CASE Start
  BY <1>1, StartIs DEF Lines
<1>2. CASE mfcl_set_key
  BY <1>2, LinesKept DEF mfcl_set_key, AuthFails, Ends, Goto, Trouble
<1>3. CASE mfcl_auth
  <2>1. CASE UNCHANGED <<buf, shown>>
    BY <1>3, <2>1, AuthIs, LinesKept
  <2>2. CASE op.name = "dump" /\ buf'.len = 20 /\ shown'.last = -1
    BY <1>3, <2>2, AuthIs DEF Lines, Reading
  <2> QED BY <1>3, <2>1, <2>2, AuthIs
<1>4. CASE NoSuchSector \/ mifare_classic_dump \/ write_refused
  BY <1>4, LinesKept DEF NoSuchSector, mifare_classic_dump, write_refused, ReadFails, Ends, Goto
<1>5. CASE mfcl_write_cmd
  BY <1>5, WriteCmdIs, LinesKept
<1>6. CASE mfcl_write_data
  BY <1>6, WriteDataIs, LinesKept DEF Reading
<1>7. CASE mful_write
  BY <1>7, UlWriteIs, LinesKept DEF Reading
<1>8. CASE UNCHANGED vars
  BY <1>8, LinesKept DEF vars, local
<1> QED BY <1>1, <1>2, <1>3, <1>4, <1>5, <1>6, <1>7, <1>8, LinesRead DEF Next

---------------------------------------------------------------------------
(* How far a dump comes.                                                   *)

(* The blocks of the sectors that have a first block follow each other,    *)
(* and are those of the card's own numbering.                              *)
LEMMA SectorsFollow ==
    /\ Lo(0) = 0 /\ Lo(5) = 20 /\ Lo(16) = 64 /\ Lo(40) = 192
    /\ \A s \in 0..35 : Lo(s) = mfcl_sector2block(s) /\ Lo(s + 1) = Lo(s) + mfcl_sector_blocks(s)
    /\ \A s \in 36..39 : Lo(s) = 192 /\ Lo(s + 1) = 192
    /\ \A s \in 0..35 : \A b \in Lo(s)..(Lo(s + 1) - 1) : SectorOf(b) = s /\ b \in 0..191
<1>1. ASSUME NEW s \in 0..35
      PROVE  Lo(s) = mfcl_sector2block(s) /\ Lo(s + 1) = Lo(s) + mfcl_sector_blocks(s)
  <2>1. /\ \A x \in 0..31 : Lo(x) = 4 * x /\ mfcl_sector2block(x) = 4 * x /\ mfcl_sector_blocks(x) = 4
        /\ \A x \in 32..35 : /\ Lo(x) = 16 * x - 384 /\ mfcl_sector2block(x) = 16 * x - 384
                             /\ mfcl_sector_blocks(x) = 16
        /\ Lo(36) = 192
    BY DEF Lo, mfcl_sector2block, mfcl_sector_blocks, SMALL_SECTORS, LARGE_SECTORS, BLOCKS_1k, BLOCKS_4k, EINVAL
  <2>2. CASE s \in 0..30
    <3>1. s \in 0..31 /\ s + 1 \in 0..31
      BY <2>2
    <3> QED BY <2>1, <3>1
  <2>3. CASE s = 31
    BY <2>1, <2>3
  <2>4. CASE s \in 32..34
    <3>1. s \in 32..35 /\ s + 1 \in 32..35
      BY <2>4
    <3> QED BY <2>1, <3>1
  <2>5. CASE s = 35
    BY <2>1, <2>5
  <2> QED BY <2>2, <2>3, <2>4, <2>5
<1>2. /\ \A s \in 36..39 : Lo(s) = 192 /\ Lo(s + 1) = 192
      /\ Lo(0) = 0 /\ Lo(5) = 20 /\ Lo(16) = 64 /\ Lo(40) = 192
  BY DEF Lo, mfcl_sector2block, SMALL_SECTORS, LARGE_SECTORS, BLOCKS_1k, BLOCKS_4k
<1>3. ASSUME NEW s \in 0..35, NEW b \in Lo(s)..(Lo(s + 1) - 1)
      PROVE  SectorOf(b) = s /\ b \in 0..191
  <2>1. CASE s < 32
    <3>1. b \in (4 * s)..(4 * s + 3)
      BY <2>1 DEF Lo, mfcl_sector2block, SMALL_SECTORS, LARGE_SECTORS, BLOCKS_1k, BLOCKS_4k
    <3> QED BY <2>1, <3>1 DEF SectorOf
  <2>2. CASE s >= 32
    <3>1. b \in (128 + 16 * (s - 32))..(128 + 16 * (s - 32) + 15)
      BY <2>2 DEF Lo, mfcl_sector2block, SMALL_SECTORS, LARGE_SECTORS, BLOCKS_1k, BLOCKS_4k
    <3> QED BY <2>2, <3>1 DEF SectorOf
  <2> QED BY <2>1, <2>2
<1> QED BY <1>1, <1>2, <1>3

(* The same, for one sector. *)
LEMMA SectorIs ==
    ASSUME NEW s \in 0..35
    PROVE  /\ Lo(s) = mfcl_sector2block(s) /\ Lo(s) \in 0..191 /\ mfcl_sector_blocks(s) \in {4, 16}
           /\ Lo(s + 1) = Lo(s) + mfcl_sector_blocks(s)
           /\ \A b \in Lo(s)..(Lo(s + 1) - 1) : SectorOf(b) = s /\ b \in 0..191
<1>1. Lo(s) = mfcl_sector2block(s) /\ Lo(s + 1) = Lo(s) + mfcl_sector_blocks(s)
  BY SectorsFollow
<1>2. mfcl_sector2block(s) \in 0..191 /\ mfcl_sector_blocks(s) \in {4, 16}
  BY BlockNumbers
<1>3. \A b \in Lo(s)..(Lo(s + 1) - 1) : SectorOf(b) = s /\ b \in 0..191
  BY SectorsFollow
<1> QED BY <1>1, <1>2, <1>3

(* How much of a card a dump shows. *)
LEMMA SectorsOfCards ==
    ASSUME NEW k \in Cards, k # "ul"
    PROVE  /\ num_sectors(k) \in {5, 16, 40}
           /\ Lo(num_sectors(k)) = IF k = "4k" THEN 192 ELSE Blocks(k)
           /\ \A s \in 0..35 : s < num_sectors(k) => Lo(s + 1) <= Blocks(k)
           /\ num_sectors(k) > 36 => Blocks(k) = 256
<1>1. /\ k = "mini" => num_sectors(k) = 5 /\ Blocks(k) = 20
      /\ k = "1k" => num_sectors(k) = 16 /\ Blocks(k) = 64
      /\ k = "4k" => num_sectors(k) = 40 /\ Blocks(k) = 256
  BY DEF num_sectors, mfcl_size, Blocks
<1>2. k \in {"mini", "1k", "4k"}
  BY CardsAssumption
<1>3. /\ \A s \in 0..4 : Lo(s + 1) <= 20
      /\ \A s \in 0..15 : Lo(s + 1) <= 64
      /\ \A s \in 0..35 : Lo(s + 1) <= 256
  BY DEF Lo, mfcl_sector2block, SMALL_SECTORS, LARGE_SECTORS, BLOCKS_1k, BLOCKS_4k
<1> QED BY <1>1, <1>2, <1>3, SectorsFollow

(* The sectors of a card have blocks of the card. *)
LEMMA BlocksBound ==
    ASSUME NEW k \in Cards, k # "ul"
    PROVE  /\ Blocks(k) \in Int /\ num_sectors(k) \in {5, 16, 40}
           /\ num_sectors(k) > 36 => Blocks(k) = 256
<1>1. Blocks(k) \in Int
  BY BlockNumbers
<1> QED BY <1>1, SectorsOfCards

(* The same, for one sector. *)
LEMMA SectorBound ==
    ASSUME NEW k \in Cards, k # "ul", NEW s \in 0..35, s < num_sectors(k)
    PROVE  Lo(s + 1) <= Blocks(k)
BY SectorsOfCards

(* Initially. *)
LEMMA DumpedInit == Init => Dumped
BY DEF Init, Dumped, Undisturbed, NoOp, None

(* A dump is of a card that has sectors. *)
LEMMA DumpCard ==
    ASSUME Base, op.name = "dump"
    PROVE  card.kind \in Cards /\ card.kind # "ul" /\ op \in Ops /\ trouble \in Nat /\ count.before \in Nat
           /\ count.before <= trouble /\ sector \in 0..39
BY BoundAssumption DEF Base, Types, Places, CardRecord, CountRecord, Ultralight, NoOp, None

(* A step that counts no loss or failure may start from an undisturbed     *)
(* dump only.                                                              *)
LEMMA UndisturbedBefore ==
    ASSUME Base, UNCHANGED <<op, count>>, card'.acc = card.acc, Undisturbed',
           trouble' = trouble \/ trouble' = trouble + 1
    PROVE  Undisturbed /\ trouble' = trouble /\ op.name = "dump"
<1>1. op.name = "dump"
  BY DEF Undisturbed
<1>2. trouble \in Nat /\ count.before \in Nat /\ count.before <= trouble
  BY <1>1, DumpCard
<1>3. trouble' = trouble
  BY <1>2 DEF Undisturbed
<1> QED BY <1>1, <1>3 DEF Undisturbed

(* mfcl_auth succeeds in an undisturbed dump. *)
LEMMA DumpedAuth ==
    ASSUME Base, Dumped, mfcl_auth
    PROVE  Dumped'
<1>1. /\ at = "auth" /\ UNCHANGED <<op, sector, count>> /\ card'.kind = card.kind /\ card'.acc = card.acc
      /\ trouble' = trouble \/ trouble' = trouble + 1
  BY AuthIs
<1> SUFFICES ASSUME Undisturbed' PROVE Dumped'
  BY <1>1 DEF Dumped
<1>2. Undisturbed /\ trouble' = trouble /\ op.name = "dump" /\ op.key = "good"
  BY <1>1, UndisturbedBefore DEF Undisturbed
<1>3. shown.blocks = 0..(Lo(sector) - 1) /\ card.st \in {"active", "auth"} /\ sector < num_sectors(card.kind)
  BY <1>1, <1>2 DEF Dumped
<1>4. card.kind \in Cards /\ card.kind # "ul" /\ sector \in 0..39 /\ trouble \in Nat
  BY <1>2, DumpCard
<1>5. AuthBlock < Blocks(card.kind) /\ (sector < 36 => SectorOf(AuthBlock) = sector /\ mfcl_sector2block(sector) = Lo(sector))
  <2>1. CASE sector < 36
    <3>1. /\ Lo(sector) = mfcl_sector2block(sector) /\ Lo(sector) \in 0..191 /\ Lo(sector + 1) \in Int
          /\ Lo(sector) < Lo(sector + 1)
      <4>1. sector \in 0..35 /\ mfcl_sector2block(sector) \in 0..191 /\ mfcl_sector_blocks(sector) \in {4, 16}
        BY <1>4, <2>1, FirstBlocks
      <4>2. Lo(sector) = mfcl_sector2block(sector) /\ Lo(sector + 1) = Lo(sector) + mfcl_sector_blocks(sector)
        BY <4>1, SectorsFollow
      <4> QED BY <4>1, <4>2
    <3>2. AuthBlock = Lo(sector)
      BY <1>2, <3>1 DEF AuthBlock
    <3>3. SectorOf(Lo(sector)) = sector
      <4>1. Lo(sector) \in Lo(sector)..(Lo(sector + 1) - 1)
        BY <3>1
      <4>2. sector \in 0..35
        BY <1>4, <2>1
      <4> QED BY <4>1, <4>2, SectorsFollow
    <3>4. Lo(sector + 1) <= Blocks(card.kind)
      <4>1. sector \in 0..35
        BY <1>4, <2>1
      <4> QED BY <1>3, <1>4, <4>1, SectorBound
    <3>5. Blocks(card.kind) \in Int
      BY <1>4, BlocksBound
    <3> QED BY <3>1, <3>2, <3>3, <3>4, <3>5
  <2>2. CASE sector >= 36
    <3>1. Blocks(card.kind) = 256
      <4>1. num_sectors(card.kind) > 36
        <5>1. num_sectors(card.kind) \in {5, 16, 40}
          BY <1>4, BlocksBound
        <5> QED BY <1>3, <1>4, <2>2, <5>1
      <4> QED BY <1>4, <4>1, BlocksBound
    <3>2. AuthBlock < 256
      BY <1>2, <1>4, <2>2, BlockNumbers DEF AuthBlock, EINVAL
    <3> QED BY <1>4, <2>2, <3>1, <3>2
  <2> QED BY <1>4, <2>1, <2>2
<1>6. /\ at' = "read" /\ card'.st = "auth" /\ card'.sec = SectorOf(AuthBlock)
      /\ block' = mfcl_sector2block(sector) /\ shown'.blocks = shown.blocks
  <2>1. ~(card.st = "idle" \/ op.key = "bad" \/ AuthBlock >= Blocks(card.kind))
    <3>1. AuthBlock \in Int /\ Blocks(card.kind) \in Int
      <4>1. mfcl_sector2block(sector) \in Nat \cup {EINVAL}
        BY <1>4, FirstBlocks
      <4>2. AuthBlock \in Int
        BY <1>2, <4>1 DEF AuthBlock, EINVAL
      <4> QED BY <1>4, <4>2, BlocksBound
    <3> QED BY <1>2, <1>3, <1>5, <3>1
  <2>2. ~(trouble < MaxTrouble /\ trouble' = trouble + 1)
    BY <1>2, <1>4
  <2>3. op.name = "dump" /\ op.name # "write"
    BY <1>2
  <2> QED BY <2>1, <2>2, <2>3, AuthIs, Zenon
<1>7. Lo(sector) = IF sector' < 36 THEN block' ELSE 192
  <2>1. sector' = sector
    BY <1>1
  <2>2. CASE sector < 36
    BY <1>5, <1>6, <2>1, <2>2
  <2>3. CASE ~(sector < 36)
    BY <2>1, <2>3 DEF Lo
  <2> QED BY <2>2, <2>3
<1>8. /\ shown'.blocks = 0..((IF sector' < 36 THEN block' ELSE 192) - 1)
      /\ sector' < 36 => card'.sec = sector'
  BY <1>1, <1>3, <1>5, <1>6, <1>7
<1>9. op'.name = "dump" => sector' < num_sectors(card'.kind)
  BY <1>1, <1>3
<1> QED BY <1>6, <1>8, <1>9 DEF Dumped

(* A read succeeds in an undisturbed dump. *)
LEMMA DumpedRead ==
    ASSUME Base, Dumped, rfid_protocol_read
    PROVE  Dumped'
<1>1. /\ at = "read" /\ (op.name = "dump" => sector < 36) /\ UNCHANGED <<op, count, mem>>
      /\ card'.kind = card.kind /\ card'.acc = card.acc
      /\ trouble' = trouble \/ trouble' = trouble + 1
  BY ReadIs
<1>2. UNCHANGED sector
  BY <1>1, ReadIs, NextReadIs
<1> SUFFICES ASSUME Undisturbed' PROVE Dumped'
  BY <1>1, <1>2 DEF Dumped
<1>3. Undisturbed /\ trouble' = trouble /\ op.name = "dump"
  BY <1>1, UndisturbedBefore
<1>4. /\ shown.blocks = 0..(block - 1) /\ card.st = "auth" /\ card.sec = sector
      /\ sector < num_sectors(card.kind) /\ sector \in 0..35
  <2>1. sector \in 0..35
    BY <1>1, <1>3, DumpCard
  <2>2. at = "read" /\ sector < 36
    BY <1>1, <2>1
  <2> QED BY <1>3, <2>1, <2>2 DEF Dumped
<1>5. card.kind \in Cards /\ card.kind # "ul" /\ trouble \in Nat
  BY <1>3, DumpCard
<1>6. /\ mfcl_sector2block(sector) \in 0..191 /\ mfcl_sector_blocks(sector) \in {4, 16}
      /\ Lo(sector) = mfcl_sector2block(sector) /\ Lo(sector + 1) = Lo(sector) + mfcl_sector_blocks(sector)
      /\ Lo(sector + 1) <= Blocks(card.kind) /\ Blocks(card.kind) \in Int
  <2>1. /\ Lo(sector) = mfcl_sector2block(sector) /\ Lo(sector) \in 0..191
        /\ mfcl_sector_blocks(sector) \in {4, 16} /\ Lo(sector + 1) = Lo(sector) + mfcl_sector_blocks(sector)
    BY <1>4, SectorIs
  <2>2. Lo(sector + 1) <= Blocks(card.kind)
    BY <1>4, <1>5, SectorBound
  <2>3. Blocks(card.kind) \in Int
    BY <1>5, BlocksBound
  <2> QED BY <2>1, <2>2, <2>3
<1>7. block \in Lo(sector)..(Lo(sector + 1) - 1)
  <2>1. block \in mfcl_sector2block(sector)..(mfcl_sector2block(sector) + mfcl_sector_blocks(sector) - 1)
    BY <1>1, <1>3 DEF Base, Loops
  <2> QED BY <1>6, <2>1
<1>8. SectorOf(block) = sector /\ block \in 0..191 /\ block < Blocks(card.kind)
  <2>1. SectorOf(block) = sector /\ block \in 0..191
    BY <1>4, <1>7, SectorIs
  <2> QED BY <1>6, <1>7, <2>1
<1> DEFINE c == [cmd |-> "read", block |-> block % 256]
<1>9. c.cmd = "read" /\ c.block = block
  BY <1>8
<1>10. block <= PageMax
  BY <1>5, <1>8 DEF PageMax, MFCL_PAGE_MAX
<1> HIDE DEF c
<1>11. PICK r \in {0, ETIMEDOUT, EIO}, a \in Answers(c) :
             /\ Transceive(c, r, a)
             /\ IF r < 0 \/ ReadResult(a) < 0
                THEN ReadFails(IF r < 0 THEN r ELSE ReadResult(a))
                ELSE /\ buf' = Filled(a) /\ rc' = 0 /\ Printed(block) /\ NextRead
                     /\ UNCHANGED <<op, old, count>>
  <2>1. ~(block > PageMax)
    BY <1>8, <1>10 DEF PageMax, MFCL_PAGE_MAX, MFUL_PAGE_MAX
  <2> QED BY <2>1, Zenon DEF rfid_protocol_read, c
<1>12. Obeys(c, a) /\ Result(a, r)
  <2>1. ~Trouble
    BY <1>3, <1>5 DEF Trouble
  <2> QED BY <1>11, <2>1 DEF Transceive
<1>13. Group(block) = 3 \/ MayRead("A", card.acc[Group(block)])
  <2>1. Group(block) \in 0..3
    BY <1>8, BlockNumbers
  <2> QED BY <1>3, <2>1 DEF Undisturbed
<1>14. a = Data(block) /\ card' = card
  BY <1>4, <1>5, <1>8, <1>9, <1>12, <1>13 DEF Obeys
<1>15. r = 0 /\ ReadResult(a) = 0
  BY <1>12, <1>14 DEF Result, ReadResult, Data, Code, Silent
<1>16. NextRead /\ Printed(block)
  BY <1>11, <1>15
<1>17. shown'.blocks = 0..block
  <2>1. shown'.blocks = (0..(block - 1)) \cup {block}
    BY <1>4, <1>16 DEF Printed
  <2> QED BY <1>8, <2>1
<1>18. \/ at' = "read" /\ block' = block + 1
       \/ at' = "next" /\ block + 1 = Lo(sector + 1)
  BY <1>1, <1>3, <1>4, <1>6, <1>16, NextReadIs
<1>19. card'.st = "auth" /\ card'.sec = sector'
  BY <1>2, <1>4, <1>14
<1>20. /\ at' = "read" => shown'.blocks = 0..((IF sector' < 36 THEN block' ELSE 192) - 1)
       /\ at' = "next" => shown'.blocks = 0..(Lo(sector' + 1) - 1)
  BY <1>2, <1>4, <1>8, <1>17, <1>18
<1>21. op'.name = "dump" => sector' < num_sectors(card'.kind)
  BY <1>1, <1>2, <1>4
<1> QED BY <1>18, <1>19, <1>20, <1>21 DEF Dumped

(* Every step. *)
LEMMA DumpedStep == Base /\ Dumped /\ [Next]_vars => Dumped'
<1> SUFFICES ASSUME Base, Dumped, [Next]_vars PROVE Dumped'
  OBVIOUS
<1>1. CASE Start
  <2> SUFFICES ASSUME op'.name = "dump" PROVE Dumped'
    BY DEF Dumped, Undisturbed
  <2>1. /\ card.kind \in Cards /\ card.kind # "ul" /\ card'.kind = card.kind
        /\ at' = "key" /\ sector' = 0 /\ shown'.blocks = {} /\ card'.st = "active"
    BY <1>1, StartIs DEF Base, Types, CardRecord, Ultralight, Classic
  <2>2. 0 < num_sectors(card.kind) /\ Lo(0) = 0
    BY <2>1, SectorsOfCards, SectorsFollow
  <2>3. shown'.blocks = 0..(Lo(sector') - 1) /\ sector' < num_sectors(card'.kind)
    BY <2>1, <2>2
  <2> QED BY <2>1, <2>3 DEF Dumped
<1>2. CASE mfcl_set_key
  <2>1. /\ at = "key" /\ UNCHANGED <<op, sector, shown, count, card>>
        /\ (at' = "auth" /\ UNCHANGED trouble) \/ (at' = "ended" /\ trouble' = trouble + 1)
    BY <1>2 DEF mfcl_set_key, AuthFails, Ends, Goto, Trouble
  <2> SUFFICES ASSUME Undisturbed' PROVE Dumped'
    BY <2>1 DEF Dumped
  <2>2. Undisturbed /\ trouble' = trouble /\ op.name = "dump"
    BY <2>1, UndisturbedBefore
  <2>3. at' = "auth"
    BY <2>1, <2>2, DumpCard
  <2> QED BY <2>1, <2>2, <2>3 DEF Dumped
<1>3. CASE NoSuchSector
  <2>1. /\ at = "read" /\ op.name = "dump" /\ mfcl_sector2block(sector) < 0 /\ at' = "next"
        /\ UNCHANGED <<op, sector, shown, count, card, trouble>>
    BY <1>3 DEF NoSuchSector, ReadFails, Goto
  <2>2. sector \in 36..39
    <3>1. sector \in 0..39
      BY <2>1, DumpCard
    <3>2. sector < 36 => mfcl_sector2block(sector) \in 0..191
      BY <3>1, FirstBlocks
    <3> QED BY <2>1, <3>1, <3>2
  <2>3. Undisturbed' => Undisturbed
    BY <2>1 DEF Undisturbed
  <2>4. Undisturbed => shown.blocks = 0..(Lo(sector + 1) - 1) /\ card.st = "auth"
    <3>1. Lo(sector + 1) = 192 /\ ~(sector < 36)
      BY <2>2, SectorsFollow
    <3> QED BY <2>1, <3>1 DEF Dumped
  <2> QED BY <2>1, <2>3, <2>4 DEF Dumped
<1>4. CASE mifare_classic_dump
  <2>1. /\ at = "next" /\ op.name = "dump"
        /\ \/ sector + 1 < num_sectors(card.kind) /\ sector' = sector + 1 /\ at' = "key"
           \/ ~(sector + 1 < num_sectors(card.kind)) /\ at' = "ended" /\ UNCHANGED sector
        /\ UNCHANGED <<op, shown, count, card, trouble>>
    BY <1>4 DEF mifare_classic_dump, Goto, Base, Places
  <2>2. /\ sector \in 0..39 /\ sector < num_sectors(card.kind) /\ num_sectors(card.kind) \in {5, 16, 40}
    BY <2>1, DumpCard, SectorsOfCards DEF Dumped
  <2>3. Undisturbed' => Undisturbed
    BY <2>1 DEF Undisturbed
  <2>4. Undisturbed => shown.blocks = 0..(Lo(sector + 1) - 1) /\ card.st = "auth"
    BY <2>1 DEF Dumped
  <2>5. CASE sector' = sector + 1 /\ at' = "key" /\ sector + 1 < num_sectors(card.kind)
    BY <2>1, <2>3, <2>4, <2>5 DEF Dumped
  <2>6. CASE ~(sector + 1 < num_sectors(card.kind)) /\ at' = "ended" /\ UNCHANGED sector
    <3>1. sector + 1 = num_sectors(card.kind)
      BY <2>2, <2>6
    <3> QED BY <2>1, <2>2, <2>3, <2>4, <2>6, <3>1 DEF Dumped
  <2> QED BY <2>1, <2>5, <2>6
<1>5. CASE write_refused \/ mfcl_write_cmd \/ mfcl_write_data \/ mful_write
  <2>1. op'.name # "dump"
    <3>1. at \in {"cmd", "data"} /\ UNCHANGED op
      BY <1>5, WriteCmdIs, WriteDataIs, UlWriteIs DEF write_refused
    <3> QED BY <3>1 DEF Base, Places
  <2> QED BY <2>1 DEF Dumped, Undisturbed
<1>6. CASE UNCHANGED vars
  BY <1>6 DEF vars, local, Dumped, Undisturbed
<1> QED BY <1>1, <1>2, <1>3, <1>4, <1>5, <1>6, DumpedAuth, DumpedRead DEF Next

(* A line that a tool prints has the content of its block, until a short   *)
(* answer, which only a disturbance brings; and a dump that meets none,    *)
(* with the right key, of a card whose conditions let key A read, shows    *)
(* every block of the card (of one with 4 KB those of its first 36         *)
(* sectors), each under the authentication for its own sector.             *)
THEOREM ReadOutcomeHolds == Spec => []ReadOutcome
<1>1. Base /\ Lines /\ Dumped => ReadOutcome
  <2> SUFFICES ASSUME Base, Lines, Dumped PROVE ReadOutcome
    OBVIOUS
  <2>1. shown.last >= 0 =>
          IF buf.len > 1 THEN {buf.head, buf.rest} = {Content(shown.last)}
          ELSE count.before < trouble
    BY DEF Base, Types, Lines
  <2>2. ASSUME at = "ended", op.name = "dump", op.key = "good", trouble = count.before,
               \A b \in 0..2 : MayRead("A", card.acc[b])
        PROVE  shown.blocks = 0..(IF card.kind = "4k" THEN 192 ELSE Blocks(card.kind)) - 1
    <3>1. card.kind \in Cards /\ card.kind # "ul"
      BY <2>2, DumpCard
    <3>2. shown.blocks = 0..(Lo(num_sectors(card.kind)) - 1)
      BY <2>2 DEF Dumped, Undisturbed
    <3>3. Lo(num_sectors(card.kind)) = IF card.kind = "4k" THEN 192 ELSE Blocks(card.kind)
      BY <3>1, SectorsOfCards
    <3> QED BY <3>2, <3>3, Zenon
  <2> QED BY <2>1, <2>2 DEF ReadOutcome
<1> QED BY <1>1, BaseInit, BaseStep, LinesInit, LinesStep, DumpedInit, DumpedStep, PTL DEF Spec

---------------------------------------------------------------------------
(* Access conditions.                                                      *)

(* A condition is its three bits. *)
LEMMA ThreeBits ==
    ASSUME NEW v \in 0..7
    PROVE  /\ Bit(v, 0) \in {0, 1} /\ Bit(v, 1) \in {0, 1} /\ Bit(v, 2) \in {0, 1}
           /\ Bit(v, 0) + 2 * Bit(v, 1) + 4 * Bit(v, 2) = v
<1>1. Bit(v, 0) = (v \div 1) % 2 /\ Bit(v, 1) = (v \div 2) % 2 /\ Bit(v, 2) = (v \div 4) % 2
  BY DEF Bit
<1> QED BY <1>1

(* A nibble is its four bits. *)
LEMMA FourBits ==
    ASSUME NEW b0 \in {0, 1}, NEW b1 \in {0, 1}, NEW b2 \in {0, 1}, NEW b3 \in {0, 1}
    PROVE  LET n == b0 + 2 * b1 + 4 * b2 + 8 * b3
           IN n \in 0..15 /\ Bit(n, 0) = b0 /\ Bit(n, 1) = b1 /\ Bit(n, 2) = b2 /\ Bit(n, 3) = b3
<1> DEFINE n == b0 + 2 * b1 + 4 * b2 + 8 * b3
<1>1. n \in 0..15
  OBVIOUS
<1>2. (n \div 1) % 2 = b0 /\ (n \div 2) % 2 = b1 /\ (n \div 4) % 2 = b2 /\ (n \div 8) % 2 = b3
  OBVIOUS
<1>3. \A m : /\ Bit(m, 0) = (m \div 1) % 2 /\ Bit(m, 1) = (m \div 2) % 2
             /\ Bit(m, 2) = (m \div 4) % 2 /\ Bit(m, 3) = (m \div 8) % 2
  BY DEF Bit
<1> QED BY <1>1, <1>2, <1>3

(* The nibble of bit i has the bits i of the four conditions. *)
LEMMA NibbleIs ==
    ASSUME NEW ac \in [0..3 -> 0..7], NEW i \in 0..2
    PROVE  Nibble(ac, i) \in 0..15 /\ \A b \in 0..3 : Bit(Nibble(ac, i), b) = Bit(ac[b], i)
<1>1. \A b \in 0..3 : Bit(ac[b], i) \in {0, 1}
  <2> SUFFICES ASSUME NEW b \in 0..3 PROVE Bit(ac[b], i) \in {0, 1}
    OBVIOUS
  <2>1. ac[b] \in 0..7
    OBVIOUS
  <2>2. Bit(ac[b], 0) \in {0, 1} /\ Bit(ac[b], 1) \in {0, 1} /\ Bit(ac[b], 2) \in {0, 1}
    BY <2>1, ThreeBits
  <2>3. i = 0 \/ i = 1 \/ i = 2
    OBVIOUS
  <2> QED BY <2>2, <2>3
<1>2. PICK b0 \in {0, 1}, b1 \in {0, 1}, b2 \in {0, 1}, b3 \in {0, 1} :
         b0 = Bit(ac[0], i) /\ b1 = Bit(ac[1], i) /\ b2 = Bit(ac[2], i) /\ b3 = Bit(ac[3], i)
  BY <1>1
<1>3. Nibble(ac, i) = b0 + 2 * b1 + 4 * b2 + 8 * b3
  BY <1>2 DEF Nibble
<1>4. /\ Nibble(ac, i) \in 0..15
      /\ Bit(Nibble(ac, i), 0) = b0 /\ Bit(Nibble(ac, i), 1) = b1
      /\ Bit(Nibble(ac, i), 2) = b2 /\ Bit(Nibble(ac, i), 3) = b3
  BY <1>3, FourBits
<1>5. ASSUME NEW b \in 0..3 PROVE Bit(Nibble(ac, i), b) = Bit(ac[b], i)
  <2>1. b = 0 \/ b = 1 \/ b = 2 \/ b = 3
    OBVIOUS
  <2> QED BY <1>2, <1>4, <2>1
<1> QED BY <1>4, <1>5

(* Parsing the bytes of a trailer gives the conditions, and compiling      *)
(* these the bytes again.                                                  *)
LEMMA AccessCoded ==
    ASSUME NEW ac \in [0..3 -> 0..7]
    PROVE  /\ mfcl_parse_access(Bytes(Trailer(ac))) = ac
           /\ mfcl_compile_access(ac) = Bytes(Trailer(ac))
<1>1. PICK n0 \in 0..15, n1 \in 0..15, n2 \in 0..15 :
         n0 = Nibble(ac, 0) /\ n1 = Nibble(ac, 1) /\ n2 = Nibble(ac, 2)
  BY NibbleIs
<1>2. Bytes(Trailer(ac)) = <<(15 - n1) * 16 + (15 - n0), n0 * 16 + (15 - n2), n2 * 16 + n1>>
  BY <1>1 DEF Bytes, Trailer
<1>3. mfcl_compile_access(ac) = <<(15 - n0) + 16 * (15 - n1), (15 - n2) + 16 * n0, n1 + 16 * n2>>
  BY <1>1 DEF mfcl_compile_access
<1>4. (n0 * 16 + (15 - n2)) \div 16 = n0 /\ (n2 * 16 + n1) % 16 = n1 /\ (n2 * 16 + n1) \div 16 = n2
  OBVIOUS
<1>5. mfcl_parse_access(Bytes(Trailer(ac))) = [b \in 0..3 |-> Bit(n0, b) + 2 * Bit(n1, b) + 4 * Bit(n2, b)]
  BY <1>2, <1>4 DEF mfcl_parse_access
<1>6. ASSUME NEW b \in 0..3 PROVE Bit(n0, b) + 2 * Bit(n1, b) + 4 * Bit(n2, b) = ac[b]
  <2>1. Bit(n0, b) = Bit(ac[b], 0) /\ Bit(n1, b) = Bit(ac[b], 1) /\ Bit(n2, b) = Bit(ac[b], 2)
    BY <1>1, NibbleIs
  <2>2. ac[b] \in 0..7
    OBVIOUS
  <2> QED BY <2>1, <2>2, ThreeBits
<1>7. mfcl_parse_access(Bytes(Trailer(ac))) = ac
  BY <1>5, <1>6
<1>8. mfcl_compile_access(ac) = Bytes(Trailer(ac))
  BY <1>2, <1>3
<1> QED BY <1>7, <1>8

(* The bits of the eight conditions. *)
LEMMA ConditionBits ==
    ASSUME NEW c \in 0..7
    PROVE  /\ C(c, 1) <=> c \in {1, 3, 5, 7}
           /\ C(c, 2) <=> c \in {2, 3, 6, 7}
           /\ C(c, 3) <=> c \in {4, 5, 6, 7}
<1>1. Bit(c, 0) = (c \div 1) % 2 /\ Bit(c, 1) = (c \div 2) % 2 /\ Bit(c, 2) = (c \div 4) % 2
  BY DEF Bit
<1> QED BY <1>1 DEF C

(* The row of mfcl_exp_data for a condition says what the card does with   *)
(* a data block.                                                           *)
LEMMA DataRows ==
    ASSUME NEW c \in 0..7, NEW key \in AB
    PROVE  LET e == mfcl_exp_data[c + 1]
           IN /\ key \in e.read <=> MayRead(key, c)
              /\ key \in e.write <=> MayWrite(key, c)
              /\ key \in e.inc <=> MayInc(key, c)
              /\ key \in e.dec <=> MayDec(key, c)
<1> DEFINE e == mfcl_exp_data[c + 1]
<1>1. key = "A" \/ key = "B"
  BY DEF AB
<1>2. /\ C(c, 1) <=> c \in {1, 3, 5, 7}
      /\ C(c, 2) <=> c \in {2, 3, 6, 7}
      /\ C(c, 3) <=> c \in {4, 5, 6, 7}
  BY ConditionBits
<1>3. /\ c \in {0, 1, 2, 3, 4} => e.read = AB
      /\ c \in {5, 6} => e.read = B
      /\ c = 7 => e.read = NEVER
  BY DEF mfcl_exp_data, exp_data
<1>4. /\ c = 0 => e.write = AB
      /\ c \in {1, 3, 6} => e.write = B
      /\ c \in {2, 4, 5, 7} => e.write = NEVER
  BY DEF mfcl_exp_data, exp_data
<1>5. /\ c = 0 => e.inc = AB
      /\ c = 3 => e.inc = B
      /\ c \in {1, 2, 4, 5, 6, 7} => e.inc = NEVER
  BY DEF mfcl_exp_data, exp_data
<1>6. /\ c \in {0, 3, 4} => e.dec = AB
      /\ c \in {1, 2, 5, 6, 7} => e.dec = NEVER
  BY DEF mfcl_exp_data, exp_data
<1>7. c \in {0, 1, 2, 3, 4, 5, 6, 7}
  OBVIOUS
<1> HIDE DEF e
<1>8. key \in e.read <=> MayRead(key, c)
  BY <1>1, <1>2, <1>3, <1>7 DEF MayRead, AB, B, NEVER
<1>9. key \in e.write <=> MayWrite(key, c)
  BY <1>1, <1>2, <1>4, <1>7 DEF MayWrite, AB, B, NEVER
<1>10. key \in e.inc <=> MayInc(key, c)
  BY <1>1, <1>5, <1>7 DEF MayInc, AB, B, NEVER
<1>11. key \in e.dec <=> MayDec(key, c)
  BY <1>1, <1>2, <1>6, <1>7 DEF MayDec, AB, NEVER
<1> QED BY <1>8, <1>9, <1>10, <1>11 DEF e

(* The row of mfcl_exp_trailer says what it does with a trailer. *)
LEMMA TrailerRows ==
    ASSUME NEW c \in 0..7, NEW key \in AB
    PROVE  LET e == mfcl_exp_trailer[c + 1]
           IN /\ key \in e.acc_rd <=> MayReadAccess(key, c)
              /\ key \in e.acc_wr <=> MayWriteAccess(key, c)
              /\ key \in e.key_a_wr <=> MayWriteKeys(key, c)
              /\ key \in e.key_b_wr <=> MayWriteKeys(key, c)
              /\ key \in e.key_b_rd <=> (key = "A" /\ KeyBIsData(c))
<1> DEFINE e == mfcl_exp_trailer[c + 1]
<1>1. key = "A" \/ key = "B"
  BY DEF AB
<1>2. /\ C(c, 1) <=> c \in {1, 3, 5, 7}
      /\ C(c, 2) <=> c \in {2, 3, 6, 7}
      /\ C(c, 3) <=> c \in {4, 5, 6, 7}
  BY ConditionBits
<1>3. /\ c \in {0, 2, 4} => e.acc_rd = A /\ e.key_b_rd = A
      /\ c \in {1, 3, 5, 6, 7} => e.acc_rd = AB /\ e.key_b_rd = NEVER
  BY DEF mfcl_exp_trailer, exp_acc
<1>4. /\ c = 4 => e.acc_wr = A
      /\ c \in {5, 6} => e.acc_wr = B
      /\ c \in {0, 1, 2, 3, 7} => e.acc_wr = NEVER
  BY DEF mfcl_exp_trailer, exp_acc
<1>5. /\ c \in {0, 4} => e.key_a_wr = A /\ e.key_b_wr = A
      /\ c \in {1, 6} => e.key_a_wr = B /\ e.key_b_wr = B
      /\ c \in {2, 3, 5, 7} => e.key_a_wr = NEVER /\ e.key_b_wr = NEVER
  BY DEF mfcl_exp_trailer, exp_acc
<1>6. c \in {0, 1, 2, 3, 4, 5, 6, 7}
  OBVIOUS
<1>7. KeyBIsData(c) <=> c \in {0, 2, 4}
  BY <1>2, <1>6 DEF KeyBIsData
<1> HIDE DEF e
<1>8. /\ key \in e.acc_rd <=> MayReadAccess(key, c)
      /\ key \in e.key_b_rd <=> (key = "A" /\ KeyBIsData(c))
  BY <1>1, <1>3, <1>6, <1>7 DEF MayReadAccess, A, AB, NEVER
<1>9. key \in e.acc_wr <=> MayWriteAccess(key, c)
  BY <1>1, <1>2, <1>4, <1>6, <1>7 DEF MayWriteAccess, A, B, NEVER
<1>10. /\ key \in e.key_a_wr <=> MayWriteKeys(key, c)
       /\ key \in e.key_b_wr <=> MayWriteKeys(key, c)
  BY <1>1, <1>2, <1>5, <1>6, <1>7 DEF MayWriteKeys, A, B, NEVER
<1> QED BY <1>8, <1>9, <1>10 DEF e

(* When mifare-tool has read a trailer, the conditions it shows are those  *)
(* the card applies, whatever they are: mfcl_parse_access finds them in    *)
(* the bytes, mfcl_access_to_exp has the card's rules for both keys, and   *)
(* mfcl_compile_access gives the trailer's bytes again.                    *)
THEOREM AccessShownHolds == Spec => []AccessShown
<1>1. Base => AccessShown
  <2> SUFFICES ASSUME Base PROVE AccessShown
    OBVIOUS
  <2>1. PICK ac \in [0..3 -> 0..7] : ac = card.acc
    BY DEF Base, Types, CardRecord
  <2> DEFINE bytes == Bytes(Trailer(ac))
             s == mfcl_parse_access(bytes)
             e == mfcl_access_to_exp(s)
  <2>2. s = ac /\ mfcl_compile_access(s) = bytes
    BY AccessCoded
  <2> HIDE DEF s
  <2>3. /\ \A b \in 0..2 : e.block[b] = mfcl_exp_data[ac[b] + 1]
        /\ e.acc = mfcl_exp_trailer[ac[3] + 1]
    BY <2>2 DEF mfcl_access_to_exp
  <2> HIDE DEF e
  <2>4. ASSUME NEW key \in AB, NEW b \in 0..2
        PROVE  /\ key \in e.block[b].read <=> MayRead(key, ac[b])
               /\ key \in e.block[b].write <=> MayWrite(key, ac[b])
               /\ key \in e.block[b].inc <=> MayInc(key, ac[b])
               /\ key \in e.block[b].dec <=> MayDec(key, ac[b])
    <3>1. ac[b] \in 0..7 /\ e.block[b] = mfcl_exp_data[ac[b] + 1]
      BY <2>3
    <3> QED BY <3>1, DataRows, Zenon
  <2>5. ASSUME NEW key \in AB
        PROVE  /\ key \in e.acc.acc_rd <=> MayReadAccess(key, ac[3])
               /\ key \in e.acc.acc_wr <=> MayWriteAccess(key, ac[3])
               /\ key \in e.acc.key_a_wr <=> MayWriteKeys(key, ac[3])
               /\ key \in e.acc.key_b_wr <=> MayWriteKeys(key, ac[3])
               /\ key \in e.acc.key_b_rd <=> (key = "A" /\ KeyBIsData(ac[3]))
    <3>1. ac[3] \in 0..7
      OBVIOUS
    <3> QED BY <2>3, <3>1, TrailerRows, Zenon
  <2> QED BY <2>1, <2>2, <2>4, <2>5, Zenon DEF AccessShown, s, e
<1> QED BY <1>1, BaseInit, BaseStep, PTL DEF Spec

(* Every byte of a key survives the coding for the chip: of a key that     *)
(* mfcl_set_key loads the chip never reports KEY_ERR.                      *)
THEOREM KeyCoded == \A k \in 0..255 : LoadKey(rc632_mifare_transform_key(k)) = k
BY DEF LoadKey, rc632_mifare_transform_key
=============================================================================
