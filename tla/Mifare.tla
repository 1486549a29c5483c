------------------------------- MODULE Mifare -------------------------------
(***************************************************************************)
(* Mifare Classic and Mifare Ultralight: mfcl_read, mfcl_write, mful_read, *)
(* mful_write, the locking of Ultralight pages, the numbering of sectors   *)
(* and blocks, the coding of keys and of access conditions, and the        *)
(* functions of the tools that use them: mifare_classic_dump,              *)
(* mifare_ulight_read, mifare_ulight_blank, mifare_ulight_write, and       *)
(* --read and --write of mifare-tool.                                      *)
(*                                                                         *)
(* Layer 2 has selected the card before each of these (see Session).  A    *)
(* command or its answer may be lost, a command may arrive garbled, and a  *)
(* register access may fail, MaxTrouble times in all.  An answer that      *)
(* arrives is intact: the chip's driver hands on what it receives.         *)
(***************************************************************************)
EXTENDS Integers, Sequences, FiniteSets

CONSTANTS
    Cards,       \* kinds of card: "mini", "1k", "4k", "ul"
    Access,      \* access conditions of the card's sectors
    Ops,         \* what is run, with its page, length and key
    MaxOps,      \* bound: operations, one after the other, on one card
    MaxTrouble   \* bound: lost or garbled frames and failing accesses

ASSUME CardsAssumption == Cards \subseteq {"mini", "1k", "4k", "ul"}
ASSUME AccessAssumption == Access \subseteq [0..3 -> 0..7]
ASSUME OpsAssumption ==
    Ops \subseteq [name : {"dump", "read", "write", "ulread", "ulblank", "ulwrite", "lock"},
                   page : Nat, len : Nat, key : {"good", "bad"}]
(* mifare_ulight_write writes a page of data; 0 to 3 are not. *)
ASSUME PagesAssumption == \A o \in Ops : o.name = "ulwrite" => o.page > 3
ASSUME BoundAssumption == MaxOps \in Nat /\ MaxTrouble \in Nat

VARIABLES
    op,       \* the operation in progress
    at,       \* where it is
    sector,   \* locals of mifare_classic_dump, and block or page in its loop
    block,
    buf,      \* the caller's buffer: its length, its first byte, the rest
    rc,       \* result of the last call
    card,     \* kind, access conditions, state, sector authenticated for, block to write
    mem,      \* what has been written: block -> data
    lock,     \* locked pages of an Ultralight card
    shown,    \* the last line printed, and the blocks printed so far
    old,      \* mem and lock when the operation began
    count,    \* operations, and operations troubled
    trouble   \* losses and failures so far

local == <<op, at, sector, block, buf, rc, shown, old, count>>
vars == <<local, card, mem, lock, trouble>>

EINVAL == -22
EPERM == -1
EIO == -5
ETIMEDOUT == -110
EACCES == -13

None == "none"
ACK == 10

---------------------------------------------------------------------------
(* Sectors and blocks.                                                     *)

SMALL_SECTORS == 32
LARGE_SECTORS == 4
BLOCKS_1k == 4
BLOCKS_4k == 16
MFCL_PAGE_MAX == 255
MFUL_PAGE_MAX == 15

(* Faulty variant: large sectors start at sector 33. *)
sector2block_off(s) ==
    IF s <= SMALL_SECTORS THEN s * BLOCKS_1k
    ELSE IF s < SMALL_SECTORS + LARGE_SECTORS
    THEN SMALL_SECTORS * BLOCKS_1k + (s - SMALL_SECTORS - 1) * BLOCKS_4k
    ELSE EINVAL

mfcl_sector2block(s) ==
    IF s < SMALL_SECTORS THEN s * BLOCKS_1k
    ELSE IF s < SMALL_SECTORS + LARGE_SECTORS
    THEN SMALL_SECTORS * BLOCKS_1k + (s - SMALL_SECTORS) * BLOCKS_4k
    ELSE EINVAL

mfcl_sector_blocks(s) ==
    IF s < SMALL_SECTORS THEN BLOCKS_1k
    ELSE IF s < SMALL_SECTORS + LARGE_SECTORS THEN BLOCKS_4k ELSE EINVAL

(* mfcl_getopt(RFID_OPT_PROTO_SIZE), from ATQA and SAK. *)
mfcl_size(k) == CASE k = "mini" -> 320 [] k = "1k" -> 1024 [] k = "4k" -> 4096 [] OTHER -> EIO

(* Faulty variant: one sector too many. *)
num_sectors_over(k) == CASE mfcl_size(k) = 320 -> 6 [] mfcl_size(k) = 1024 -> 17
                         [] mfcl_size(k) = 4096 -> 41 [] OTHER -> EINVAL

num_sectors(k) == CASE mfcl_size(k) = 320 -> 5 [] mfcl_size(k) = 1024 -> 16
                    [] mfcl_size(k) = 4096 -> 40 [] OTHER -> EINVAL

(* The card's own numbering. *)
Blocks(k) == CASE k = "mini" -> 20 [] k = "1k" -> 64 [] k = "4k" -> 256 [] k = "ul" -> 16
SectorOf(b) == IF b < 128 THEN b \div 4 ELSE 32 + (b - 128) \div 16
(* Which of a sector's four access conditions block b has; 3 is the        *)
(* trailer's.                                                              *)
Group(b) == IF b < 128 THEN b % 4 ELSE ((b - 128) % 16) \div 5

---------------------------------------------------------------------------
(* Access conditions and keys.                                             *)

Bit(v, i) == (v \div 2^i) % 2

(* The nibble of bit i of the four conditions. *)
Nibble(ac, i) == Bit(ac[0], i) + 2 * Bit(ac[1], i) + 4 * Bit(ac[2], i) + 8 * Bit(ac[3], i)

mfcl_compile_access(ac) ==
    LET c1 == Nibble(ac, 0)  c2 == Nibble(ac, 1)  c3 == Nibble(ac, 2)
    IN <<(15 - c1) + 16 * (15 - c2), (15 - c3) + 16 * c1, c2 + 16 * c3>>

(* Faulty variant: C1 is taken from the inverted nibble of byte 1. *)
parse_access_inverted(e) ==
    LET c1 == e[2] % 16  c2 == e[3] % 16  c3 == e[3] \div 16
    IN [b \in 0..3 |-> Bit(c1, b) + 2 * Bit(c2, b) + 4 * Bit(c3, b)]

(* It does not look at the inverted nibbles. *)
mfcl_parse_access(e) ==
    LET c1 == e[2] \div 16  c2 == e[3] % 16  c3 == e[3] \div 16
    IN [b \in 0..3 |-> Bit(c1, b) + 2 * Bit(c2, b) + 4 * Bit(c3, b)]

A == {"A"}
B == {"B"}
AB == {"A", "B"}
NEVER == {}

(* Indexed by the condition, in the order of the index. *)
exp_data(r, w, i, d) == [read |-> r, write |-> w, inc |-> i, dec |-> d]
mfcl_exp_data ==
    <<exp_data(AB, AB, AB, AB),         exp_data(AB, B, NEVER, NEVER),
      exp_data(AB, NEVER, NEVER, NEVER), exp_data(AB, B, B, AB),
      exp_data(AB, NEVER, NEVER, AB),    exp_data(B, NEVER, NEVER, NEVER),
      exp_data(B, B, NEVER, NEVER),      exp_data(NEVER, NEVER, NEVER, NEVER)>>

(* Key A is never readable. *)
exp_acc(aw, r, w, br, bw) ==
    [key_a_wr |-> aw, acc_rd |-> r, acc_wr |-> w, key_b_rd |-> br, key_b_wr |-> bw]
mfcl_exp_trailer ==
    <<exp_acc(A, A, NEVER, A, A),             exp_acc(B, AB, NEVER, NEVER, B),
      exp_acc(NEVER, A, NEVER, A, NEVER),     exp_acc(NEVER, AB, NEVER, NEVER, NEVER),
      exp_acc(A, A, A, A, A),                 exp_acc(NEVER, AB, B, NEVER, NEVER),
      exp_acc(B, AB, B, NEVER, B),            exp_acc(NEVER, AB, NEVER, NEVER, NEVER)>>

mfcl_access_to_exp(s) ==
    [block |-> [b \in 0..2 |-> mfcl_exp_data[s[b] + 1]], acc |-> mfcl_exp_trailer[s[3] + 1]]

(* mifare-tool shows the conditions when page & 0x3 == 0x3, that is        *)
(* page & (0x3 == 0x3).                                                    *)
IsTrailer(p) == p % 2 = 1

(* One byte of a key, for the chip: each nibble with its complement. *)
rc632_mifare_transform_key(k) ==
    LET coded(n) == (15 - n) * 16 + n
    IN <<coded(k \div 16), coded(k % 16)>>

(* What the chip makes of the coded bytes: KEY_ERR, or the key. *)
LoadKey(c) == IF \A i \in 1..2 : c[i] \div 16 = 15 - (c[i] % 16)
              THEN (c[1] % 16) * 16 + (c[2] % 16) ELSE None

---------------------------------------------------------------------------
(* The card.  The bits of a condition are C1, C2, C3; a key opens a data   *)
(* block, or the access bits of a trailer, by the rules of the card's      *)
(* manual.                                                                 *)

C(c, i) == Bit(c, i - 1) = 1

MayRead(key, c)  == IF key = "A" THEN ~(C(c, 3) /\ (C(c, 1) \/ C(c, 2))) ELSE c # 7
MayWrite(key, c) ==
    \/ c = 0
    \/ key = "B" /\ IF C(c, 1) THEN ~C(c, 3) ELSE C(c, 2) /\ C(c, 3)
MayInc(key, c)   == c = 0 \/ (key = "B" /\ c = 3)
MayDec(key, c)   == (C(c, 1) <=> C(c, 2)) /\ c # 7
(* Conditions 000, 010 and 001 are those of a trailer whose key B is data: *)
(* key A reads it and the access bits.                                     *)
KeyBIsData(c) == ~C(c, 1) /\ ~(C(c, 2) /\ C(c, 3))
MayReadAccess(key, c) == key = "A" \/ ~KeyBIsData(c)
MayWriteAccess(key, c) ==
    C(c, 3) /\ IF KeyBIsData(c) THEN key = "A" ELSE key = "B" /\ ~(C(c, 1) /\ C(c, 2))
MayWriteKeys(key, c) ==
    /\ IF C(c, 2) THEN C(c, 3) /\ ~C(c, 1) ELSE ~(C(c, 1) /\ C(c, 3))
    /\ key = IF KeyBIsData(c) THEN "A" ELSE "B"

(* The access bytes of a trailer.  The card checks the inverted nibbles.   *)
Trailer(ac) == [b6 |-> <<15 - Nibble(ac, 1), 15 - Nibble(ac, 0)>>,
                b7 |-> <<Nibble(ac, 0), 15 - Nibble(ac, 2)>>,
                b8 |-> <<Nibble(ac, 2), Nibble(ac, 1)>>]
Bytes(t) == <<t.b6[1] * 16 + t.b6[2], t.b7[1] * 16 + t.b7[2], t.b8[1] * 16 + t.b8[2]>>

Content(b) == IF b \in DOMAIN mem THEN mem[b] ELSE <<"content", b>>

Silent == [n |-> 0, data |-> None]
Code(c) == [n |-> 1, data |-> c]
Data(b) == [n |-> 16, data |-> Content(b)]

(* After a refusal the card is idle, or goes on as if nothing had happened *)
(* when it is one of the lax kind.                                         *)
Refuses ==
    \E st \in {"idle", card.st} :
        /\ st # "writing"
        /\ card' = [card EXCEPT !.st = st]
        /\ UNCHANGED <<mem, lock>>

Stores(b, d) == mem' = [x \in DOMAIN mem \cup {b} |-> IF x = b THEN d ELSE mem[x]]

(* The card obeys command c and answers a. *)
Obeys(c, a) ==
    \/ /\ card.st = "idle" /\ a = Silent
       /\ UNCHANGED <<card, mem, lock>>
    \/ /\ c.cmd = "read" /\ card.kind = "ul" /\ card.st = "active" /\ a = Data(c.block)
       /\ UNCHANGED <<card, mem, lock>>
    \/ /\ c.cmd = "write4" /\ card.kind = "ul" /\ card.st = "active"
       /\ \/ c.block \in lock /\ a = Code(0) /\ Refuses
          \/ /\ c.block \notin lock /\ c.block # 2 /\ a = Code(ACK)
             /\ Stores(c.block, c.data) /\ UNCHANGED <<card, lock>>
          \/ /\ c.block = 2 /\ a = Code(ACK)
             /\ lock' = lock \cup {i \in 3..7 : Bit(c.data[1], i) = 1}
                             \cup {i \in 8..15 : Bit(c.data[2], i - 8) = 1}
             /\ UNCHANGED <<card, mem>>
    \/ /\ c.cmd = "read" /\ card.kind # "ul" /\ card.st = "auth"
       /\ LET may ==
                     /\ c.block < Blocks(card.kind) /\ SectorOf(c.block) = card.sec
                     /\ \/ Group(c.block) = 3
                        \/ MayRead("A", card.acc[Group(c.block)])
          IN \/ may /\ a = Data(c.block) /\ UNCHANGED <<card, mem, lock>>
             \/ ~may /\ a = Code(4) /\ Refuses
    \/ /\ c.cmd = "write16" /\ card.kind # "ul" /\ card.st = "auth"
       /\ LET may ==
                     /\ c.block < Blocks(card.kind) /\ SectorOf(c.block) = card.sec
                     /\ Group(c.block) # 3 /\ c.block # 0
                     /\ MayWrite("A", card.acc[Group(c.block)])
          IN \/ /\ may /\ a = Code(ACK)
                /\ card' = [card EXCEPT !.st = "writing", !.pend = c.block]
                /\ UNCHANGED <<mem, lock>>
             \/ ~may /\ a = Code(4) /\ Refuses
    \/ /\ c.cmd = "data" /\ card.st = "writing" /\ a = Code(ACK)
       /\ Stores(card.pend, c.data)
       /\ card' = [card EXCEPT !.st = "auth"] /\ UNCHANGED lock
    \/ /\ c.cmd = "data" /\ card.st \in {"active", "auth"} /\ a = Code(0) /\ Refuses

(* The command arrives garbled. *)
Garbled(a) ==
    \/ card.st = "idle" /\ a = Silent /\ UNCHANGED <<card, mem, lock>>
    \/ /\ card.st # "idle" /\ a = Code(1)
       /\ card' = [card EXCEPT !.st = "idle"] /\ UNCHANGED <<mem, lock>>

---------------------------------------------------------------------------
(* rfid_layer2_transceive, in one step: command c, result r, answer a.     *)

Trouble == trouble < MaxTrouble /\ trouble' = trouble + 1

Result(a, r) == r = IF a = Silent THEN ETIMEDOUT ELSE 0

Transceive(c, r, a) ==
    \/ Obeys(c, a) /\ Result(a, r) /\ UNCHANGED trouble
    \/ Garbled(a) /\ Result(a, r) /\ Trouble
    \/ /\ Trouble /\ a = Silent /\ r \in {ETIMEDOUT, EIO}
       /\ \/ UNCHANGED <<card, mem, lock>>
          \/ \E lost \in {Code(ACK), Code(0), Code(4), Data(c.block)} : Obeys(c, lost)

Answers(c) == {Silent, Code(ACK), Code(0), Code(1), Code(4), Data(c.block)}

---------------------------------------------------------------------------
(* Operations end, and the next one starts with the card selected again.   *)

Running(names) == op.name \in names

(* at[l] is the label the operation goes to. *)
Goto(l) == at' = l

Ends(r) == Goto("ended") /\ rc' = r

NoOp == [name |-> None, page |-> 0, len |-> 0, key |-> "good"]
Untouched == [b \in {} |-> <<>>]
NoLine == [last |-> -1, blocks |-> {}]
Buffer(n) == [len |-> n, head |-> None, rest |-> None]

First(o) ==
    CASE o.name \in {"dump", "read", "write"} -> "key"
      [] o.name = "ulread" -> "read"
      [] OTHER -> "cmd"

Start ==
    /\ at \in {"none", "ended"} /\ count.ops < MaxOps
    /\ \E o \in Ops :
          /\ (card.kind = "ul") <=> (o.name \in {"ulread", "ulblank", "ulwrite", "lock"})
          /\ op' = o /\ Goto(First(o))
          /\ block' = CASE o.name = "ulread" -> 0 [] o.name = "ulblank" -> 4 [] OTHER -> o.page
          /\ buf' = Buffer(IF o.name = "read" THEN 16 ELSE 20)
    /\ sector' = 0 /\ rc' = 0 /\ shown' = NoLine
    /\ old' = [mem |-> mem, lock |-> lock]
    /\ count' = [ops |-> count.ops + 1, before |-> trouble]
    /\ card' = [card EXCEPT !.st = "active", !.sec = 0, !.pend = 0]
    /\ UNCHANGED <<mem, lock, trouble>>

---------------------------------------------------------------------------
(* Keys and authentication.                                                *)

(* Where a failed set_key or auth leads: exit(1). *)
AuthFails(r) == Ends(r) /\ UNCHANGED <<op, sector, block, buf, shown, old, count>>

(* mfcl_set_key, for all the bytes of the key. *)
mfcl_set_key ==
    /\ at = "key"
    /\ \/ /\ \A k \in 0..255 : LoadKey(rc632_mifare_transform_key(k)) = k
          /\ Goto("auth") /\ rc' = 0 /\ UNCHANGED <<op, sector, block, buf, shown, old, count, trouble>>
       \/ Trouble /\ AuthFails(EIO)
    /\ UNCHANGED <<card, mem, lock>>

(* The block that is authenticated for: u_int8_t. *)
AuthBlock == (IF op.name = "dump" THEN mfcl_sector2block(sector) ELSE op.page) % 256

(* mfcl_auth.  A card that is idle, has not the key or not the block does  *)
(* not answer.                                                             *)
mfcl_auth ==
    /\ at = "auth"
    /\ \/ /\ card.st # "idle" /\ op.key = "good" /\ AuthBlock < Blocks(card.kind)
          /\ card' = [card EXCEPT !.st = "auth", !.sec = SectorOf(AuthBlock)]
          /\ rc' = 0
          /\ Goto(IF op.name = "write" THEN "cmd" ELSE "read")
          /\ IF op.name = "dump"
             THEN /\ block' = mfcl_sector2block(sector) /\ buf' = Buffer(20)
                  /\ shown' = [shown EXCEPT !.last = -1]
             ELSE UNCHANGED <<block, buf, shown>>
          /\ UNCHANGED <<op, sector, old, count, trouble>>
       \/ /\ \/ card.st = "idle" \/ op.key = "bad" \/ AuthBlock >= Blocks(card.kind)
          /\ \E r \in {ETIMEDOUT, EACCES} : AuthFails(r)
          /\ card' = [card EXCEPT !.st = "idle"] /\ UNCHANGED trouble
       \/ /\ Trouble
          /\ \E r \in {ETIMEDOUT, EIO, EACCES} : AuthFails(r)
          /\ card' = [card EXCEPT !.st = "idle"]
    /\ UNCHANGED <<mem, lock>>

---------------------------------------------------------------------------
(* Reading.                                                                *)

(* The answer in the caller's buffer, cut to its length. *)
Filled(a) ==
    LET n == IF a.n < buf.len THEN a.n ELSE buf.len
    IN [len |-> n, head |-> a.data, rest |-> IF n > 1 THEN a.data ELSE buf.rest]

(* mfcl_read and mful_read, once an answer has arrived. *)
ReadResult(a) == IF card.kind # "ul" /\ a = Code(4) THEN EPERM ELSE 0

(* The line for block b is printed. *)
Printed(b) == shown' = [last |-> b, blocks |-> shown.blocks \cup {b}]

(* What is left of the loops when a read has succeeded. *)
NextRead ==
    CASE op.name = "read" -> Goto("ended") /\ UNCHANGED <<sector, block>>
      [] op.name = "ulread" ->
            IF block < MFUL_PAGE_MAX THEN block' = block + 1 /\ Goto("read") /\ UNCHANGED sector
            ELSE Goto("ended") /\ UNCHANGED <<sector, block>>
      [] op.name = "dump" ->
            IF block + 1 < mfcl_sector2block(sector) + mfcl_sector_blocks(sector)
            THEN block' = block + 1 /\ Goto("read") /\ UNCHANGED sector
            ELSE Goto("next") /\ UNCHANGED <<sector, block>>

(* A failed read ends mifare_classic_read_sector, whose result the dump    *)
(* does not look at; it ends the other operations.                         *)
ReadFails(r) ==
    /\ Goto(IF op.name = "dump" THEN "next" ELSE "ended") /\ rc' = r
    /\ UNCHANGED <<op, sector, block, buf, shown, old, count>>

PageMax == IF card.kind = "ul" THEN MFUL_PAGE_MAX ELSE MFCL_PAGE_MAX

(* mfcl_read or mful_read, and what its caller does with the block.        *)
rfid_protocol_read ==
    /\ at = "read" /\ (op.name = "dump" => mfcl_sector2block(sector) >= 0)
    /\ \/ /\ block > PageMax /\ ReadFails(EINVAL)
          /\ UNCHANGED <<card, mem, lock, trouble>>
       \/ /\ block <= PageMax
          /\ LET c == [cmd |-> "read", block |-> block % 256]
             IN \E r \in {0, ETIMEDOUT, EIO}, a \in Answers(c) :
                   /\ Transceive(c, r, a)
                   /\ IF r < 0 \/ ReadResult(a) < 0
                      THEN ReadFails(IF r < 0 THEN r ELSE ReadResult(a))
                      ELSE /\ buf' = Filled(a) /\ rc' = 0
                           /\ Printed(block)
                           /\ NextRead
                           /\ UNCHANGED <<op, old, count>>

(* mifare_classic_read_sector for a sector that has no first block. *)
NoSuchSector ==
    /\ at = "read" /\ op.name = "dump" /\ mfcl_sector2block(sector) < 0
    /\ ReadFails(EINVAL)
    /\ UNCHANGED <<card, mem, lock, trouble>>

(* The loop of mifare_classic_dump. *)
mifare_classic_dump ==
    /\ at = "next"
    /\ IF sector + 1 < num_sectors(card.kind)
       THEN sector' = sector + 1 /\ Goto("key")
       ELSE Goto("ended") /\ UNCHANGED sector
    /\ UNCHANGED <<op, block, buf, rc, shown, old, count, card, mem, lock, trouble>>

---------------------------------------------------------------------------
(* Writing.                                                                *)

(* 1 << n in an unsigned char; a count that is negative as an int shifts   *)
(* by its low five bits, that is out of the byte.                          *)
Shift(n) == IF n \in 0..7 THEN 2^n ELSE 0

(* Bytes 2 and 3 that rfid_mful_lock_page writes. *)
lock_bytes(p) == IF p > 8 THEN <<Shift(p), 0>> ELSE <<0, Shift(p - 8)>>

(* The data of an operation. *)
Payload == CASE op.name = "lock" -> lock_bytes(op.page) [] OTHER -> <<op.name, count.ops>>

(* The page an Ultralight write goes to; rfid_mful_lock_page writes the    *)
(* page of the lock bytes.                                                 *)
Target == IF op.name = "lock" THEN 2 ELSE block

(* rfid_mful_lock_page, mfcl_write and mful_write refuse their arguments.  *)
Refused ==
    \/ op.name = "lock" /\ op.page \notin 3..15
    \/ op.name = "write" /\ (op.page > MFCL_PAGE_MAX \/ op.len # 16)
    \/ op.name = "ulwrite" /\ (op.page > MFUL_PAGE_MAX \/ op.len # 4)

WriteReturns(r) ==
    /\ rc' = r
    /\ IF op.name = "ulblank" /\ r >= 0 /\ block < MFUL_PAGE_MAX
       THEN block' = block + 1 /\ Goto("cmd")
       ELSE Goto("ended") /\ UNCHANGED block
    /\ UNCHANGED <<op, sector, buf, shown, old, count>>

write_refused ==
    /\ at = "cmd" /\ Refused
    /\ Ends(EINVAL)
    /\ UNCHANGED <<op, sector, block, buf, shown, old, count, card, mem, lock, trouble>>

(* The first exchange of mfcl_write: only its failure is looked at. *)
mfcl_write_cmd ==
    /\ at = "cmd" /\ op.name = "write" /\ ~Refused
    /\ LET c == [cmd |-> "write16", block |-> block % 256]
       IN \E r \in {0, ETIMEDOUT, EIO}, a \in Answers(c) :
             /\ Transceive(c, r, a)
             /\ IF r < 0 THEN WriteReturns(r)
                ELSE Goto("data") /\ UNCHANGED <<op, sector, block, buf, rc, shown, old, count>>

(* Faulty variant: an answer is taken for an acknowledgement. *)
AckedAny(a) == a.n = 1

(* rx[0] == 0x0a; the driver has cleared rx before the exchange. *)
Acked(a) == a.n = 1 /\ a.data = ACK

mfcl_write_data ==
    /\ at = "data"
    /\ LET c == [cmd |-> "data", block |-> block, data |-> Payload]
       IN \E r \in {0, ETIMEDOUT, EIO}, a \in Answers(c) :
             /\ Transceive(c, r, a)
             /\ WriteReturns(IF r < 0 THEN r ELSE IF Acked(a) THEN 0 ELSE EIO)

mful_write ==
    /\ at = "cmd" /\ card.kind = "ul" /\ ~Refused
    /\ LET c == [cmd |-> "write4", block |-> Target, data |-> Payload]
       IN \E r \in {0, ETIMEDOUT, EIO}, a \in Answers(c) :
             /\ Transceive(c, r, a)
             /\ WriteReturns(IF r < 0 THEN r ELSE IF Acked(a) THEN 0 ELSE EIO)

---------------------------------------------------------------------------

(* Access conditions of a new card; an Ultralight has none. *)
NewCard == [b \in 0..3 |-> IF b = 3 THEN 1 ELSE 0]

Init ==
    /\ op = NoOp /\ at = "none" /\ sector = 0 /\ block = 0 /\ buf = Buffer(20) /\ rc = 0
    /\ card \in [kind : Cards \ {"ul"}, acc : Access, st : {"active"}, sec : {0}, pend : {0}]
                \cup [kind : Cards \cap {"ul"}, acc : {NewCard}, st : {"active"}, sec : {0}, pend : {0}]
    /\ mem = Untouched /\ lock = {} /\ shown = NoLine
    /\ old = [mem |-> mem, lock |-> lock]
    /\ count = [ops |-> 0, before |-> 0] /\ trouble = 0

Next ==
    \/ Start \/ mfcl_set_key \/ mfcl_auth
    \/ rfid_protocol_read \/ NoSuchSector \/ mifare_classic_dump
    \/ write_refused \/ mfcl_write_cmd \/ mfcl_write_data \/ mful_write

Spec == Init /\ [][Next]_vars

---------------------------------------------------------------------------
(* Properties.                                                             *)

(* The variables keep their types. *)
TypeOK ==
    /\ op \in Ops \cup {NoOp} /\ at \in {"none", "key", "auth", "read", "next", "cmd", "data", "ended"}
    /\ sector \in 0..39 /\ block \in Nat \cup {EINVAL} /\ buf.len \in {1, 16, 20}
    /\ rc \in {0, EINVAL, EPERM, EIO, ETIMEDOUT, EACCES}
    /\ card.st \in {"active", "auth", "writing", "idle"} /\ card.kind \in Cards
    /\ card.sec \in 0..39 /\ card.pend \in 0..255
    /\ DOMAIN mem \subseteq 0..255 /\ lock \subseteq 0..15
    /\ count.ops \in 0..MaxOps /\ trouble \in 0..MaxTrouble

(* What a write reports is what happened to the card, although a Mifare    *)
(* Classic block takes two exchanges of which either may get lost and the  *)
(* first one's refusal is not looked at: when it succeeded the block has   *)
(* the new content; when it failed, the old or the new one; arguments that *)
(* are refused reach no card; and no other block changes and no other page *)
(* than the one named is locked.  (Nothing is said of what a lock that     *)
(* succeeds has locked: "lock a certain page" holds for page 8 only.)      *)
WriteOutcome ==
    LET changed == {b \in DOMAIN mem : b \notin DOMAIN old.mem \/ mem[b] # old.mem[b]}
        locked  == lock \ old.lock
    IN /\ changed \subseteq CASE op.name \in {"write", "ulwrite"} -> {op.page}
                             [] op.name = "ulblank" -> 4..15
                             [] OTHER -> {}
       /\ \A b \in changed : mem[b] = Payload
       /\ locked \subseteq IF op.name = "lock" THEN {op.page} ELSE {}
       /\ at = "ended" /\ rc >= 0 =>
             CASE op.name \in {"write", "ulwrite"} -> Content(op.page) = Payload
               [] op.name = "ulblank" -> \A b \in 4..15 : Content(b) = Payload
               [] OTHER -> TRUE
       /\ at = "ended" /\ rc = EINVAL => changed = {} /\ locked = {}

(* A line that a tool prints has the content of its block; until a short   *)
(* answer (a refusal whose code is not 4, which mfcl_read and mful_read    *)
(* report as a success), after which the rest of the buffer, of which      *)
(* mifare_ulight_read prints three bytes, is an earlier page's.  A dump    *)
(* that meets no trouble, with the right key, shows all blocks of a card   *)
(* that lets key A read them: each under the authentication of its own     *)
(* sector.  (Of a card with 4 KB it shows the first 36 sectors.)           *)
ReadOutcome ==
    /\ shown.last >= 0 =>
          IF buf.len > 1 THEN {buf.head, buf.rest} = {Content(shown.last)}
          ELSE count.before < trouble
    /\ at = "ended" /\ op.name = "dump" /\ op.key = "good" /\ trouble = count.before
       /\ (\A b \in 0..2 : MayRead("A", card.acc[b])) =>
          shown.blocks = 0..(IF card.kind = "4k" THEN 192 ELSE Blocks(card.kind)) - 1

(* When mifare-tool has read a trailer, the conditions it shows are those  *)
(* the card applies, for both keys and every use of a block, and           *)
(* mfcl_compile_access gives the trailer's own bytes again.                *)
AccessShown ==
    op.name = "read" /\ at = "ended" /\ rc = 0 /\ IsTrailer(op.page) /\ Group(op.page) = 3
    /\ buf.len = 16 =>
        LET bytes == Bytes(Trailer(card.acc))
            s == mfcl_parse_access(bytes)
            e == mfcl_access_to_exp(s)
            t == card.acc[3]
        IN /\ s = card.acc /\ mfcl_compile_access(s) = bytes
           /\ \A key \in AB :
                 /\ \A b \in 0..2 : LET c == card.acc[b]
                                   IN /\ key \in e.block[b].read <=> MayRead(key, c)
                                      /\ key \in e.block[b].write <=> MayWrite(key, c)
                                      /\ key \in e.block[b].inc <=> MayInc(key, c)
                                      /\ key \in e.block[b].dec <=> MayDec(key, c)
                 /\ key \in e.acc.acc_rd <=> MayReadAccess(key, t)
                 /\ key \in e.acc.acc_wr <=> MayWriteAccess(key, t)
                 /\ key \in e.acc.key_a_wr <=> MayWriteKeys(key, t)
                 /\ key \in e.acc.key_b_wr <=> MayWriteKeys(key, t)
                 /\ key \in e.acc.key_b_rd <=> key = "A" /\ KeyBIsData(t)
=============================================================================
