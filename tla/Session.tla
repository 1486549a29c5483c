------------------------------ MODULE Session ------------------------------
(***************************************************************************)
(* The tools, the dispatch layers and the reader, from process start to    *)
(* process exit: reader_init, rfid_scan and the operations of the layer-2  *)
(* and protocol handles it calls, the tools' loops around them             *)
(* (do_scan, do_endless_scan, do_enum, do_enum_loop, iso15693_dump,        *)
(* iso15693_write, main, and mifare-tool's loop-read), and what they leave *)
(* in the registers of the chip and in the tags.                           *)
(*                                                                         *)
(* An exchange is two steps: the frame goes on the air, and the tags hear  *)
(* it and answer or not.  How a layer resolves collisions, how T=CL        *)
(* exchanges data and how an exchange works inside the chip are the        *)
(* subject of ISO14443A, ISO15693, TCL and RC632.                          *)
(*                                                                         *)
(* Register accesses fail, answers are lost, tags come and go, and users   *)
(* interrupt a tool, MaxTrouble times in all.  The chip and the tags keep  *)
(* their state from one tool to the next.                                  *)
(***************************************************************************)
EXTENDS Integers, Sequences, FiniteSets

CONSTANTS
    Tag,         \* the tags
    Kind,        \* what each of them is
    Tools,       \* the command lines: name, layer and protocol
    Reader,      \* the reader that is plugged in
    Fields,      \* sets of tags in the field at first
    Cuts,        \* numbers of writes after which a register script fails
    Garbage,     \* values of proto_supported in fresh memory
    MaxTrouble   \* bound: failing register accesses, lost answers, tags that
                 \* enter or leave the field, and interrupted tools

Kinds == {"classic", "ul", "tcl", "fast", "b", "v"}
Layers == <<"A", "B", "V">>
Protocols == <<"TCL", "UL", "CLASSIC">>
Proto == {"TCL", "UL", "CLASSIC"}

ASSUME TagAssumption == "none" \notin Tag
ASSUME KindAssumption == Kind \in [Tag -> Kinds]
ASSUME ToolsAssumption ==
    Tools \subseteq [name : {"scan", "endless", "enum", "enumloop", "dump", "main", "mifare"},
                     layer : {"A", "B", "V"}, proto : Proto]
(* mifare_l3 names its layer and protocol itself. *)
ASSUME FixedAssumption ==
    \A t \in Tools : t.name = "mifare" => t.layer = "A" /\ t.proto = "CLASSIC"
ASSUME ReaderAssumption == Reader \in {"openpcd", "cm5121"}
ASSUME FieldAssumption == Fields \subseteq SUBSET Tag
ASSUME CutsAssumption == Cuts \subseteq Nat
ASSUME GarbageAssumption == Garbage \subseteq SUBSET Proto
ASSUME BoundAssumption == MaxTrouble \in Nat

VARIABLES
    tool,    \* the tool: its command line, where it is, do_endless_scan's first
    rh,      \* the reader handle
    l2h, ph, \* the tool's handles (globals of common.c)
    lib,     \* the library call in progress, with its locals
    new,     \* handle that rfid_layer2_scan1 has and the tool has not
    newp,    \* handle that rfid_protocol_scan1 has and the tool has not
    chip,    \* the registers
    air,     \* the frame on the air
    tags,    \* state of each tag
    field,   \* the tags in the field
    trouble  \* failures, movements and interrupts so far

handles == <<l2h, ph, new, newp>>
vars == <<tool, rh, handles, lib, chip, air, tags, field, trouble>>

NoTag    == "none"
NoHandle == [layer |-> "none", tag |-> NoTag, protos |-> {}]
NoProto  == [proto |-> "none", tag |-> NoTag]
NoCall   == [at |-> "none", call |-> "none", i |-> 1, n |-> 0, stale |-> FALSE,
             tag |-> NoTag, rc |-> 0]
NoFrame  == [kind |-> "none", layer |-> "none", tag |-> NoTag]

LayerOf(t) == CASE Kind[t] = "b" -> "B" [] Kind[t] = "v" -> "V" [] OTHER -> "A"

(* Cascade levels of a UID: 7 bytes on a Mifare Ultralight, 4 else. *)
Levels(t) == IF Kind[t] = "ul" THEN 2 ELSE 1

(* iso14443a_anticol, from bit 0x20 of the SAK. *)
proto_supported(t) == IF Kind[t] \in {"tcl", "fast"} THEN {"TCL"} ELSE {"UL", "CLASSIC"}

---------------------------------------------------------------------------
(* The chip's registers.  A configuration register holds what a layer's    *)
(* script wrote to it, or the setting of a higher bit rate.                *)

CommonScript == <<"TX_CONTROL", "CW_CONDUCTANCE", "MOD_CONDUCTANCE", "CODER_CONTROL",
                  "MOD_WIDTH", "MOD_WIDTH_SOF", "TYPE_B_FRAMING", "RX_CONTROL1">>
Reg == {"TX_CONTROL", "CW_CONDUCTANCE", "MOD_CONDUCTANCE", "CODER_CONTROL", "MOD_WIDTH",
        "MOD_WIDTH_SOF", "TYPE_B_FRAMING", "RX_CONTROL1", "DECODER_CONTROL", "BIT_PHASE",
        "RX_THRESHOLD", "BPSK_DEM_CONTROL", "RX_CONTROL2", "RX_WAIT",
        "CRC_PRESET_LSB", "CRC_PRESET_MSB"}

(* iso14443a_script, and the writes of rc632_iso14443b_init. *)
iso14443_script ==
    CommonScript \o
    <<"DECODER_CONTROL", "BIT_PHASE", "RX_THRESHOLD", "BPSK_DEM_CONTROL", "RX_CONTROL2",
      "RX_WAIT", "CHANNEL_REDUNDANCY", "CRC_PRESET_LSB", "CRC_PRESET_MSB">>

(* It does not set RX_WAIT. *)
iso15693_fast_script ==
    CommonScript \o
    <<"RX_CONTROL2", "DECODER_CONTROL", "BIT_PHASE", "RX_THRESHOLD", "BPSK_DEM_CONTROL",
      "CHANNEL_REDUNDANCY", "CRC_PRESET_LSB", "CRC_PRESET_MSB">>

Script(l) == IF l = "V" THEN iso15693_fast_script ELSE iso14443_script

Wrote(s, k) == {s[i] : i \in 1..k}

(* CHANNEL_REDUNDANCY of the scripts and of regular frames. *)
ScriptCR(l)  == IF l = "A" THEN {"PARITY"} ELSE {"CRC3309", "RX_CRC", "TX_CRC"}
RegularCR(l) == {"RX_CRC", "TX_CRC"} \cup (IF l = "A" THEN {"PARITY"} ELSE {"CRC3309"})

(* rc632_execute_script and rc632_iso14443b_init: the first k writes of    *)
(* the script have reached the chip.  TX_CONTROL switches the field on.    *)
Executed(c, l, k) ==
    LET w == Wrote(Script(l), k)
    IN [c EXCEPT !.cfg = [r \in Reg |-> IF r \in w THEN l ELSE @[r]],
                 !.cr  = IF "CHANNEL_REDUNDANCY" \in w THEN ScriptCR(l) ELSE @,
                 !.rf  = @ \/ "TX_CONTROL" \in w]

(* rc632_reg_write(CONTROL, FIFO_FLUSH) clears the other bits of CONTROL.  *)
Flushed(c) == [c EXCEPT !.crypto = FALSE]

(* rc632_iso14443a_set_speed. *)
SpeedRegs(tx) == IF tx THEN <<"CODER_CONTROL", "MOD_WIDTH">>
                 ELSE <<"RX_CONTROL1", "DECODER_CONTROL", "RX_THRESHOLD", "BPSK_DEM_CONTROL">>

SetSpeed(c, tx, k) ==
    [c EXCEPT !.cfg = [r \in Reg |-> IF r \in Wrote(SpeedRegs(tx), k) THEN "fast" ELSE @[r]]]

AtSpeed == \A r \in Wrote(SpeedRegs(TRUE), 2) \cup Wrote(SpeedRegs(FALSE), 4) :
               chip.cfg[r] = "fast"
AtBase  == \A r \in Wrote(SpeedRegs(TRUE), 2) \cup Wrote(SpeedRegs(FALSE), 4) :
               chip.cfg[r] = "A"

(* Bits of CHANNEL_REDUNDANCY; its other bits stay. *)
clear_bits(c, bits) == [c EXCEPT !.cr = @ \ bits]

(* BIT_FRAMING of frame f: 7 for a short frame, the bits of the split byte *)
(* for an anticollision frame that ends inside one.                        *)
Framing(f) ==
    CASE f.kind = "sf"  -> {{"TxLastBits"}}
      [] f.kind = "acf" -> {{}, {"TxLastBits", "RxAlign"}}
      [] OTHER          -> {{}}

(* Faulty variant: a short frame goes out encrypted when Crypto1 is on. *)
ShortPreparedEncrypted(c, b, k) ==
    [c EXCEPT !.bits = IF k >= 1 THEN b ELSE @,
              !.cr   = IF k >= 3 THEN @ \ {"RX_CRC", "TX_CRC"} ELSE @]

(* The first k writes that transceive_sf makes before its frame, with      *)
(* framing b.                                                              *)
ShortPrepared(c, b, k) ==
    [c EXCEPT !.bits   = IF k >= 1 THEN b ELSE @,
              !.crypto = @ /\ k < 2,
              !.cr     = IF k >= 3 THEN @ \ {"RX_CRC", "TX_CRC"} ELSE @]

(* Those of transceive_acf, which clears TX_CRC twice and leaves RX_CRC.   *)
SplitPrepared(c, b, k) ==
    [c EXCEPT !.crypto = @ /\ k < 1,
              !.cr     = IF k >= 2 THEN @ \ {"TX_CRC"} ELSE @,
              !.bits   = IF k >= 3 THEN b ELSE @]

(* The chip after the first k writes that f's function makes before it:    *)
(* transceive_sf, transceive_acf, mifare_auth, iso15693_transceive_ac      *)
(* (none), iso14443ab_transceive.  Only the first two write BIT_FRAMING.   *)
Prepared(c, f, b, k) ==
    CASE f.kind = "sf"   -> ShortPrepared(c, b, k)
      [] f.kind = "acf"  -> SplitPrepared(c, b, k)
      [] f.kind = "auth" -> IF k >= 1 THEN clear_bits(c, {"RX_CRC"}) ELSE c
      [] f.kind = "inv"  -> c
      [] OTHER           -> IF k >= 1 THEN [c EXCEPT !.cr = RegularCR(f.layer)] ELSE c

(* The chip clears TxLastBits when it has transmitted, and RxAlign when    *)
(* something has come back: rc632_iso14443ab_transceive sends SELECT       *)
(* behind a split anticollision frame without writing BIT_FRAMING.         *)
Exchanged(c, heard) ==
    [c EXCEPT !.bits = @ \ IF heard THEN {"TxLastBits", "RxAlign"} ELSE {"TxLastBits"}]

(* rc632_init: power down and up, two registers, the field off and on;     *)
(* its first k accesses have reached the chip.                             *)
rc632_init(c, k) ==
    [c EXCEPT !.power = CASE k = 0 -> @ [] k = 1 -> FALSE [] OTHER -> TRUE,
              !.cfg = IF k >= 4 THEN [@ EXCEPT !["TX_CONTROL"] = "reset"] ELSE @,
              !.rf = CASE k < 4 -> @ [] k = 5 -> FALSE [] OTHER -> TRUE]

(* rc632_fini: the field off, then power down. *)
rc632_fini(c, k) == [c EXCEPT !.rf = @ /\ k = 0, !.power = @ /\ k < 2]

Idle(ts) == [t \in Tag |-> IF t \in ts THEN "idle" ELSE tags[t]]

---------------------------------------------------------------------------
(* The tags.                                                               *)

Powered == chip.power /\ chip.rf

(* The chip is set up for frame f by its own layer and by nothing else, at *)
(* the bit rate of the tag.  Nothing is said of RX_WAIT in ISO 15693.      *)
Scripted(f) ==
    /\ Powered
    /\ \A r \in Reg \ (IF f.layer = "V" THEN {"RX_WAIT"} ELSE {}) :
          \/ chip.cfg[r] = f.layer
          \/ chip.cfg[r] = "fast" /\ f.kind \in {"iblock", "deselect", "hlta"}

(* It has the redundancy the frame needs.  Nothing is said of the CRC of   *)
(* the receiver in an anticollision frame, which transceive_acf leaves on  *)
(* after a SELECT (and whose errors the chip's driver ignores).            *)
Redundant(f) ==
    CASE f.kind = "sf"   -> chip.cr = {"PARITY"}
      [] f.kind = "acf"  -> chip.cr \ {"RX_CRC"} = {"PARITY"}
      [] f.kind = "auth" -> chip.cr = {"PARITY", "TX_CRC"}
      [] OTHER           -> chip.cr = RegularCR(f.layer)

(* Crypto1 is off unless the tag has authenticated. *)
Enciphered(f) == f.kind # "auth" => (chip.crypto <=> f.kind = "mfread")

(* Bytes go out whole but in short and in split frames. *)
Whole(f) == "TxLastBits" \in chip.bits => f.kind \in {"sf", "acf"}

SetUpFor(f) == Scripted(f) /\ Redundant(f) /\ Enciphered(f) /\ Whole(f)

(* The frame means tag t, in the state it is in. *)
Accepts(f, t) ==
    LET s == tags[t]
        own == t = f.tag
    IN CASE f.kind \in {"sf", "reqb", "inv"} -> s = "idle"
         [] f.kind = "acf"    -> s = "ready"
         [] f.kind = "select" -> s = "ready" /\ own
         [] f.kind = "rats"   -> s = "active" /\ own /\ Kind[t] \in {"tcl", "fast"}
         [] f.kind = "pps"    -> s = "proto" /\ own
         [] f.kind \in {"iblock", "deselect"} ->
                own /\ ((s = "proto" /\ AtBase) \/ (s = "protofast" /\ AtSpeed))
         [] f.kind = "hlta"   -> s = "active"
         [] f.kind = "auth"   -> s \in {"active", "auth"} /\ own
         [] f.kind = "mfread" -> s = "auth" /\ own
         [] f.kind = "ulread" -> s = "active" /\ own
         [] OTHER             -> own                       \* quiet, block

Becomes(f, t) ==
    CASE f.kind = "sf"     -> "ready"
      [] f.kind = "select" -> IF lib.n = Levels(t) THEN "active" ELSE "ready"
      [] f.kind = "rats"   -> "proto"
      [] f.kind = "pps"    -> "protofast"
      [] f.kind \in {"deselect", "hlta"} -> "halt"
      [] f.kind = "quiet"  -> "quiet"
      [] f.kind = "auth"   -> "auth"
      [] OTHER             -> tags[t]

Hearers == IF SetUpFor(air) THEN {t \in field : LayerOf(t) = air.layer} ELSE {}

(* A frame that means another tag or makes no sense sends a tag of type A  *)
(* that is not halted or in T=CL back to its idle state.                   *)
Heard ==
    LET hs == Hearers
    IN tags' = [t \in Tag |-> IF t \notin hs THEN tags[t]
                              ELSE IF Accepts(air, t) THEN Becomes(air, t)
                              ELSE IF tags[t] \in {"ready", "active", "auth"} THEN "idle"
                              ELSE tags[t]]

Repliers == IF air.kind \in {"hlta", "quiet"} THEN {}
            ELSE {t \in Hearers : Accepts(air, t)}

---------------------------------------------------------------------------
(* Exchanges.                                                              *)

Trouble == trouble < MaxTrouble /\ trouble' = trouble + 1

Works == UNCHANGED trouble
Fails == Trouble

FrameKinds == {"sf", "acf", "select", "reqb", "inv", "rats", "pps", "iblock", "deselect",
               "hlta", "quiet", "block", "auth", "mfread", "ulread"}

(* The handle that the call works on. *)
Handle == IF new # NoHandle THEN new ELSE l2h

Frame == [kind |-> lib.at, layer |-> Handle.layer, tag |-> lib.tag]

Send ==
    /\ lib.at \in FrameKinds /\ air = NoFrame
    /\ air' = Frame
    /\ \E b \in Framing(Frame) : chip' = Prepared(chip, Frame, b, 3)
    /\ UNCHANGED <<tool, rh, handles, lib, tags, field, trouble>>

(* The answer is shifted by a RxAlign that is not the frame's own. *)
Shifted == "RxAlign" \in chip.bits /\ air.kind # "acf"

(* The tags one of which answers the frame, if it is of one of kinds K;    *)
(* its answer is received.                                                 *)
Answers(K) == IF air.kind \in K /\ ~Shifted THEN Repliers ELSE {}

Heeded == Works /\ Heard /\ air' = NoFrame
Received == Heeded /\ chip' = Exchanged(chip, TRUE)

(* The exchange fails: nobody answers, several tags do, the answer is      *)
(* shifted or lost, or the frame was never sent.                           *)
Unanswered(K) ==
    \/ /\ air.kind \in K
       /\ \/ /\ Works /\ (Cardinality(Repliers) # 1 \/ Shifted)
             /\ chip' = Exchanged(chip, Repliers # {})
          \/ Fails /\ chip' \in {Exchanged(chip, heard) : heard \in {FALSE, Repliers # {}}}
       /\ Heard /\ air' = NoFrame
    \/ /\ lib.at \in K /\ air = NoFrame
       /\ Fails
       /\ \E b \in Framing(Frame), k \in 0..3 : chip' = Prepared(chip, Frame, b, k)
       /\ UNCHANGED <<tags, air>>

---------------------------------------------------------------------------
(* The library: layer 2.                                                   *)

Returns(rc) == lib' = [NoCall EXCEPT !.rc = rc]

OpenFrame(l) == CASE l = "A" -> "sf" [] l = "B" -> "reqb" [] l = "V" -> "inv"

(* rfid_layer2_scan1 returned NULL; rfid_layer2_scan tries the next layer, *)
(* and in the end returns NULL too.                                        *)
ScanNext ==
    IF lib.i < Len(Layers)
    THEN lib' = [lib EXCEPT !.at = "init", !.i = @ + 1] /\ UNCHANGED l2h
    ELSE l2h' = NoHandle /\ Returns(0)

(* Fields of a new handle: zeroed for type A, what malloc returned for the *)
(* others.                                                                 *)
FreshHandle(l) == [layer : {l}, tag : {NoTag}, protos : IF l = "A" THEN {{}} ELSE Garbage]

Inited(l) ==
    \E h \in FreshHandle(l) :
        IF lib.call = "scan"
        THEN new' = h /\ lib' = [lib EXCEPT !.at = OpenFrame(l), !.n = 0, !.stale = FALSE]
                      /\ UNCHANGED l2h
        ELSE l2h' = h /\ Returns(0) /\ UNCHANGED new

NotInited ==
    /\ UNCHANGED new
    /\ IF lib.call = "scan" THEN ScanNext ELSE l2h' = NoHandle /\ Returns(-1)

(* rfid_layer2_init: iso14443a_init, iso14443b_init and iso15693_init, and *)
(* below them the chip's init.  The handle is freed when a write fails;    *)
(* but rc632_iso14443a_init drops the result of the first one.             *)
rfid_layer2_init ==
    /\ lib.at = "init"
    /\ LET l == Layers[lib.i]
           all == Len(Script(l))
       IN \/ Works /\ chip' = Executed(Flushed(chip), l, all) /\ Inited(l)
          \/ l = "A" /\ Fails /\ chip' = Executed(chip, l, all) /\ Inited(l)
          \/ l # "A" /\ Fails /\ chip' = chip /\ NotInited
          \/ Fails /\ NotInited /\ \E k \in Cuts \cap (0..all) : chip' = Executed(Flushed(chip), l, k)
    /\ UNCHANGED <<tool, rh, ph, newp, air, tags, field>>

(* The layer's open returns rc >= 0. *)
OpenSucceeds(t, rc) ==
    /\ l2h' = [Handle EXCEPT !.tag = t,
                             !.protos = IF Handle.layer = "A" THEN proto_supported(t) ELSE @]
    /\ new' = NoHandle
    /\ IF lib.call = "scan"
       THEN lib' = [lib EXCEPT !.at = "pinit", !.n = 1, !.tag = t]
       ELSE Returns(rc)

(* Faulty variant: rfid_layer2_scan1 forgets rfid_layer2_fini. *)
OpenFailsUnfreed ==
    IF lib.call = "scan" THEN UNCHANGED new /\ ScanNext
    ELSE Returns(-1) /\ UNCHANGED <<l2h, new>>

(* The layer's open fails: rfid_layer2_scan1 frees the handle, a tool that *)
(* called rfid_layer2_open itself still has it.                            *)
OpenFails ==
    IF lib.call = "scan" THEN new' = NoHandle /\ ScanNext
    ELSE Returns(-1) /\ UNCHANGED <<l2h, new>>

(* iso14443a_anticol: REQA, then the anticollision frame (its loop is in   *)
(* ISO14443A) and SELECT on each cascade level.                            *)
ReqaAnswered ==
    /\ Answers({"sf"}) # {} /\ Heeded
    /\ chip' = [chip EXCEPT !.bits = {}]
    /\ lib' = [lib EXCEPT !.at = "acf", !.n = 1]
    /\ UNCHANGED <<tool, rh, handles, field>>

AcfAnswered ==
    /\ \E t \in Answers({"acf"}) : Received /\ lib' = [lib EXCEPT !.at = "select", !.tag = t]
    /\ UNCHANGED <<tool, rh, handles, field>>

SelectAnswered ==
    /\ \E t \in Answers({"select"}) :
          /\ Received
          /\ IF lib.n < Levels(t)
             THEN lib' = [lib EXCEPT !.at = "acf", !.n = @ + 1] /\ UNCHANGED handles
             ELSE OpenSucceeds(t, 0) /\ UNCHANGED <<ph, newp>>
    /\ UNCHANGED <<tool, rh, field>>

(* iso15693_anticol; it returns 1. *)
InventoryAnswered ==
    /\ \E t \in Answers({"inv"}) : Received /\ OpenSucceeds(t, 1)
    /\ UNCHANGED <<tool, rh, ph, newp, field>>

OpenUnanswered ==
    /\ Unanswered({"sf", "acf", "select", "inv"})
    /\ OpenFails
    /\ UNCHANGED <<tool, rh, ph, newp, field>>

(* Faulty variant: a number of slots past 16 is tried too. *)
NextSlotBeyond(stale) ==
    IF lib.n < 5 THEN lib' = [lib EXCEPT !.n = @ + 1, !.stale = stale] /\ UNCHANGED <<l2h, new>>
    ELSE OpenFails

(* send_reqb: the next number of slots, up to 4 (that is 16). *)
NextSlot(stale) ==
    IF lib.n < 4 THEN lib' = [lib EXCEPT !.n = @ + 1, !.stale = stale] /\ UNCHANGED <<l2h, new>>
    ELSE OpenFails

(* A short answer shortens atqb_len, which is never set back, so that the  *)
(* answers after it are refused too; an ATQB that parse_atqb takes is      *)
(* followed by transceive_attrib, which returns before it sends anything   *)
(* (rx_len >= rx_len-1 compares pointers); one it refuses is not.          *)
ReqbAnswered ==
    /\ \E short \in BOOLEAN :
          /\ Answers({"reqb"}) # {} /\ Received
          /\ \/ (short \/ lib.stale) /\ NextSlot(TRUE)
             \/ ~short /\ ~lib.stale /\ (OpenFails \/ NextSlot(FALSE))
    /\ UNCHANGED <<tool, rh, ph, newp, field>>

ReqbUnanswered ==
    /\ Unanswered({"reqb"})
    /\ NextSlot(lib.stale)
    /\ UNCHANGED <<tool, rh, ph, newp, field>>

---------------------------------------------------------------------------
(* The library: protocols.                                                 *)

(* Type A, the ATQA of an Ultralight and 7 bytes of UID. *)
mful_init == l2h.layer = "A" /\ Kind[l2h.tag] = "ul"

(* Type A and 4 bytes of UID. *)
mfcl_init == l2h.layer = "A" /\ Levels(l2h.tag) = 1

(* rfid_protocol_init; tcl_init asks nothing of the layer. *)
fn_init(p) ==
    CASE p = "TCL" -> TRUE [] p = "UL" -> mful_init [] p = "CLASSIC" -> mfcl_init

(* The protocol's open succeeds or fails.  rfid_protocol_scan1 frees the   *)
(* handle and tries the next one; l3_init leaves it to the tool.           *)
ConnectSucceeds ==
    IF lib.call = "scan" THEN ph' = newp /\ newp' = NoProto /\ Returns(3)
    ELSE Returns(0) /\ UNCHANGED <<ph, newp>>

ConnectFails ==
    IF lib.call = "scan"
    THEN newp' = NoProto /\ lib' = [lib EXCEPT !.at = "pinit", !.n = @ + 1] /\ UNCHANGED ph
    ELSE Returns(-1) /\ UNCHANGED <<ph, newp>>

(* rfid_protocol_scan1 and l3_init up to the first frame of open: only     *)
(* T=CL has an open, and it refuses an ISO 15693 handle.                   *)
Opened(p) ==
    LET h == [proto |-> p, tag |-> l2h.tag]
        keep(v) == IF lib.call = "scan" THEN newp' = v /\ UNCHANGED ph
                   ELSE ph' = v /\ UNCHANGED newp
    IN CASE p # "TCL" -> ph' = h /\ UNCHANGED newp /\ Returns(IF lib.call = "scan" THEN 3 ELSE 0)
         [] p = "TCL" /\ l2h.layer = "A" -> keep(h) /\ lib' = [lib EXCEPT !.at = "rats"]
         [] OTHER -> IF lib.call = "scan" THEN ConnectFails
                     ELSE ph' = h /\ UNCHANGED newp /\ Returns(-1)

rfid_protocol_scan ==
    /\ lib.at = "pinit" /\ lib.call = "scan"
    /\ IF lib.n > Len(Protocols)
       THEN ph' = NoProto /\ UNCHANGED newp /\ Returns(2)
       ELSE LET p == Protocols[lib.n]
            IN IF p \in l2h.protos /\ fn_init(p) THEN Opened(p)
               ELSE lib' = [lib EXCEPT !.n = @ + 1] /\ UNCHANGED <<ph, newp>>
    /\ UNCHANGED <<tool, rh, l2h, new, chip, air, tags, field, trouble>>

l3_init ==
    /\ lib.at = "pinit" /\ lib.call = "l3"
    /\ IF fn_init(tool.proto) THEN Opened(tool.proto)
       ELSE ph' = NoProto /\ UNCHANGED newp /\ Returns(-1)
    /\ UNCHANGED <<tool, rh, l2h, new, chip, air, tags, field, trouble>>

(* tcl_connect: RATS, and PPS when the ATS offers higher bit rates; then   *)
(* the chip is switched, reception first.                                  *)
RatsAnswered ==
    /\ \E t \in Answers({"rats"}) :
          /\ Received
          /\ IF Kind[t] = "fast" THEN lib' = [lib EXCEPT !.at = "pps"] /\ UNCHANGED <<ph, newp>>
             ELSE ConnectSucceeds
    /\ UNCHANGED <<tool, rh, l2h, new, field>>

PpsAnswered ==
    /\ Answers({"pps"}) # {} /\ Received
    /\ lib' = [lib EXCEPT !.at = "rxspeed"]
    /\ UNCHANGED <<tool, rh, handles, field>>

set_speed ==
    /\ lib.at \in {"rxspeed", "txspeed"}
    /\ LET tx == lib.at = "txspeed"
           all == Len(SpeedRegs(tx))
       IN \/ /\ Works /\ chip' = SetSpeed(chip, tx, all)
             /\ IF tx THEN ConnectSucceeds
                ELSE lib' = [lib EXCEPT !.at = "txspeed"] /\ UNCHANGED <<ph, newp>>
          \/ Fails /\ ConnectFails /\ \E k \in Cuts \cap (0..all) : chip' = SetSpeed(chip, tx, k)
    /\ UNCHANGED <<tool, rh, l2h, new, air, tags, field>>

ConnectUnanswered ==
    /\ Unanswered({"rats", "pps"})
    /\ ConnectFails
    /\ UNCHANGED <<tool, rh, l2h, new, field>>

(* tcl_deselect, iso14443a_hlta, iso15693_stay_quiet: the tools ignore     *)
(* what they return.                                                       *)
CloseReturns ==
    /\ \/ Unanswered({"hlta", "quiet", "deselect"})
       \/ Answers({"deselect"}) # {} /\ Received
    /\ Returns(0)
    /\ UNCHANGED <<tool, rh, handles, field>>

(* An exchange of the application with the tag it has opened: T=CL data,   *)
(* blocks of an ISO 15693 tag, pages of a Mifare tag.                      *)
UseAnswered ==
    /\ Answers({"iblock", "block", "ulread", "mfread"}) # {} /\ Received
    /\ Returns(0)
    /\ UNCHANGED <<tool, rh, handles, field>>

(* rc632_mifare_auth: Crypto1 is on when the tag knows the key, and then   *)
(* TX_CRC is off.                                                          *)
AuthAnswered ==
    /\ Answers({"auth"}) # {} /\ Heeded
    /\ chip' = clear_bits([Exchanged(chip, TRUE) EXCEPT !.crypto = TRUE], {"TX_CRC"})
    /\ Returns(0)
    /\ UNCHANGED <<tool, rh, handles, field>>

(* It fails behind the first of its two exchanges: TX_CRC is off, and      *)
(* Crypto1 may be on.                                                      *)
AuthBroken ==
    /\ Answers({"auth"}) # {} /\ Fails /\ Heard /\ air' = NoFrame
    /\ \E on \in {chip.crypto, TRUE} :
          chip' = clear_bits([Exchanged(chip, TRUE) EXCEPT !.crypto = on], {"TX_CRC"})
    /\ Returns(-1)
    /\ UNCHANGED <<tool, rh, handles, field>>

UseUnanswered ==
    /\ Unanswered({"iblock", "block", "ulread", "mfread", "auth"})
    /\ Returns(-1)
    /\ UNCHANGED <<tool, rh, handles, field>>

Library ==
    \/ Send
    \/ rfid_layer2_init
    \/ ReqaAnswered \/ AcfAnswered \/ SelectAnswered \/ InventoryAnswered \/ OpenUnanswered
    \/ ReqbAnswered \/ ReqbUnanswered
    \/ rfid_protocol_scan \/ l3_init \/ RatsAnswered \/ PpsAnswered \/ set_speed
    \/ ConnectUnanswered \/ CloseReturns \/ UseAnswered \/ AuthAnswered \/ AuthBroken
    \/ UseUnanswered

---------------------------------------------------------------------------
(* The tools.                                                              *)

(* Control is in the tool, at label at. *)
At(names, at) == tool.name \in names /\ tool.at = at /\ lib.at = "none"

Goto(at) == tool' = [tool EXCEPT !.at = at]

(* A step of the tool that touches neither the chip nor the library. *)
Jump(at) == Goto(at) /\ UNCHANGED <<rh, handles, lib, chip, air, tags, field, trouble>>

(* A call of the library; the tool goes on at label at when it returns. *)
Call(c, at) ==
    /\ lib' = c
    /\ Goto(at)
    /\ UNCHANGED <<rh, handles, chip, air, tags, field, trouble>>

rfid_scan      == [NoCall EXCEPT !.at = "init", !.call = "scan"]
layer2_init    == [NoCall EXCEPT !.at = "init", !.call = "init",
                                 !.i = CHOOSE i \in 1..Len(Layers) : Layers[i] = tool.layer]
layer2_open    == [NoCall EXCEPT !.at = OpenFrame(l2h.layer), !.call = "open"]
layer2_close   == [NoCall EXCEPT !.at = IF l2h.layer = "V" THEN "quiet" ELSE "hlta",
                                 !.call = "close", !.tag = l2h.tag]
protocol_open  == [NoCall EXCEPT !.at = "pinit", !.call = "l3", !.tag = l2h.tag]
(* Only T=CL has a close. *)
protocol_close == IF ph.proto = "TCL"
                  THEN [NoCall EXCEPT !.at = "deselect", !.call = "close", !.tag = ph.tag]
                  ELSE NoCall
exchange(kind) == [NoCall EXCEPT !.at = kind, !.call = "use", !.tag = l2h.tag]

(* openpcd_open or cm5121_open, and rc632_open, up to access k.  The       *)
(* power-down resets the tags.                                             *)
rfid_reader_open(k) ==
    /\ chip' = rc632_init(chip, k)
    /\ tags' = IF k > 0 THEN Idle(Tag) ELSE tags

reader_init ==
    /\ tool.at = "start" /\ lib.at = "none"
    /\ \E k \in 0..6 :
          /\ rfid_reader_open(k)
          /\ \/ k = 6 /\ Works /\ rh' = Reader /\ Goto("begin")
             \/ Fails /\ UNCHANGED rh /\ Goto("exit")
    /\ UNCHANGED <<handles, lib, air, field>>

(* rfid_reader_setopt(RF_KILL); the tools ignore the result. *)
RfPower(on) ==
    /\ \/ Works /\ chip' = [chip EXCEPT !.rf = on]
       \/ Fails /\ chip' \in {chip, [chip EXCEPT !.rf = on]}
    /\ tags' = IF chip'.rf THEN tags ELSE Idle(Tag)
    /\ UNCHANGED <<rh, handles, lib, air, field>>

(* The field off and on at the first scan. *)
do_scan ==
    \/ At({"scan", "endless"}, "begin") /\ tool.first /\ RfPower(FALSE) /\ Goto("rfon")
    \/ At({"scan", "endless"}, "rfon") /\ RfPower(TRUE) /\ Goto("scan")
    \/ At({"scan", "endless"}, "begin") /\ ~tool.first /\ Jump("scan")
    \/ At({"scan", "endless"}, "scan") /\ Call(rfid_scan, "scanned")
    \/ At({"scan"}, "scanned") /\ Jump("close")

(* Faulty variant: a scan that finds nothing does not start over. *)
do_endless_scan_on ==
    \/ At({"endless"}, "scanned") /\ lib.rc >= 3 /\ Call(protocol_close, "closed")
    \/ At({"endless"}, "scanned") /\ lib.rc = 2 /\ Jump("closed")
    \/ At({"endless"}, "closed") /\ Call(layer2_close, "again")
    \/ /\ At({"endless"}, "again") \/ (At({"endless"}, "scanned") /\ lib.rc < 2)
       /\ tool' = [tool EXCEPT !.at = "begin", !.first = FALSE]
       /\ UNCHANGED <<rh, handles, lib, chip, air, tags, field, trouble>>

do_endless_scan ==
    \/ At({"endless"}, "scanned") /\ lib.rc >= 3 /\ Call(protocol_close, "closed")
    \/ At({"endless"}, "scanned") /\ lib.rc = 2 /\ Jump("closed")
    \/ At({"endless"}, "closed") /\ Call(layer2_close, "again")
    \/ /\ At({"endless"}, "again") \/ (At({"endless"}, "scanned") /\ lib.rc < 2)
       /\ tool' = [tool EXCEPT !.at = "begin", !.first = tool.at = "scanned"]
       /\ UNCHANGED <<rh, handles, lib, chip, air, tags, field, trouble>>

(* What the other tools do when layer 2 or the protocol cannot be opened:  *)
(* mifare_l3 tries again, do_enum ends its round, the rest give up.        *)
Openers == {"enum", "enumloop", "dump", "main", "mifare"}
OnError == CASE tool.name = "mifare" -> "begin"
             [] tool.name \in {"enum", "enumloop"} -> "round"
             [] OTHER -> "close"

(* l2_init, and the beginnings of do_enum, iso15693_dump, iso15693_write.  *)
l2_init ==
    \/ At(Openers, "begin") /\ Call(layer2_init, "inited")
    \/ At(Openers, "inited") /\ lib.rc >= 0 /\ Call(layer2_open, "opened")
    \/ At(Openers, "inited") /\ lib.rc < 0 /\ Jump(OnError)
    \/ At(Openers, "opened") /\ lib.rc < 0 /\ Jump(OnError)

(* One layer-2 handle for all tags; each is silenced before the next open. *)
do_enum ==
    \/ At({"enum", "enumloop"}, "opened") /\ lib.rc >= 0 /\ Call(layer2_close, "closed")
    \/ At({"enum", "enumloop"}, "closed") /\ Call(layer2_open, "opened")
    \/ At({"enum"}, "round") /\ Jump("close")

do_enum_loop ==
    \/ At({"enumloop"}, "round") /\ RfPower(FALSE) /\ Goto("rfon")
    \/ At({"enumloop"}, "rfon") /\ RfPower(TRUE) /\ Goto("begin")

(* iso15693_dump and iso15693_write; rc > 0 is what iso15693_anticol       *)
(* returns.                                                                *)
iso15693_dump ==
    \/ At({"dump"}, "opened") /\ lib.rc > 0 /\ Call(exchange("block"), "use")
    \/ At({"dump"}, "use") /\ (Call(exchange("block"), "use") \/ Call(layer2_close, "fini"))
    \/ /\ At({"dump"}, "fini") /\ Goto("close")
       /\ l2h' = NoHandle
       /\ UNCHANGED <<rh, ph, new, newp, lib, chip, air, tags, field, trouble>>

(* main of librfid-tool with --protocol: T=CL until it fails, the pages of *)
(* an Ultralight, the sectors of a Mifare Classic tag: the next sector is  *)
(* authenticated for whatever became of the reads of the last.             *)
main ==
    \/ At({"main"}, "opened") /\ lib.rc >= 0 /\ Call(protocol_open, "use")
    \/ At({"main"}, "use") /\ lib.rc < 0 /\ Jump("close")
    \/ /\ At({"main"}, "use") /\ lib.rc >= 0
       /\ CASE tool.proto = "TCL"     -> Call(exchange("iblock"), "use")
            [] tool.proto = "UL"      -> Call(exchange("ulread"), "use") \/ Jump("close")
            [] tool.proto = "CLASSIC" -> Call(exchange("auth"), "authed") \/ Jump("close")
    \/ At({"main"}, "authed") /\ lib.rc < 0 /\ Jump("exit")
    \/ At({"main"}, "authed") /\ lib.rc >= 0 /\ Call(exchange("mfread"), "read")
    \/ At({"main"}, "read") /\ lib.rc >= 0 /\ Call(exchange("mfread"), "read")
    \/ At({"main"}, "read") /\ (Call(exchange("auth"), "authed") \/ Jump("close"))

(* mifare-tool --loop-read.  mifare_l3 opens protocol handles until it     *)
(* gets one; the handles of the last round are neither closed nor freed.   *)
mifare_loop_read ==
    \/ At({"mifare"}, "opened") /\ lib.rc >= 0 /\ Call(protocol_open, "l3")
    \/ At({"mifare"}, "l3") /\ lib.rc < 0 /\ Call(protocol_open, "l3")
    \/ At({"mifare"}, "l3") /\ lib.rc >= 0 /\ Call(exchange("auth"), "authed")
    \/ At({"mifare"}, "authed") /\ lib.rc < 0 /\ Jump("begin")
    \/ At({"mifare"}, "authed") /\ lib.rc >= 0 /\ Call(exchange("mfread"), "read")
    \/ At({"mifare"}, "read") /\ Jump("begin")

(* rc632_close: the field off and the chip down, whatever they return. *)
rfid_reader_close ==
    /\ tool.at = "close" /\ lib.at = "none"
    /\ \E k \in 0..2 :
          /\ chip' = rc632_fini(chip, k)
          /\ tags' = IF k > 0 THEN Idle(Tag) ELSE tags
          /\ (k = 2 /\ Works) \/ Fails
    /\ rh' = "none" /\ Goto("exit")
    /\ UNCHANGED <<handles, lib, air, field>>

---------------------------------------------------------------------------
(* Processes, tags and their movements.                                    *)

Process(t) == [name |-> t.name, layer |-> t.layer, proto |-> t.proto,
               at |-> "start", first |-> t.name = "endless"]

NewProcess ==
    /\ tool' \in {Process(t) : t \in Tools}
    /\ rh' = "none" /\ l2h' = NoHandle /\ ph' = NoProto /\ new' = NoHandle /\ newp' = NoProto
    /\ lib' = NoCall

(* The next command line. *)
Exec ==
    /\ tool.at = "exit" /\ lib.at = "none"
    /\ NewProcess
    /\ UNCHANGED <<chip, air, tags, field, trouble>>

(* The user interrupts the tool, the only way to end an endless scan, and  *)
(* starts another one.  The chip is left as it is.                         *)
Interrupt ==
    /\ Trouble
    /\ air = NoFrame
    /\ NewProcess
    /\ UNCHANGED <<chip, air, tags, field>>

Move ==
    /\ Trouble
    /\ \E t \in Tag :
          /\ field' = IF t \in field THEN field \ {t} ELSE field \cup {t}
          /\ tags' = Idle({t})
    /\ UNCHANGED <<tool, rh, handles, lib, chip, air>>

Init ==
    /\ tool \in {Process(t) : t \in Tools}
    /\ rh = "none" /\ l2h = NoHandle /\ ph = NoProto /\ new = NoHandle /\ newp = NoProto
    /\ lib = NoCall
    /\ chip \in [power : {TRUE}, rf : {FALSE}, crypto : BOOLEAN, cr : {{"PARITY"}}, bits : {{}},
                 cfg : {[r \in Reg |-> "reset"]}]
    /\ air = NoFrame
    /\ tags = [t \in Tag |-> "idle"] /\ field \in Fields
    /\ trouble = 0

Tooling ==
    \/ reader_init \/ do_scan \/ do_endless_scan \/ l2_init \/ do_enum \/ do_enum_loop
    \/ iso15693_dump \/ main \/ mifare_loop_read \/ rfid_reader_close \/ Exec

Next == Tooling \/ Library \/ Interrupt \/ Move

(* The process runs on; users and tags do as they like. *)
Spec == Init /\ [][Next]_vars /\ WF_vars(Tooling \/ Library)

---------------------------------------------------------------------------
(* Properties.                                                             *)

TagStates == {"idle", "ready", "active", "auth", "proto", "protofast", "halt", "quiet"}
Handles == [layer : {"none", "A", "B", "V"}, tag : Tag \cup {NoTag}, protos : SUBSET Proto]
ProtoHandles == [proto : Proto \cup {"none"}, tag : Tag \cup {NoTag}]

(* The variables keep their types. *)
TypeOK ==
    /\ tool.at \in {"start", "begin", "rfon", "scan", "scanned", "closed", "again", "inited",
                    "opened", "round", "use", "fini", "authed", "l3", "read", "close", "exit"}
    /\ tool.first \in BOOLEAN /\ rh \in {"none", Reader}
    /\ l2h \in Handles /\ new \in Handles /\ ph \in ProtoHandles /\ newp \in ProtoHandles
    /\ lib.at \in FrameKinds \cup {"none", "init", "pinit", "rxspeed", "txspeed"}
    /\ lib.call \in {"none", "scan", "init", "open", "l3", "close", "use"}
    /\ lib.i \in 1..Len(Layers) /\ lib.n \in 0..4 /\ lib.rc \in -1..3
    /\ chip.cr \subseteq {"PARITY", "RX_CRC", "TX_CRC", "CRC3309"}
    /\ chip.bits \subseteq {"TxLastBits", "RxAlign"}
    /\ chip.cfg \in [Reg -> {"reset", "A", "B", "V", "fast"}]
    /\ tags \in [Tag -> TagStates] /\ field \subseteq Tag

(* Every frame goes out from a chip that is set up for it: by the script   *)
(* of its own layer and no other's, at the bit rate of its tag, with the   *)
(* right CRC, parity and framing, with the field on and without Crypto1    *)
(* unless the tag authenticated; whatever scripts failed halfway before,   *)
(* whichever tool was interrupted, and whatever another layer or a higher  *)
(* bit rate left in the registers.  But a dump that authenticates again    *)
(* after a sector read of which no frame was sent does so without TX_CRC;  *)
(* REQB and INVENTORY go out with the BIT_FRAMING that a type A open left  *)
(* when it was broken off; and the receiver's CRC is on in the             *)
(* anticollision frames of the second cascade level (see Redundant).       *)
FrameConfig ==
    air # NoFrame =>
        /\ Scripted(air) /\ Enciphered(air)
        /\ \/ Redundant(air)
           \/ /\ air.kind = "auth" /\ tool.name = "main"
              /\ chip.crypto /\ chip.cr = {"PARITY"}
        /\ air.kind \notin {"reqb", "inv"} => chip.bits \in Framing(air)

(* When control is back in the tool the library has no handle the tool     *)
(* does not know: a scan that fails in a layer or a protocol has given     *)
(* back what it took; and the two handles a tool closes after a scan are   *)
(* of the same tag, which the scan has just found.                         *)
LibraryKeepsNothing ==
    lib.at = "none" =>
        /\ new = NoHandle /\ newp = NoProto
        /\ At({"scan", "endless"}, "scanned") =>
              /\ (lib.rc < 2) <=> (l2h = NoHandle)
              /\ lib.rc >= 2 => l2h.tag # NoTag
              /\ lib.rc = 3 => ph.tag = l2h.tag

(* Tag t has been found by the tool, or read by mifare-tool. *)
Found(t) ==
    \/ At({"endless"}, "scanned") /\ lib.rc >= 2 /\ l2h.tag = t
    \/ At({"enumloop"}, "opened") /\ lib.rc >= 0 /\ l2h.tag = t
    \/ At({"mifare"}, "read") /\ lib.rc >= 0 /\ l2h.tag = t

(* Tag t stays, alone of its layer, before a tool that can find it.        *)
(* (mifare_l3 repeats l3_init alone: once it has opened a tag whose UID    *)
(* has not 4 bytes it never opens another.)                                *)
Offered(t) ==
    /\ t \in field /\ \A u \in field \ {t} : LayerOf(u) # LayerOf(t)
    /\ \/ tool.name = "endless" /\ LayerOf(t) # "B"
       \/ tool.name = "enumloop" /\ LayerOf(t) = tool.layer /\ tool.layer # "B"
       \/ tool.name = "mifare" /\ Kind[t] = "classic" /\ (tool.at = "l3" => fn_init("CLASSIC"))

(* The tools that run for ever find a tag that stays in the field again    *)
(* and again, although each find ends with the tag silent and although     *)
(* errors may leave it at a speed, in a protocol or in an authenticated    *)
(* state in which it hears nothing: an endless scan that finds nothing     *)
(* resets the field, so does do_enum_loop, and mifare_l3's second REQA     *)
(* reaches a tag that its first one woke from its session.  (Type B tags   *)
(* are never found: iso14443b_anticol cannot succeed.)                     *)
FoundAgain == \A t \in Tag : <>[]Offered(t) => []<>Found(t)
=============================================================================
