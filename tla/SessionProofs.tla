--------------------------- MODULE SessionProofs ---------------------------
(***************************************************************************)
(* Proofs about module Session: its type invariant, that every frame goes  *)
(* out from a chip that is set up for it, and that the library keeps no    *)
(* handle.                                                                 *)
(*                                                                         *)
(* What the registers have to be is said by operators of a chip c and a    *)
(* layer l; the lemmas about scripts and frames are about those.  The      *)
(* inductive invariant then says which of them holds where: Records (the   *)
(* types), Calls (which call of which tool is where, with which handles),  *)
(* Prepares (a call's next frame), Rests (what a tool relies on when a     *)
(* call has returned) and OnAir.                                           *)
(***************************************************************************)
EXTENDS Session, TLAPS, SequenceTheorems

LayerNames == {"A", "B", "V"}
ToolNames == {"scan", "endless", "enum", "enumloop", "dump", "main", "mifare"}
Enums == {"enum", "enumloop"}
ToolLabels == {"start", "begin", "rfon", "scan", "scanned", "closed", "again", "inited",
               "opened", "round", "use", "fini", "authed", "l3", "read", "close", "exit"}
OpenLabels == {"sf", "acf", "select", "reqb", "inv"}
ConnectLabels == {"rats", "pps", "rxspeed", "txspeed"}
LibLabels == FrameKinds \cup {"none", "init", "pinit", "rxspeed", "txspeed"}
CallNames == {"none", "scan", "init", "open", "l3", "close", "use"}
Redundancy == {"PARITY", "RX_CRC", "TX_CRC", "CRC3309"}
FrameBits == {"TxLastBits", "RxAlign"}
Settings == {"reset", "A", "B", "V", "fast"}

(* The records. *)
ToolRecord == [name : ToolNames, layer : LayerNames, proto : Proto, at : ToolLabels, first : BOOLEAN]
LibRecord == [at : LibLabels, call : CallNames, i : 1..3, n : 0..4, stale : BOOLEAN,
              tag : Tag \cup {NoTag}, rc : -1..3]
ChipRecord == [power : BOOLEAN, rf : BOOLEAN, crypto : BOOLEAN, cr : SUBSET Redundancy,
               bits : SUBSET FrameBits, cfg : [Reg -> Settings]]
FrameRecord == [kind : FrameKinds, layer : LayerNames, tag : Tag \cup {NoTag}]

---------------------------------------------------------------------------
(* The registers of a chip c, for layer l.                                 *)

Registers(l) == IF l = "V" THEN Reg \ {"RX_WAIT"} ELSE Reg
On(c) == c.power /\ c.rf

(* All of the layer's script. *)
Tuned(c, l) == On(c) /\ \A r \in Registers(l) : c.cfg[r] = l

(* The same, or a higher bit rate of type A. *)
NearlyTuned(c, l) == On(c) /\ \A r \in Registers(l) : c.cfg[r] = l \/ (l = "A" /\ c.cfg[r] = "fast")

(* As the layer's init leaves it, *)
Fresh(c, l) ==
    /\ Tuned(c, l)
    /\ IF l = "A" THEN "PARITY" \in c.cr /\ "CRC3309" \notin c.cr
       ELSE c.cr = RegularCR(l) /\ ~c.crypto

(* as a layer's open and regular frames leave it, *)
Settled(c, l) == Tuned(c, l) /\ c.cr = RegularCR(l) /\ ~c.crypto /\ c.bits = {}

(* as T=CL leaves it, *)
Left(c, l) == NearlyTuned(c, l) /\ ~c.crypto /\ c.bits = {}

(* and as the authentication and the frames behind it leave it. *)
Keyed(c) == Tuned(c, "A") /\ c.crypto /\ c.bits = {} /\ "PARITY" \in c.cr /\ "CRC3309" \notin c.cr

(* What it has to be before a frame of kind k, or a change of speed. *)
ReadyFor(c, k, l) ==
    /\ k \in {"sf", "acf"} => l = "A" /\ Fresh(c, l)
    /\ k = "reqb" => l = "B" /\ Fresh(c, l)
    /\ k = "inv" => l = "V" /\ Fresh(c, l)
    /\ k \in {"select", "rats", "pps", "rxspeed", "ulread"} =>
          l = "A" /\ Tuned(c, l) /\ ~c.crypto /\ c.bits = {}
    /\ k \in {"iblock", "deselect", "txspeed"} => l = "A" /\ Left(c, l)
    /\ k = "hlta" => l \in {"A", "B"} /\ Left(c, l)
    /\ k = "quiet" => l = "V" /\ Left(c, l)
    /\ k = "block" => l = "V" /\ Settled(c, l)
    /\ k = "auth" => /\ l = "A" /\ Tuned(c, l) /\ c.bits = {}
                     /\ "PARITY" \in c.cr /\ "CRC3309" \notin c.cr
                     /\ "TX_CRC" \in c.cr \/ c.crypto
    /\ k = "mfread" => l = "A" /\ Keyed(c)

(* What FrameConfig says of a frame f, of a chip c. *)
FitsFrame(c, f) ==
    /\ On(c)
    /\ \A r \in Registers(f.layer) :
          \/ c.cfg[r] = f.layer
          \/ c.cfg[r] = "fast" /\ f.kind \in {"iblock", "deselect", "hlta"}
    /\ CASE f.kind = "sf"   -> c.cr = {"PARITY"}
         [] f.kind = "acf"  -> c.cr \ {"RX_CRC"} = {"PARITY"}
         [] f.kind = "auth" -> c.cr = {"PARITY", "TX_CRC"} \/ (c.cr = {"PARITY"} /\ c.crypto)
         [] OTHER           -> c.cr = RegularCR(f.layer)
    /\ f.kind # "auth" => (c.crypto <=> f.kind = "mfread")
    /\ f.kind \notin {"reqb", "inv"} => c.bits \in Framing(f)

---------------------------------------------------------------------------
(* The invariant.                                                          *)

(* The variables are records of their types. *)
Records ==
    /\ tool \in ToolRecord /\ rh \in {"none", Reader}
    /\ tool.name = "mifare" => tool.layer = "A" /\ tool.proto = "CLASSIC"
    /\ l2h \in Handles /\ new \in Handles /\ ph \in ProtoHandles /\ newp \in ProtoHandles
    /\ lib \in LibRecord /\ chip \in ChipRecord
    /\ air \in FrameRecord \cup {NoFrame}

TagTypes == tags \in [Tag -> TagStates] /\ field \subseteq Tag

(* The layer's handle is of a tag that has been opened. *)
HasTag == l2h.layer \in {"A", "V"} /\ l2h.tag \in Tag

(* Which call is made by which tool, and which handles it has. *)
ScanCall ==
    /\ tool.name \in {"scan", "endless"} /\ tool.at = "scanned"
    /\ lib.at \in {"init", "pinit"} \cup OpenLabels \cup ConnectLabels
    /\ IF lib.at \in OpenLabels THEN new.layer \in LayerNames ELSE new = NoHandle
    /\ lib.at \in {"pinit"} \cup ConnectLabels => HasTag /\ lib.n >= 1
    /\ IF lib.at \in ConnectLabels THEN newp = [proto |-> "TCL", tag |-> l2h.tag] /\ lib.n = 1
       ELSE newp = NoProto

OpenCall ==
    /\ tool.name \in Openers
    /\ \/ lib.call = "init" /\ lib.at = "init" /\ tool.at = "inited" /\ Layers[lib.i] = tool.layer
       \/ lib.call = "open" /\ lib.at \in OpenLabels /\ tool.at = "opened" /\ l2h.layer = tool.layer

ProtocolCall ==
    /\ \/ tool.name = "main" /\ tool.at = "use"
       \/ tool.name = "mifare" /\ tool.at = "l3" /\ l2h.layer = "A"
    /\ HasTag
    /\ \/ lib.at = "pinit"
       \/ lib.at \in ConnectLabels /\ tool.proto = "TCL"

CloseCall ==
    \/ /\ tool.name = "endless" /\ HasTag
       /\ \/ tool.at = "closed" /\ lib.at = "deselect"
          \/ tool.at = "again" /\ lib.at \in {"hlta", "quiet"}
    \/ tool.name \in Enums /\ tool.at = "closed" /\ lib.at \in {"hlta", "quiet"} /\ l2h.layer = tool.layer
    \/ tool.name = "dump" /\ tool.at = "fini" /\ lib.at \in {"hlta", "quiet"}

UseCall ==
    \/ /\ tool.name = "main" /\ tool.at = "use"
       /\ \/ lib.at = "iblock" /\ tool.proto = "TCL"
          \/ lib.at = "ulread" /\ tool.proto = "UL"
    \/ tool.name = "main" /\ tool.at = "read" /\ lib.at = "mfread" /\ tool.proto = "CLASSIC"
    \/ tool.name = "main" /\ tool.at = "authed" /\ lib.at = "auth" /\ tool.proto = "CLASSIC"
    \/ tool.name = "mifare" /\ tool.at = "authed" /\ lib.at = "auth"
    \/ tool.name = "mifare" /\ tool.at = "read" /\ lib.at = "mfread"
    \/ tool.name = "dump" /\ tool.at = "use" /\ lib.at = "block"

Calls ==
    /\ lib.at = "none" <=> lib.call = "none"
    /\ lib.call = "scan" => ScanCall
    /\ lib.call # "scan" => new = NoHandle /\ newp = NoProto
    /\ lib.call \in {"init", "open"} => OpenCall
    /\ lib.call = "l3" => ProtocolCall
    /\ lib.call = "close" => CloseCall
    /\ lib.call = "use" => UseCall
    /\ lib.at \in {"acf", "select"} => lib.n \in 1..2

(* What the call in progress needs of the chip. *)
Prepares ==
    /\ tool.at \notin {"start", "exit"} => chip.power
    /\ ReadyFor(chip, lib.at, Handle.layer)
    /\ lib.at = "pinit" /\ lib.call = "scan" =>
          Left(chip, l2h.layer) /\ (lib.n = 1 => Tuned(chip, l2h.layer))
    /\ lib.at = "pinit" /\ lib.call = "l3" => Settled(chip, l2h.layer)
    /\ lib.call = "close" /\ tool.name \in Enums => Settled(chip, l2h.layer)
    /\ lib.at = "auth" /\ tool.name # "main" => "TX_CRC" \in chip.cr

(* What a tool relies on when a call has returned to it. *)
Rests ==
    lib.at = "none" =>
       /\ tool.name \in Openers /\ tool.at = "inited" /\ lib.rc >= 0 =>
             l2h.layer = tool.layer /\ Fresh(chip, l2h.layer)
       /\ tool.name \in Openers /\ tool.at = "opened" /\ lib.rc >= 0 =>
             HasTag /\ l2h.layer = tool.layer /\ Settled(chip, l2h.layer) /\ (lib.rc > 0 => l2h.layer = "V")
       /\ tool.name \in Enums /\ tool.at = "closed" =>
             l2h.layer = tool.layer /\ Settled(chip, l2h.layer)
       /\ tool.name = "dump" /\ tool.at = "use" => l2h.layer = "V" /\ Settled(chip, "V")
       /\ tool.name = "main" /\ tool.at = "use" /\ lib.rc >= 0 =>
             /\ l2h.layer = "A"
             /\ tool.proto = "TCL" => Left(chip, "A")
             /\ tool.proto \in {"UL", "CLASSIC"} => Settled(chip, "A")
       /\ tool.name = "main" /\ tool.at \in {"authed", "read"} => tool.proto = "CLASSIC"
       /\ tool.name \in {"main", "mifare"} /\ tool.at = "authed" /\ lib.rc >= 0 =>
             l2h.layer = "A" /\ Keyed(chip)
       /\ tool.name = "main" /\ tool.at = "read" => l2h.layer = "A" /\ Keyed(chip)
       /\ tool.name = "mifare" /\ tool.at = "l3" => HasTag /\ l2h.layer = "A" /\ Settled(chip, "A")
       /\ tool.name \in {"scan", "endless"} /\ tool.at = "scanned" =>
             /\ lib.rc \in {0, 2, 3}
             /\ lib.rc = 0 => l2h = NoHandle
             /\ lib.rc >= 2 => HasTag /\ Left(chip, l2h.layer)
             /\ lib.rc = 3 => ph.tag = l2h.tag /\ (ph.proto = "TCL" => l2h.layer = "A")
       /\ tool.name = "endless" /\ tool.at = "closed" => HasTag /\ Left(chip, l2h.layer)

(* The frame on the air is that of the call, from a chip set up for it. *)
OnAir == air # NoFrame => air = Frame /\ lib.at \in FrameKinds /\ FitsFrame(chip, air)

Inv == Records /\ Calls /\ Prepares /\ Rests /\ OnAir

---------------------------------------------------------------------------
(* Scripts.                                                                *)

(* The halves of a sequence w. *)
LEMMA Halves ==
    ASSUME NEW s, NEW t, NEW w, NEW m \in Nat, NEW n \in Nat,
           \A i \in 1..m + n : w[i] = IF i <= m THEN s[i] ELSE t[i - m]
    PROVE  /\ \A i \in 1..m : w[i] = s[i]
           /\ \A i \in 1..n : w[m + i] = t[i]
<1>1. ASSUME NEW i \in 1..m PROVE w[i] = s[i]
  OBVIOUS
<1>2. ASSUME NEW i \in 1..n PROVE w[m + i] = t[i]
  <2>1. m + i \in 1..m + n /\ ~(m + i <= m) /\ (m + i) - m = i
    OBVIOUS
  <2> QED BY <2>1
<1> QED BY <1>1, <1>2

(* iso14443_script sets every register. *)
LEMMA Script14443 ==
    Len(iso14443_script) = 17 /\ Wrote(iso14443_script, 17) = Reg \cup {"CHANNEL_REDUNDANCY"}
<1> DEFINE S == Reg \cup {"CHANNEL_REDUNDANCY"}
           t == <<"DECODER_CONTROL", "BIT_PHASE", "RX_THRESHOLD", "BPSK_DEM_CONTROL", "RX_CONTROL2",
                  "RX_WAIT", "CHANNEL_REDUNDANCY", "CRC_PRESET_LSB", "CRC_PRESET_MSB">>
<1>1. CommonScript \in Seq(S) /\ Len(CommonScript) = 8
  BY DEF CommonScript, Reg
<1>2. t \in Seq(S) /\ Len(t) = 9
  BY DEF Reg
<1>3. iso14443_script = CommonScript \o t
  BY DEF iso14443_script
<1> HIDE DEF S, t
<1>4. PICK w : w = iso14443_script
  OBVIOUS
<1>5. Len(w) = Len(CommonScript) + Len(t)
  BY <1>1, <1>2, <1>3, <1>4, ConcatProperties, Zenon
<1>6. \A i \in 1..Len(CommonScript) + Len(t) :
         w[i] = IF i <= Len(CommonScript) THEN CommonScript[i] ELSE t[i - Len(CommonScript)]
  BY <1>1, <1>2, <1>3, <1>4, ConcatProperties, Zenon
<1>7. \A i \in 1..8 + 9 : w[i] = IF i <= 8 THEN CommonScript[i] ELSE t[i - 8]
  BY <1>1, <1>2, <1>6, Zenon
<1>8. (\A i \in 1..8 : w[i] = CommonScript[i]) /\ (\A i \in 1..9 : w[8 + i] = t[i])
  BY <1>7, Halves
<1>9. /\ w[1] = "TX_CONTROL" /\ w[2] = "CW_CONDUCTANCE" /\ w[3] = "MOD_CONDUCTANCE"
      /\ w[4] = "CODER_CONTROL" /\ w[5] = "MOD_WIDTH" /\ w[6] = "MOD_WIDTH_SOF"
      /\ w[7] = "TYPE_B_FRAMING" /\ w[8] = "RX_CONTROL1"
  BY <1>8 DEF CommonScript
<1>10. \A i \in 1..9 : w[8 + i] = t[i]
  BY <1>8
<1>11. /\ w[9] = "DECODER_CONTROL" /\ w[10] = "BIT_PHASE" /\ w[11] = "RX_THRESHOLD"
      /\ w[12] = "BPSK_DEM_CONTROL" /\ w[13] = "RX_CONTROL2" /\ w[14] = "RX_WAIT"
      /\ w[15] = "CHANNEL_REDUNDANCY" /\ w[16] = "CRC_PRESET_LSB" /\ w[17] = "CRC_PRESET_MSB"
  BY <1>10 DEF t
<1>12. {w[i] : i \in 1..17} = Reg \cup {"CHANNEL_REDUNDANCY"}
  <2>1. 1..17 = {1, 2, 3, 4, 5, 6, 7, 8, 9, 10, 11, 12, 13, 14, 15, 16, 17}
    OBVIOUS
  <2> QED BY <2>1, <1>9, <1>11 DEF Reg
<1> QED BY <1>1, <1>2, <1>4, <1>5, <1>12 DEF Wrote

(* iso15693_fast_script sets every register but RX_WAIT. *)
LEMMA Script15693 ==
    Len(iso15693_fast_script) = 16 /\ Wrote(iso15693_fast_script, 16) = (Reg \ {"RX_WAIT"}) \cup {"CHANNEL_REDUNDANCY"}
<1> DEFINE S == Reg \cup {"CHANNEL_REDUNDANCY"}
           t == <<"RX_CONTROL2", "DECODER_CONTROL", "BIT_PHASE", "RX_THRESHOLD",
                  "BPSK_DEM_CONTROL", "CHANNEL_REDUNDANCY", "CRC_PRESET_LSB", "CRC_PRESET_MSB">>
<1>1. CommonScript \in Seq(S) /\ Len(CommonScript) = 8
  BY DEF CommonScript, Reg
<1>2. t \in Seq(S) /\ Len(t) = 8
  BY DEF Reg
<1>3. iso15693_fast_script = CommonScript \o t
  BY DEF iso15693_fast_script
<1> HIDE DEF S, t
<1>4. PICK w : w = iso15693_fast_script
  OBVIOUS
<1>5. Len(w) = Len(CommonScript) + Len(t)
  BY <1>1, <1>2, <1>3, <1>4, ConcatProperties, Zenon
<1>6. \A i \in 1..Len(CommonScript) + Len(t) :
         w[i] = IF i <= Len(CommonScript) THEN CommonScript[i] ELSE t[i - Len(CommonScript)]
  BY <1>1, <1>2, <1>3, <1>4, ConcatProperties, Zenon
<1>7. \A i \in 1..8 + 8 : w[i] = IF i <= 8 THEN CommonScript[i] ELSE t[i - 8]
  BY <1>1, <1>2, <1>6, Zenon
<1>8. (\A i \in 1..8 : w[i] = CommonScript[i]) /\ (\A i \in 1..8 : w[8 + i] = t[i])
  BY <1>7, Halves
<1>9. /\ w[1] = "TX_CONTROL" /\ w[2] = "CW_CONDUCTANCE" /\ w[3] = "MOD_CONDUCTANCE"
      /\ w[4] = "CODER_CONTROL" /\ w[5] = "MOD_WIDTH" /\ w[6] = "MOD_WIDTH_SOF"
      /\ w[7] = "TYPE_B_FRAMING" /\ w[8] = "RX_CONTROL1"
  BY <1>8 DEF CommonScript
<1>10. \A i \in 1..8 : w[8 + i] = t[i]
  BY <1>8
<1>11. /\ w[9] = "RX_CONTROL2" /\ w[10] = "DECODER_CONTROL" /\ w[11] = "BIT_PHASE"
      /\ w[12] = "RX_THRESHOLD" /\ w[13] = "BPSK_DEM_CONTROL" /\ w[14] = "CHANNEL_REDUNDANCY"
      /\ w[15] = "CRC_PRESET_LSB" /\ w[16] = "CRC_PRESET_MSB"
  BY <1>10 DEF t
<1>12. {w[i] : i \in 1..16} = (Reg \ {"RX_WAIT"}) \cup {"CHANNEL_REDUNDANCY"}
  <2>1. 1..16 = {1, 2, 3, 4, 5, 6, 7, 8, 9, 10, 11, 12, 13, 14, 15, 16}
    OBVIOUS
  <2> QED BY <2>1, <1>9, <1>11 DEF Reg
<1> QED BY <1>1, <1>2, <1>4, <1>5, <1>12 DEF Wrote

---------------------------------------------------------------------------
(* What is written to the registers.                                       *)

(* A script changes registers of the configuration, CHANNEL_REDUNDANCY and *)
(* the field.                                                              *)
LEMMA ExecutedChip ==
    ASSUME NEW c \in ChipRecord, NEW l \in LayerNames, NEW k
    PROVE  /\ Executed(c, l, k) \in ChipRecord
           /\ Executed(c, l, k).power = c.power
           /\ Executed(c, l, k).crypto = c.crypto
<1> DEFINE w == Wrote(Script(l), k)
           f == [r \in Reg |-> IF r \in w THEN l ELSE c.cfg[r]]
           cr == IF "CHANNEL_REDUNDANCY" \in w THEN ScriptCR(l) ELSE c.cr
           rf == c.rf \/ "TX_CONTROL" \in w
<1>1. Executed(c, l, k) = [c EXCEPT !.cfg = f, !.cr = cr, !.rf = rf]
  BY DEF Executed
<1>2. f \in [Reg -> Settings]
  <2>1. c.cfg \in [Reg -> Settings] /\ l \in Settings
    BY DEF ChipRecord, LayerNames, Settings
  <2> HIDE DEF w
  <2> QED BY <2>1
<1>3. cr \in SUBSET Redundancy
  BY DEF ScriptCR, Redundancy, ChipRecord
<1>4. rf \in BOOLEAN
  BY DEF ChipRecord
<1> HIDE DEF f, cr, rf
<1>5. c = [power |-> c.power, rf |-> c.rf, crypto |-> c.crypto, cr |-> c.cr, bits |-> c.bits,
           cfg |-> c.cfg]
      /\ c.power \in BOOLEAN /\ c.crypto \in BOOLEAN /\ c.bits \in SUBSET FrameBits
  BY DEF ChipRecord
<1>6. Executed(c, l, k) = [power |-> c.power, rf |-> rf, crypto |-> c.crypto, cr |-> cr,
                          bits |-> c.bits, cfg |-> f]
  BY <1>1, <1>5
<1> QED BY <1>2, <1>3, <1>4, <1>5, <1>6 DEF ChipRecord

(* All of a script. *)
LEMMA ExecutedAll ==
    ASSUME NEW c \in ChipRecord, NEW l \in LayerNames, c.power
    PROVE  LET d == Executed(c, l, Len(Script(l)))
           IN Tuned(d, l) /\ d.cr = ScriptCR(l)
<1> DEFINE k == Len(Script(l))
           w == Wrote(Script(l), k)
           f == [r \in Reg |-> IF r \in w THEN l ELSE c.cfg[r]]
           d == Executed(c, l, k)
<1>1. Registers(l) \cup {"CHANNEL_REDUNDANCY", "TX_CONTROL"} \subseteq w /\ Registers(l) \subseteq Reg
  BY Script14443, Script15693 DEF Script, Registers, Reg, LayerNames
<1>2. d = [c EXCEPT !.cfg = f, !.cr = IF "CHANNEL_REDUNDANCY" \in w THEN ScriptCR(l) ELSE c.cr,
                    !.rf = c.rf \/ "TX_CONTROL" \in w]
  BY DEF Executed
<1> HIDE DEF w, k, d
<1>3. d.cr = ScriptCR(l) /\ d.rf /\ d.cfg = f /\ d.power
  BY <1>1, <1>2 DEF ChipRecord
<1>4. \A r \in Registers(l) : f[r] = l
  BY <1>1
<1> QED BY <1>3, <1>4 DEF Tuned, On, d, k

LEMMA FlushedChip ==
    ASSUME NEW c \in ChipRecord
    PROVE  Flushed(c) \in ChipRecord /\ ~Flushed(c).crypto /\ Flushed(c).power = c.power
BY DEF Flushed, ChipRecord

(* A layer that has been initialised, and one whose flush of the FIFO got  *)
(* lost.                                                                   *)
LEMMA InitFresh ==
    ASSUME NEW c \in ChipRecord, NEW l \in LayerNames, c.power
    PROVE  /\ Fresh(Executed(Flushed(c), l, Len(Script(l))), l)
           /\ l = "A" => Fresh(Executed(c, l, Len(Script(l))), l)
<1>1. ASSUME NEW d \in ChipRecord, d.power, l = "A" \/ ~d.crypto
      PROVE  Fresh(Executed(d, l, Len(Script(l))), l)
  <2> DEFINE e == Executed(d, l, Len(Script(l)))
  <2>1. Tuned(e, l) /\ e.cr = ScriptCR(l) /\ e.crypto = d.crypto
    BY <1>1, ExecutedAll, ExecutedChip
  <2> HIDE DEF e
  <2>2. Fresh(e, l)
    BY <1>1, <2>1 DEF Fresh, ScriptCR, RegularCR, LayerNames
  <2> QED BY <2>2 DEF e
<1> QED BY <1>1, FlushedChip

(* The speeds. *)
LEMMA SetSpeedChip ==
    ASSUME NEW c \in ChipRecord, NEW tx \in BOOLEAN, NEW k
    PROVE  /\ SetSpeed(c, tx, k) \in ChipRecord
           /\ SetSpeed(c, tx, k).power = c.power
           /\ Left(c, "A") => Left(SetSpeed(c, tx, k), "A")
<1> DEFINE w == Wrote(SpeedRegs(tx), k)
           f == [r \in Reg |-> IF r \in w THEN "fast" ELSE c.cfg[r]]
           d == SetSpeed(c, tx, k)
<1>1. d = [c EXCEPT !.cfg = f]
  BY DEF SetSpeed
<1> HIDE DEF w, d
<1>2. f \in [Reg -> Settings]
  BY DEF ChipRecord, Settings
<1>3. \A r \in Reg : f[r] = "fast" \/ f[r] = c.cfg[r]
  OBVIOUS
<1> HIDE DEF f
<1>4. d \in ChipRecord /\ d.power = c.power /\ d.rf = c.rf /\ d.crypto = c.crypto /\ d.cfg = f
      /\ d.bits = c.bits
  BY <1>1, <1>2 DEF ChipRecord
<1>5. Left(c, "A") => Left(d, "A")
  BY <1>3, <1>4 DEF Left, NearlyTuned, On, Registers
<1> QED BY <1>4, <1>5 DEF d

(* Power and field. *)
LEMMA PowerChip ==
    ASSUME NEW c \in ChipRecord, NEW k \in 0..6
    PROVE  /\ rc632_init(c, k) \in ChipRecord
           /\ k = 6 => rc632_init(c, k).power
           /\ rc632_fini(c, k) \in ChipRecord
<1>1. c = [power |-> c.power, rf |-> c.rf, crypto |-> c.crypto, cr |-> c.cr, bits |-> c.bits,
           cfg |-> c.cfg] /\ c.bits \in SUBSET FrameBits
      /\ c.power \in BOOLEAN /\ c.crypto \in BOOLEAN /\ c.rf \in BOOLEAN /\ c.cr \in SUBSET Redundancy
      /\ c.cfg \in [Reg -> Settings]
  BY DEF ChipRecord
<1> DEFINE p == CASE k = 0 -> c.power [] k = 1 -> FALSE [] OTHER -> TRUE
           f == IF k >= 4 THEN [c.cfg EXCEPT !["TX_CONTROL"] = "reset"] ELSE c.cfg
           rf == CASE k < 4 -> c.rf [] k = 5 -> FALSE [] OTHER -> TRUE
<1>2. rc632_init(c, k) = [c EXCEPT !.power = p, !.cfg = f, !.rf = rf]
  BY DEF rc632_init
<1>3. p \in BOOLEAN /\ (k = 6 => p)
  <2>1. CASE k = 0
    BY <1>1, <2>1
  <2>2. CASE k = 1
    BY <2>2
  <2>3. CASE k # 0 /\ k # 1
    BY <2>3
  <2> QED BY <2>1, <2>2, <2>3
<1>4. rf \in BOOLEAN
  <2>1. CASE k < 4
    BY <1>1, <2>1
  <2>2. CASE k = 5
    BY <2>2
  <2>3. CASE ~(k < 4) /\ k # 5
    BY <2>3
  <2> QED BY <2>1, <2>2, <2>3
<1>5. f \in [Reg -> Settings]
  BY <1>1 DEF Reg, Settings
<1> HIDE DEF p, f, rf
<1>6. rc632_init(c, k) = [power |-> p, rf |-> rf, crypto |-> c.crypto, cr |-> c.cr,
                          bits |-> c.bits, cfg |-> f]
  BY <1>1, <1>2
<1>7. rc632_init(c, k) \in ChipRecord /\ (k = 6 => rc632_init(c, k).power)
  BY <1>1, <1>3, <1>4, <1>5, <1>6 DEF ChipRecord
<1> DEFINE on == c.rf /\ k = 0
           up == c.power /\ k < 2
<1>8. rc632_fini(c, k) = [c EXCEPT !.rf = on, !.power = up]
  BY DEF rc632_fini
<1>9. on \in BOOLEAN /\ up \in BOOLEAN
  OBVIOUS
<1> HIDE DEF on, up
<1>10. rc632_fini(c, k) = [power |-> up, rf |-> on, crypto |-> c.crypto, cr |-> c.cr,
                           bits |-> c.bits, cfg |-> c.cfg]
  BY <1>1, <1>8
<1> QED BY <1>1, <1>7, <1>9, <1>10 DEF ChipRecord

(* The frames.  Chip d is chip c after k writes before frame f: to         *)
(* CONTROL, CHANNEL_REDUNDANCY and BIT_FRAMING, by its function only.      *)
Written(d, c, f, b, k) ==
    /\ d \in ChipRecord /\ d.power = c.power /\ d.rf = c.rf /\ d.cfg = c.cfg
    /\ f.kind \notin {"sf", "acf"} => d.crypto = c.crypto /\ d.bits = c.bits
    /\ f.kind \in {"sf", "acf"} /\ k = 3 => d.crypto = FALSE /\ d.bits = b
    /\ f.kind = "sf" => d.cr = IF k = 3 THEN c.cr \ {"RX_CRC", "TX_CRC"} ELSE c.cr
    /\ f.kind = "acf" => d.cr = IF k >= 2 THEN c.cr \ {"TX_CRC"} ELSE c.cr
    /\ f.kind = "auth" => d.cr = IF k >= 1 THEN c.cr \ {"RX_CRC"} ELSE c.cr
    /\ f.kind = "inv" => d.cr = c.cr
    /\ f.kind \notin {"sf", "acf", "auth", "inv"} =>
          d.cr = IF k >= 1 THEN RegularCR(f.layer) ELSE c.cr

LEMMA PreparedChip ==
    ASSUME NEW c \in ChipRecord, NEW f \in FrameRecord, NEW b \in Framing(f), NEW k \in 0..3,
           NEW d, d = Prepared(c, f, b, k)
    PROVE  Written(d, c, f, b, k)
<1>1. c.cr \in SUBSET Redundancy /\ RegularCR(f.layer) \in SUBSET Redundancy /\ c.crypto \in BOOLEAN
      /\ c.bits \in SUBSET FrameBits
  BY DEF ChipRecord, RegularCR, Redundancy
<1>2. b \in SUBSET FrameBits
  BY DEF Framing, FrameBits
<1>3. c = [power |-> c.power, rf |-> c.rf, crypto |-> c.crypto, cr |-> c.cr, bits |-> c.bits, cfg |-> c.cfg]
      /\ c.power \in BOOLEAN /\ c.rf \in BOOLEAN /\ c.cfg \in [Reg -> Settings]
  BY DEF ChipRecord
<1>4. ASSUME NEW cry \in BOOLEAN, NEW cr \in SUBSET Redundancy, NEW bits \in SUBSET FrameBits,
             d = [power |-> c.power, rf |-> c.rf, crypto |-> cry, cr |-> cr, bits |-> bits, cfg |-> c.cfg]
      PROVE  /\ d \in ChipRecord /\ d.power = c.power /\ d.rf = c.rf /\ d.cfg = c.cfg
             /\ d.crypto = cry /\ d.cr = cr /\ d.bits = bits
  <2> QED BY <1>3, <1>4 DEF ChipRecord
<1>5. CASE f.kind = "sf"
  <2> DEFINE cry == c.crypto /\ k < 2
             cr == IF k >= 3 THEN c.cr \ {"RX_CRC", "TX_CRC"} ELSE c.cr
             bits == IF k >= 1 THEN b ELSE c.bits
  <2>1. d = [c EXCEPT !.bits = bits, !.crypto = cry, !.cr = cr]
    BY <1>5 DEF Prepared, ShortPrepared
  <2>2. cry \in BOOLEAN /\ cr \in SUBSET Redundancy /\ bits \in SUBSET FrameBits
    BY <1>1, <1>2
  <2>3. k = 3 => cry = FALSE
    OBVIOUS
  <2>4. (k = 3 => bits = b) /\ cr = IF k = 3 THEN c.cr \ {"RX_CRC", "TX_CRC"} ELSE c.cr
    OBVIOUS
  <2> HIDE DEF cry, cr, bits
  <2>5. d = [power |-> c.power, rf |-> c.rf, crypto |-> cry, cr |-> cr, bits |-> bits, cfg |-> c.cfg]
    BY <1>3, <2>1
  <2> QED BY <1>4, <1>5, <2>2, <2>3, <2>4, <2>5 DEF Written
<1>6. CASE f.kind = "acf"
  <2> DEFINE cry == c.crypto /\ k < 1
             cr == IF k >= 2 THEN c.cr \ {"TX_CRC"} ELSE c.cr
             bits == IF k >= 3 THEN b ELSE c.bits
  <2>1. d = [c EXCEPT !.crypto = cry, !.cr = cr, !.bits = bits]
    BY <1>6 DEF Prepared, SplitPrepared
  <2>2. cry \in BOOLEAN /\ cr \in SUBSET Redundancy /\ bits \in SUBSET FrameBits
    BY <1>1, <1>2
  <2>3. k = 3 => cry = FALSE
    OBVIOUS
  <2>4. (k = 3 => bits = b) /\ cr = IF k >= 2 THEN c.cr \ {"TX_CRC"} ELSE c.cr
    OBVIOUS
  <2> HIDE DEF cry, cr, bits
  <2>5. d = [power |-> c.power, rf |-> c.rf, crypto |-> cry, cr |-> cr, bits |-> bits, cfg |-> c.cfg]
    BY <1>3, <2>1
  <2> QED BY <1>4, <1>6, <2>2, <2>3, <2>4, <2>5 DEF Written
<1>7. ASSUME NEW cr \in SUBSET Redundancy, d = [c EXCEPT !.cr = cr], f.kind \notin {"sf", "acf"}
      PROVE  /\ d \in ChipRecord /\ d.power = c.power /\ d.rf = c.rf /\ d.cfg = c.cfg
             /\ d.crypto = c.crypto /\ d.bits = c.bits /\ d.cr = cr
  <2>1. d = [power |-> c.power, rf |-> c.rf, crypto |-> c.crypto, cr |-> cr, bits |-> c.bits, cfg |-> c.cfg]
    BY <1>3, <1>7
  <2> QED BY <1>1, <1>4, <2>1
<1>8. c = [c EXCEPT !.cr = c.cr]
  BY <1>3
<1>9. CASE f.kind = "auth"
  <2>1. d = [c EXCEPT !.cr = IF k >= 1 THEN c.cr \ {"RX_CRC"} ELSE c.cr]
    BY <1>8, <1>9 DEF Prepared, clear_bits
  <2>2. (IF k >= 1 THEN c.cr \ {"RX_CRC"} ELSE c.cr) \in SUBSET Redundancy
    BY <1>1
  <2> QED BY <1>7, <1>9, <2>1, <2>2 DEF Written
<1>10. CASE f.kind = "inv"
  <2>1. d = [c EXCEPT !.cr = c.cr]
    BY <1>8, <1>10 DEF Prepared
  <2> QED BY <1>1, <1>7, <1>10, <2>1 DEF Written
<1>11. CASE f.kind \notin {"sf", "acf", "auth", "inv"}
  <2>1. d = IF k >= 1 THEN [c EXCEPT !.cr = RegularCR(f.layer)] ELSE c
    BY <1>11, Zenon DEF Prepared
  <2>2. d = [c EXCEPT !.cr = IF k >= 1 THEN RegularCR(f.layer) ELSE c.cr]
    BY <1>8, <2>1
  <2>3. (IF k >= 1 THEN RegularCR(f.layer) ELSE c.cr) \in SUBSET Redundancy
    BY <1>1
  <2> QED BY <1>7, <1>11, <2>2, <2>3 DEF Written
<1> QED BY <1>5, <1>6, <1>9, <1>10, <1>11 DEF Written

(* They keep what the call needs, *)
LEMMA PreparedReady ==
    ASSUME NEW c \in ChipRecord, NEW f \in FrameRecord, ReadyFor(c, f.kind, f.layer),
           NEW b \in Framing(f), NEW n \in 0..3
    PROVE  /\ ReadyFor(Prepared(c, f, b, n), f.kind, f.layer)
           /\ f.kind \in {"hlta", "quiet"} /\ Settled(c, f.layer) => Settled(Prepared(c, f, b, n), f.layer)
           /\ f.kind = "auth" /\ "TX_CRC" \in c.cr => "TX_CRC" \in Prepared(c, f, b, n).cr
<1> DEFINE k == f.kind
           l == f.layer
<1>0. PICK d : d = Prepared(c, f, b, n)
  OBVIOUS
<1>w. Written(d, c, f, b, n)
  BY <1>0, PreparedChip
<1>1. /\ d.power = c.power /\ d.rf = c.rf /\ d.cfg = c.cfg
      /\ k \notin {"sf", "acf"} => d.crypto = c.crypto /\ d.bits = c.bits
      /\ k = "sf" => d.cr = IF n = 3 THEN c.cr \ {"RX_CRC", "TX_CRC"} ELSE c.cr
      /\ k = "acf" => d.cr = IF n >= 2 THEN c.cr \ {"TX_CRC"} ELSE c.cr
      /\ k = "auth" => d.cr = IF n >= 1 THEN c.cr \ {"RX_CRC"} ELSE c.cr
      /\ k = "inv" => d.cr = c.cr
      /\ k \notin {"sf", "acf", "auth", "inv"} => d.cr = IF n >= 1 THEN RegularCR(l) ELSE c.cr
  BY <1>w DEF Written
<1>2. k \in FrameKinds /\ l \in LayerNames /\ c.cr \in SUBSET Redundancy
  BY DEF FrameRecord, ChipRecord
<1>3. ReadyFor(c, k, l)
  OBVIOUS
<1>4. (On(d) <=> On(c)) /\ (Tuned(d, l) <=> Tuned(c, l)) /\ (NearlyTuned(d, l) <=> NearlyTuned(c, l))
  BY <1>1 DEF On, Tuned, NearlyTuned
<1>5. CASE k \in {"sf", "acf"}
  <2>1. l = "A" /\ Fresh(c, l)
    BY <1>3, <1>5 DEF ReadyFor
  <2>2. "PARITY" \in d.cr /\ "CRC3309" \notin d.cr
    BY <1>1, <1>5, <2>1 DEF Fresh
  <2>3. ReadyFor(d, k, l)
    BY <1>4, <1>5, <2>1, <2>2 DEF ReadyFor, Fresh
  <2> QED BY <1>0, <1>5, <2>3
<1>6. CASE k = "auth"
  <2>1. /\ l = "A" /\ Tuned(c, l) /\ c.bits = {} /\ "PARITY" \in c.cr /\ "CRC3309" \notin c.cr
        /\ "TX_CRC" \in c.cr \/ c.crypto
    BY <1>3, <1>6 DEF ReadyFor
  <2>2. /\ d.bits = {} /\ "PARITY" \in d.cr /\ "CRC3309" \notin d.cr /\ d.crypto = c.crypto
        /\ "TX_CRC" \in c.cr => "TX_CRC" \in d.cr
    BY <1>1, <1>6, <2>1
  <2>3. ReadyFor(d, k, l)
    BY <1>4, <1>6, <2>1, <2>2 DEF ReadyFor
  <2> QED BY <1>0, <1>6, <2>2, <2>3
<1>7. CASE k = "inv"
  <2>1. d.cr = c.cr /\ d.crypto = c.crypto /\ l = "V" /\ Fresh(c, l)
    BY <1>1, <1>3, <1>7 DEF ReadyFor
  <2>2. ReadyFor(d, k, l)
    BY <1>4, <1>7, <2>1 DEF ReadyFor, Fresh
  <2> QED BY <1>0, <1>7, <2>2
<1>8. CASE k \notin {"sf", "acf", "auth", "inv"}
  <2>1. d.bits = c.bits /\ d.crypto = c.crypto /\ (d.cr = RegularCR(l) \/ d.cr = c.cr)
    BY <1>1, <1>8
  <2>2. "PARITY" \in RegularCR("A") /\ "CRC3309" \notin RegularCR("A")
    BY DEF RegularCR
  <2>3. Fresh(c, l) => Fresh(d, l)
    BY <1>4, <2>1, <2>2 DEF Fresh
  <2>4. Settled(c, l) => Settled(d, l)
    BY <1>4, <2>1 DEF Settled
  <2>5. l = "A" /\ Keyed(c) => Keyed(d)
    BY <1>4, <2>1, <2>2 DEF Keyed
  <2>6. ReadyFor(d, k, l)
    BY <1>3, <1>4, <1>8, <2>1, <2>3, <2>4, <2>5 DEF ReadyFor, Left
  <2> QED BY <1>0, <1>8, <2>4, <2>6
<1> QED BY <1>5, <1>6, <1>7, <1>8

(* and all of them make the chip fit the frame.                            *)
LEMMA PreparedFits ==
    ASSUME NEW c \in ChipRecord, NEW f \in FrameRecord, ReadyFor(c, f.kind, f.layer), NEW b \in Framing(f)
    PROVE  FitsFrame(Prepared(c, f, b, 3), f)
<1> DEFINE k == f.kind
           l == f.layer
<1>0. PICK d : d = Prepared(c, f, b, 3)
  OBVIOUS
<1>w. Written(d, c, f, b, 3)
  BY <1>0, PreparedChip
<1>1. /\ d.power = c.power /\ d.rf = c.rf /\ d.cfg = c.cfg
      /\ k \notin {"sf", "acf"} => d.crypto = c.crypto /\ d.bits = c.bits
      /\ k \in {"sf", "acf"} => d.crypto = FALSE /\ d.bits = b
      /\ k = "sf" => d.cr = c.cr \ {"RX_CRC", "TX_CRC"}
      /\ k = "acf" => d.cr = c.cr \ {"TX_CRC"}
      /\ k = "auth" => d.cr = c.cr \ {"RX_CRC"}
      /\ k = "inv" => d.cr = c.cr
      /\ k \notin {"sf", "acf", "auth", "inv"} => d.cr = RegularCR(l)
  BY <1>w DEF Written
<1>2. k \in FrameKinds /\ l \in LayerNames /\ c.cr \in SUBSET Redundancy /\ c.crypto \in BOOLEAN
  BY DEF FrameRecord, ChipRecord
<1>3. ReadyFor(c, k, l)
  OBVIOUS
<1>4. (On(d) <=> On(c)) /\ (Tuned(d, l) <=> Tuned(c, l)) /\ (NearlyTuned(d, l) <=> NearlyTuned(c, l))
  BY <1>1 DEF On, Tuned, NearlyTuned
<1>5. CASE k = "sf"
  <2>1. l = "A" /\ Fresh(c, l)
    BY <1>3, <1>5 DEF ReadyFor
  <2>2. d.cr = {"PARITY"} /\ ~d.crypto /\ d.bits = b
    BY <1>1, <1>2, <1>5, <2>1 DEF Fresh, Redundancy
  <2>3. Tuned(d, l)
    BY <1>4, <2>1 DEF Fresh
  <2>4. FitsFrame(d, f)
    BY <1>5, <2>2, <2>3 DEF FitsFrame, Tuned
  <2> QED BY <1>0, <2>4
<1>6. CASE k = "acf"
  <2>1. l = "A" /\ Fresh(c, l)
    BY <1>3, <1>6 DEF ReadyFor
  <2>2. d.cr \ {"RX_CRC"} = {"PARITY"} /\ ~d.crypto /\ d.bits = b
    BY <1>1, <1>2, <1>6, <2>1 DEF Fresh, Redundancy
  <2>3. Tuned(d, l)
    BY <1>4, <2>1 DEF Fresh
  <2>4. FitsFrame(d, f)
    BY <1>6, <2>2, <2>3 DEF FitsFrame, Tuned
  <2> QED BY <1>0, <2>4
<1>7. CASE k = "auth"
  <2>1. /\ l = "A" /\ Tuned(c, l) /\ c.bits = {} /\ "PARITY" \in c.cr /\ "CRC3309" \notin c.cr
        /\ "TX_CRC" \in c.cr \/ c.crypto
    BY <1>3, <1>7 DEF ReadyFor
  <2>2. d.cr = {"PARITY", "TX_CRC"} \/ (d.cr = {"PARITY"} /\ d.crypto)
    BY <1>1, <1>2, <1>7, <2>1 DEF Redundancy
  <2>3. d.bits = {} /\ Framing(f) = {{}}
    BY <1>1, <1>7, <2>1 DEF Framing
  <2>4. FitsFrame(d, f)
    BY <1>4, <1>7, <2>1, <2>2, <2>3 DEF FitsFrame, Tuned
  <2> QED BY <1>0, <2>4
<1>8. CASE k = "inv"
  <2>1. l = "V" /\ Fresh(c, l)
    BY <1>3, <1>8 DEF ReadyFor
  <2>2. d.cr = RegularCR(l) /\ ~d.crypto /\ Tuned(d, l)
    BY <1>1, <1>4, <1>8, <2>1 DEF Fresh
  <2>3. FitsFrame(d, f)
    BY <1>8, <2>2 DEF FitsFrame, Tuned
  <2> QED BY <1>0, <2>3
<1>9. CASE k \notin {"sf", "acf", "auth", "inv"}
  <2>1. d.cr = RegularCR(l) /\ d.crypto = c.crypto /\ d.bits = c.bits
    BY <1>1, <1>2, <1>9
  <2>2. /\ NearlyTuned(c, l)
        /\ k \notin {"iblock", "deselect", "hlta"} => Tuned(c, l)
        /\ c.crypto <=> k = "mfread"
        /\ k # "reqb" => c.bits = {}
    BY <1>2, <1>3, <1>9 DEF ReadyFor, Fresh, Settled, Left, Keyed, Tuned, NearlyTuned, FrameKinds
  <2>3. \A r \in Registers(l) : d.cfg[r] = l \/ (d.cfg[r] = "fast" /\ k \in {"iblock", "deselect", "hlta"})
    BY <1>1, <2>2 DEF Tuned, NearlyTuned
  <2>4. On(d) /\ (d.crypto <=> k = "mfread")
    BY <1>4, <2>1, <2>2 DEF NearlyTuned
  <2>5. (CASE k = "sf"   -> d.cr = {"PARITY"}
          [] k = "acf"  -> d.cr \ {"RX_CRC"} = {"PARITY"}
          [] k = "auth" -> d.cr = {"PARITY", "TX_CRC"} \/ (d.cr = {"PARITY"} /\ d.crypto)
          [] OTHER      -> d.cr = RegularCR(l))
    BY <1>9, <2>1, Zenon
  <2>6. Framing(f) = {{}}
    BY <1>9, Zenon DEF Framing
  <2>7. k \notin {"reqb", "inv"} => d.bits \in Framing(f)
    BY <2>1, <2>2, <2>6
  <2>8. FitsFrame(d, f)
    BY <2>3, <2>4, <2>5, <2>7 DEF FitsFrame
  <2> QED BY <1>0, <2>8
<1> QED BY <1>5, <1>6, <1>7, <1>8, <1>9

(* The exchange itself clears bits of BIT_FRAMING only. *)
LEMMA ExchangedChip ==
    ASSUME NEW c \in ChipRecord, NEW heard \in BOOLEAN
    PROVE  LET d == Exchanged(c, heard)
           IN /\ d \in ChipRecord /\ d.power = c.power /\ d.crypto = c.crypto /\ d.cr = c.cr
              /\ \A l : Tuned(c, l) => Tuned(d, l)
              /\ \A l : Settled(c, l) => Settled(d, l)
              /\ \A l, k : ReadyFor(c, k, l) => ReadyFor(d, k, l)
              /\ c.bits = {} \/ (heard /\ "RxAlign" \notin c.bits) => d.bits = {}
              /\ heard => d.bits = {}
<1> DEFINE s == IF heard THEN {"TxLastBits", "RxAlign"} ELSE {"TxLastBits"}
           d == Exchanged(c, heard)
<1>1. d = [c EXCEPT !.bits = c.bits \ s]
  BY DEF Exchanged
<1>2. c.bits \in SUBSET FrameBits /\ (heard => c.bits \ s = {}) /\ c.bits \ s \in SUBSET FrameBits
  BY DEF ChipRecord, FrameBits
<1>3. PICK e : e = c.bits \ s
  OBVIOUS
<1>4. e \in SUBSET FrameBits /\ (c.bits = {} => e = {}) /\ (heard => e = {})
  BY <1>2, <1>3
<1> HIDE DEF d, s
<1>5. /\ d \in ChipRecord /\ d.power = c.power /\ d.rf = c.rf /\ d.crypto = c.crypto /\ d.cr = c.cr
      /\ d.cfg = c.cfg /\ d.bits = e
  BY <1>1, <1>3, <1>4 DEF ChipRecord
<1>6. ASSUME NEW l
      PROVE  (Tuned(d, l) <=> Tuned(c, l)) /\ (NearlyTuned(d, l) <=> NearlyTuned(c, l))
             /\ (Fresh(d, l) <=> Fresh(c, l)) /\ (Settled(c, l) => Settled(d, l))
             /\ (Left(c, l) => Left(d, l)) /\ (Keyed(c) => Keyed(d))
  BY <1>4, <1>5 DEF Tuned, NearlyTuned, On, Fresh, Settled, Left, Keyed
<1>7. ASSUME NEW l, NEW k, ReadyFor(c, k, l) PROVE ReadyFor(d, k, l)
  BY <1>4, <1>5, <1>6, <1>7 DEF ReadyFor
<1> QED BY <1>4, <1>5, <1>6, <1>7 DEF d

(* From one state of the registers to another. *)
LEMMA SettledIs ==
    ASSUME NEW c, NEW l \in LayerNames, Settled(c, l)
    PROVE  /\ Tuned(c, l) /\ Fresh(c, l) /\ Left(c, l) /\ NearlyTuned(c, l)
           /\ ~c.crypto /\ c.cr = RegularCR(l) /\ c.bits = {}
           /\ {"PARITY", "TX_CRC"} \subseteq RegularCR("A") /\ "CRC3309" \notin RegularCR("A")
BY DEF Settled, Fresh, Left, Tuned, NearlyTuned, RegularCR, LayerNames

(* After an answer to a frame the chip is still set up for it. *)
LEMMA FitsIs ==
    ASSUME NEW c \in ChipRecord, NEW f \in FrameRecord, FitsFrame(c, f), NEW d, d = Exchanged(c, TRUE)
    PROVE  /\ f.kind \in {"select", "inv", "ulread"} => Settled(d, f.layer)
           /\ f.kind = "acf" => Tuned(d, f.layer) /\ ~d.crypto /\ d.bits = {}
<1>1. f.kind \notin {"iblock", "deselect", "hlta"} => Tuned(c, f.layer)
  BY DEF FitsFrame, Tuned
<1>2. f.kind # "auth" => (c.crypto <=> f.kind = "mfread")
  BY DEF FitsFrame
<1>3. f.kind \in {"select", "inv", "ulread"} => c.cr = RegularCR(f.layer)
  <2>1. CASE f.kind \in {"select", "inv", "ulread"}
    <3>1. (CASE f.kind = "sf"   -> c.cr = {"PARITY"}
             [] f.kind = "acf"  -> c.cr \ {"RX_CRC"} = {"PARITY"}
             [] f.kind = "auth" -> c.cr = {"PARITY", "TX_CRC"} \/ (c.cr = {"PARITY"} /\ c.crypto)
             [] OTHER           -> c.cr = RegularCR(f.layer))
      BY Zenon DEF FitsFrame
    <3>2. f.kind # "sf" /\ f.kind # "acf" /\ f.kind # "auth"
      BY <2>1
    <3> QED BY <3>1, <3>2, Zenon
  <2> QED BY <2>1
<1>4. (Tuned(c, f.layer) => Tuned(d, f.layer)) /\ d.crypto = c.crypto /\ d.cr = c.cr /\ d.bits = {}
  BY ExchangedChip
<1> QED BY <1>1, <1>2, <1>3, <1>4 DEF Settled

(* Crypto1 is switched on, or TX_CRC at least off. *)
LEMMA AuthChip ==
    ASSUME NEW c \in ChipRecord, NEW on \in BOOLEAN, Tuned(c, "A"), c.bits = {}, "PARITY" \in c.cr,
           "CRC3309" \notin c.cr,
           NEW d, d = clear_bits([Exchanged(c, TRUE) EXCEPT !.crypto = on], {"TX_CRC"})
    PROVE  d \in ChipRecord /\ d.power = c.power /\ (on => Keyed(d))
<1>1. PICK e : e = Exchanged(c, TRUE)
  OBVIOUS
<1>2. e \in ChipRecord /\ e.power = c.power /\ e.cr = c.cr /\ e.bits = {} /\ Tuned(e, "A")
  BY <1>1, ExchangedChip
<1>3. d = [[e EXCEPT !.crypto = on] EXCEPT !.cr = e.cr \ {"TX_CRC"}]
  BY <1>1, <1>2 DEF clear_bits, ChipRecord
<1>4. d \in ChipRecord /\ d.power = e.power /\ d.rf = e.rf /\ d.cfg = e.cfg /\ d.crypto = on
      /\ d.bits = e.bits /\ d.cr = e.cr \ {"TX_CRC"}
  BY <1>2, <1>3 DEF ChipRecord
<1> QED BY <1>2, <1>4 DEF Keyed, Tuned, On

---------------------------------------------------------------------------
(* Steps of the tools.                                                     *)

(* Control goes to a label at which nothing is asked of the chip. *)
Free == {"start", "begin", "rfon", "scan", "again", "round", "fini", "close", "exit"}

LEMMA TypedCalls ==
    /\ NoCall \in LibRecord
    /\ NoHandle \in Handles /\ NoProto \in ProtoHandles
    /\ \A h \in Handles : h.layer # "none" => h # NoHandle
BY DEF NoCall, LibRecord, LibLabels, CallNames, NoHandle, Handles, NoProto, ProtoHandles, NoTag

(* The tool is at label a, and otherwise the same. *)
Moved(a) ==
    /\ tool' \in ToolRecord /\ tool'.at = a
    /\ tool'.name = tool.name /\ tool'.layer = tool.layer /\ tool'.proto = tool.proto

LEMMA GotoMoves ==
    ASSUME Inv, NEW a \in ToolLabels, Goto(a)
    PROVE  Moved(a)
BY DEF Inv, Records, ToolRecord, Goto, Moved

(* Steps after which control is in the tool. *)
LEMMA ToolStep ==
    ASSUME Inv, lib.at = "none", NEW a \in ToolLabels, Moved(a),
           lib' \in LibRecord, lib'.at = "none", lib'.call = "none",
           UNCHANGED <<handles, air>>, rh' \in {"none", Reader}, chip' \in ChipRecord,
           a \notin {"start", "exit"} => chip'.power,
           a \in Free \/ Rests'
    PROVE  Inv'
<1>1. Records'
  BY DEF Inv, Records, handles, Moved
<1>2. Calls'
  BY DEF Inv, Calls, handles
<1>3. Prepares'
  BY DEF Inv, Calls, Prepares, ReadyFor, handles, Handle, Moved
<1>4. Rests'
  BY DEF Rests, Free, Moved
<1>5. OnAir'
  BY DEF Inv, OnAir, FrameKinds
<1> QED BY <1>1, <1>2, <1>3, <1>4, <1>5 DEF Inv

(* Steps that stay in the tool. *)
LEMMA StayStep ==
    ASSUME Inv, lib.at = "none", NEW a \in ToolLabels, Moved(a),
           UNCHANGED <<handles, lib, air>>, rh' \in {"none", Reader}, chip' \in ChipRecord,
           a \notin {"start", "exit"} => chip'.power,
           a \in Free \/ Rests'
    PROVE  Inv'
<1>1. lib' \in LibRecord /\ lib'.at = "none" /\ lib'.call = "none"
  BY DEF Inv, Records, Calls
<1> QED BY <1>1, ToolStep

(* Jumps. *)
LEMMA JumpStep ==
    ASSUME Inv, lib.at = "none", tool.at \notin {"start", "exit"}, NEW a \in Free, Jump(a)
    PROVE  Inv'
<1>1. Moved(a) /\ a \in ToolLabels
  BY GotoMoves DEF Jump, Free, ToolLabels
<1>2. chip \in ChipRecord /\ chip.power /\ rh \in {"none", Reader}
  BY DEF Inv, Records, Prepares
<1> QED BY <1>1, <1>2, StayStep DEF Jump

(* Calls of the library. *)
LEMMA CallStep ==
    ASSUME Inv, lib.at = "none", tool.at \notin {"start", "exit"},
           NEW a \in ToolLabels, NEW c \in LibRecord, Call(c, a),
           c.at \notin {"none", "acf", "select"}, c.call # "none",
           c.call = "scan" => ScanCall', c.call \in {"init", "open"} => OpenCall',
           c.call = "l3" => ProtocolCall', c.call = "close" => CloseCall', c.call = "use" => UseCall',
           ReadyFor(chip, c.at, l2h.layer),
           c.at = "pinit" => c.call = "l3" /\ Settled(chip, l2h.layer),
           c.call = "close" /\ tool.name \in Enums => Settled(chip, l2h.layer),
           c.at = "auth" /\ tool.name # "main" => "TX_CRC" \in chip.cr
    PROVE  Inv'
<1>1. Moved(a) /\ lib' = c /\ UNCHANGED <<rh, handles, chip, air>>
  BY GotoMoves DEF Call
<1>2. Handle' = l2h' /\ l2h' = l2h /\ air = NoFrame
  BY <1>1 DEF Inv, Calls, Handle, handles, OnAir, FrameKinds
<1>3. Records'
  BY <1>1 DEF Inv, Records, handles, Moved
<1>4. Prepares'
  BY <1>1, <1>2 DEF Inv, Prepares, Moved
<1>5. Rests'
  BY <1>1 DEF Rests
<1>6. OnAir'
  BY <1>1, <1>2 DEF OnAir
<1>7. Calls'
  BY <1>1 DEF Inv, Calls, handles
<1> QED BY <1>3, <1>4, <1>5, <1>6, <1>7 DEF Inv

(* The calls themselves. *)
LEMMA CallRecords ==
    ASSUME Inv
    PROVE  /\ rfid_scan \in LibRecord /\ rfid_scan.at = "init" /\ rfid_scan.call = "scan"
           /\ layer2_init \in LibRecord /\ layer2_init.at = "init" /\ layer2_init.call = "init"
           /\ Layers[layer2_init.i] = tool.layer
           /\ protocol_open \in LibRecord /\ protocol_open.at = "pinit" /\ protocol_open.call = "l3"
           /\ layer2_close \in LibRecord /\ layer2_close.call = "close"
           /\ layer2_close.at = IF l2h.layer = "V" THEN "quiet" ELSE "hlta"
           /\ l2h.layer \in LayerNames =>
                 /\ layer2_open \in LibRecord /\ layer2_open.call = "open"
                 /\ layer2_open.at \in OpenLabels \ {"acf", "select"}
                 /\ layer2_open.at = OpenFrame(l2h.layer)
           /\ \A k \in FrameKinds :
                 exchange(k) \in LibRecord /\ exchange(k).at = k /\ exchange(k).call = "use"
           /\ ph.proto = "TCL" =>
                 /\ protocol_close \in LibRecord /\ protocol_close.at = "deselect"
                 /\ protocol_close.call = "close"
<1>1. l2h.tag \in Tag \cup {NoTag} /\ ph.tag \in Tag \cup {NoTag} /\ tool.layer \in LayerNames
  BY DEF Inv, Records, Handles, ProtoHandles, ToolRecord
<1>2. rfid_scan \in LibRecord /\ rfid_scan.at = "init" /\ rfid_scan.call = "scan"
  BY TypedCalls DEF rfid_scan, LibRecord, LibLabels, CallNames, NoTag
<1>3. /\ layer2_init \in LibRecord /\ layer2_init.at = "init" /\ layer2_init.call = "init"
      /\ Layers[layer2_init.i] = tool.layer
  <2>1. Len(Layers) = 3 /\ Layers[1] = "A" /\ Layers[2] = "B" /\ Layers[3] = "V"
    BY DEF Layers
  <2>2. \E i \in 1..Len(Layers) : Layers[i] = tool.layer
    BY <1>1, <2>1 DEF LayerNames
  <2>3. PICK j : j = CHOOSE i \in 1..Len(Layers) : Layers[i] = tool.layer
    OBVIOUS
  <2>4. j \in 1..3 /\ Layers[j] = tool.layer
    BY <2>1, <2>2, <2>3
  <2>5. layer2_init = [NoCall EXCEPT !.at = "init", !.call = "init", !.i = j]
    BY <2>3 DEF layer2_init
  <2> QED BY <2>4, <2>5, TypedCalls DEF LibRecord, LibLabels, CallNames
<1>4. protocol_open \in LibRecord /\ protocol_open.at = "pinit" /\ protocol_open.call = "l3"
  BY <1>1, TypedCalls DEF protocol_open, LibRecord, LibLabels, CallNames
<1>5. /\ layer2_close \in LibRecord /\ layer2_close.call = "close"
      /\ layer2_close.at = IF l2h.layer = "V" THEN "quiet" ELSE "hlta"
  BY <1>1, TypedCalls DEF layer2_close, LibRecord, LibLabels, CallNames, FrameKinds
<1>6. ASSUME l2h.layer \in LayerNames
      PROVE  /\ layer2_open \in LibRecord /\ layer2_open.call = "open"
             /\ layer2_open.at \in OpenLabels \ {"acf", "select"}
             /\ layer2_open.at = OpenFrame(l2h.layer)
  <2>1. OpenFrame(l2h.layer) \in {"sf", "reqb", "inv"}
    BY <1>6 DEF OpenFrame, LayerNames
  <2> QED BY <2>1, TypedCalls DEF layer2_open, LibRecord, LibLabels, CallNames, FrameKinds, OpenLabels, NoTag
<1>7. ASSUME NEW k \in FrameKinds
      PROVE  exchange(k) \in LibRecord /\ exchange(k).at = k /\ exchange(k).call = "use"
  BY <1>1, TypedCalls DEF exchange, LibRecord, LibLabels, CallNames
<1>8. ASSUME ph.proto = "TCL"
      PROVE  /\ protocol_close \in LibRecord /\ protocol_close.at = "deselect"
             /\ protocol_close.call = "close"
  BY <1>1, <1>8, TypedCalls DEF protocol_close, LibRecord, LibLabels, CallNames, FrameKinds
<1> QED BY <1>2, <1>3, <1>4, <1>5, <1>6, <1>7, <1>8

(* The field off or on. *)
LEMMA RfStep ==
    ASSUME Inv, lib.at = "none", tool.at \notin {"start", "exit"},
           NEW on \in BOOLEAN, RfPower(on), NEW a \in Free, Goto(a)
    PROVE  Inv'
<1>1. chip \in ChipRecord /\ chip.power /\ rh \in {"none", Reader}
  BY DEF Inv, Records, Prepares
<1>2. [chip EXCEPT !.rf = on] \in ChipRecord /\ [chip EXCEPT !.rf = on].power
  BY <1>1 DEF ChipRecord
<1>3. chip' \in {chip, [chip EXCEPT !.rf = on]} /\ UNCHANGED <<rh, handles, lib, air>>
  BY DEF RfPower
<1>4. Moved(a) /\ a \in ToolLabels
  BY GotoMoves DEF Free, ToolLabels
<1> QED BY <1>1, <1>2, <1>3, <1>4, StayStep

(* A call of rfid_layer2_init or rfid_scan needs no more than power. *)
LEMMA ReadyTrivially ==
    ASSUME NEW c, NEW l, NEW k \in {"init", "pinit", "none"}
    PROVE  ReadyFor(c, k, l)
BY DEF ReadyFor

LEMMA do_scan_step ==
    ASSUME Inv, do_scan
    PROVE  Inv'
<1>1. CASE At({"scan", "endless"}, "begin") /\ tool.first /\ RfPower(FALSE) /\ Goto("rfon")
  BY <1>1, RfStep DEF At, Free
<1>2. CASE At({"scan", "endless"}, "rfon") /\ RfPower(TRUE) /\ Goto("scan")
  BY <1>2, RfStep DEF At, Free
<1>3. CASE At({"scan", "endless"}, "begin") /\ ~tool.first /\ Jump("scan")
  BY <1>3, JumpStep DEF At, Free
<1>4. CASE At({"scan", "endless"}, "scan") /\ Call(rfid_scan, "scanned")
  <2>1. Moved("scanned") /\ lib' = rfid_scan /\ UNCHANGED handles
    BY <1>4, GotoMoves DEF Call, ToolLabels
  <2>2. new = NoHandle /\ newp = NoProto
    BY <1>4 DEF At, Inv, Calls
  <2>3. ScanCall'
    BY <1>4, <2>1, <2>2, CallRecords DEF At, Moved, ScanCall, handles, OpenLabels, ConnectLabels
  <2> QED BY <1>4, <2>3, CallStep, CallRecords, ReadyTrivially DEF At, ToolLabels
<1>5. CASE At({"scan"}, "scanned") /\ Jump("close")
  BY <1>5, JumpStep DEF At, Free
<1> QED BY <1>1, <1>2, <1>3, <1>4, <1>5 DEF do_scan

LEMMA do_endless_scan_step ==
    ASSUME Inv, do_endless_scan
    PROVE  Inv'
<1>1. CASE At({"endless"}, "scanned") /\ lib.rc >= 3 /\ Call(protocol_close, "closed")
  <2>1. Moved("closed") /\ lib' = protocol_close /\ UNCHANGED <<rh, handles, chip, air>>
    BY <1>1, GotoMoves DEF Call, ToolLabels
  <2>2. HasTag /\ Left(chip, l2h.layer) /\ (ph.proto = "TCL" => l2h.layer = "A")
    BY <1>1 DEF At, Inv, Records, LibRecord, Rests
  <2>3. HasTag'
    BY <2>1, <2>2 DEF HasTag, handles
  <2>4. CASE ph.proto = "TCL"
    <3>1. CloseCall'
      BY <1>1, <2>1, <2>3, <2>4, CallRecords DEF At, Moved, CloseCall
    <3>2. ReadyFor(chip, "deselect", l2h.layer)
      BY <2>2, <2>4 DEF ReadyFor
    <3> QED BY <1>1, <2>4, <3>1, <3>2, CallStep, CallRecords DEF At, ToolLabels, Enums
  <2>5. CASE ph.proto # "TCL"
    <3>1. lib' \in LibRecord /\ lib'.at = "none" /\ lib'.call = "none"
      BY <2>1, <2>5, TypedCalls DEF protocol_close, NoCall
    <3>2. chip \in ChipRecord /\ chip.power /\ rh \in {"none", Reader}
      BY <1>1 DEF At, Inv, Records, Prepares
    <3>3. Rests'
      BY <1>1, <2>1, <2>2, <2>3 DEF At, Moved, Rests, handles, Openers, Enums
    <3> QED BY <1>1, <2>1, <3>1, <3>2, <3>3, ToolStep DEF At, ToolLabels
  <2> QED BY <2>4, <2>5
<1>2. CASE At({"endless"}, "scanned") /\ lib.rc = 2 /\ Jump("closed")
  <2>1. Moved("closed") /\ UNCHANGED <<rh, handles, lib, chip, air>>
    BY <1>2, GotoMoves DEF Jump, ToolLabels
  <2>2. HasTag /\ Left(chip, l2h.layer) /\ chip \in ChipRecord /\ chip.power /\ rh \in {"none", Reader}
    BY <1>2 DEF At, Inv, Records, Prepares, Rests
  <2>3. Rests'
    BY <1>2, <2>1, <2>2 DEF At, Moved, Rests, HasTag, handles, Openers, Enums
  <2> QED BY <1>2, <2>1, <2>2, <2>3, StayStep DEF At, ToolLabels
<1>3. CASE At({"endless"}, "closed") /\ Call(layer2_close, "again")
  <2>1. Moved("again") /\ lib' = layer2_close /\ UNCHANGED handles
    BY <1>3, GotoMoves DEF Call, ToolLabels
  <2>2. HasTag /\ Left(chip, l2h.layer)
    BY <1>3 DEF At, Inv, Rests
  <2>3. CloseCall'
    BY <1>3, <2>1, <2>2, CallRecords DEF At, Moved, CloseCall, HasTag, handles
  <2>4. ReadyFor(chip, layer2_close.at, l2h.layer)
    BY <2>2, CallRecords DEF ReadyFor, HasTag
  <2> QED BY <1>3, <2>3, <2>4, CallStep, CallRecords DEF At, ToolLabels, Enums
<1>4. CASE /\ At({"endless"}, "again") \/ (At({"endless"}, "scanned") /\ lib.rc < 2)
           /\ tool' = [tool EXCEPT !.at = "begin", !.first = tool.at = "scanned"]
           /\ UNCHANGED <<rh, handles, lib, chip, air, tags, field, trouble>>
  <2>1. Moved("begin")
    <3>1. PICK f \in BOOLEAN : tool' = [tool EXCEPT !.at = "begin", !.first = f]
      BY <1>4
    <3> QED BY <3>1 DEF Inv, Records, ToolRecord, Moved, ToolLabels
  <2>2. chip \in ChipRecord /\ chip.power /\ rh \in {"none", Reader}
    BY <1>4 DEF At, Inv, Records, Prepares
  <2> QED BY <1>4, <2>1, <2>2, StayStep DEF At, ToolLabels, Free
<1> QED BY <1>1, <1>2, <1>3, <1>4 DEF do_endless_scan

LEMMA l2_init_step ==
    ASSUME Inv, l2_init
    PROVE  Inv'
<1>1. CASE At(Openers, "begin") /\ Call(layer2_init, "inited")
  <2>1. Moved("inited") /\ lib' = layer2_init
    BY <1>1, GotoMoves DEF Call, ToolLabels
  <2>2. OpenCall'
    BY <1>1, <2>1, CallRecords DEF At, Moved, OpenCall
  <2> QED BY <1>1, <2>2, CallStep, CallRecords, ReadyTrivially DEF At, ToolLabels
<1>2. CASE At(Openers, "inited") /\ lib.rc >= 0 /\ Call(layer2_open, "opened")
  <2>1. Moved("opened") /\ lib' = layer2_open /\ UNCHANGED handles
    BY <1>2, GotoMoves DEF Call, ToolLabels
  <2>2. l2h.layer = tool.layer /\ Fresh(chip, l2h.layer) /\ l2h.layer \in LayerNames
    BY <1>2 DEF At, Inv, Rests, Records, ToolRecord
  <2>3. OpenCall'
    BY <1>2, <2>1, <2>2, CallRecords DEF At, Moved, OpenCall, handles
  <2>4. ReadyFor(chip, layer2_open.at, l2h.layer)
    BY <2>2, CallRecords DEF ReadyFor, OpenFrame, LayerNames
  <2> QED BY <1>2, <2>2, <2>3, <2>4, CallStep, CallRecords DEF At, ToolLabels, OpenLabels
<1>3. CASE At(Openers, "inited") /\ lib.rc < 0 /\ Jump(OnError)
  <2>1. OnError \in Free
    BY DEF OnError, Free
  <2> QED BY <1>3, <2>1, JumpStep DEF At
<1>4. CASE At(Openers, "opened") /\ lib.rc < 0 /\ Jump(OnError)
  <2>1. OnError \in Free
    BY DEF OnError, Free
  <2> QED BY <1>4, <2>1, JumpStep DEF At
<1> QED BY <1>1, <1>2, <1>3, <1>4 DEF l2_init

LEMMA do_enum_step ==
    ASSUME Inv, do_enum
    PROVE  Inv'
<1>1. CASE At(Enums, "opened") /\ lib.rc >= 0 /\ Call(layer2_close, "closed")
  <2>1. Moved("closed") /\ lib' = layer2_close /\ UNCHANGED handles
    BY <1>1, GotoMoves DEF Call, ToolLabels
  <2>2. HasTag /\ l2h.layer = tool.layer /\ Settled(chip, l2h.layer)
    BY <1>1 DEF At, Inv, Rests, Openers, Enums
  <2>3. CloseCall'
    BY <1>1, <2>1, <2>2, CallRecords DEF At, Moved, CloseCall, handles
  <2>4. ReadyFor(chip, layer2_close.at, l2h.layer)
    BY <2>2, CallRecords, SettledIs DEF ReadyFor, HasTag, LayerNames
  <2> QED BY <1>1, <2>2, <2>3, <2>4, CallStep, CallRecords DEF At, ToolLabels
<1>2. CASE At(Enums, "closed") /\ Call(layer2_open, "opened")
  <2>1. Moved("opened") /\ lib' = layer2_open /\ UNCHANGED handles
    BY <1>2, GotoMoves DEF Call, ToolLabels
  <2>2. l2h.layer = tool.layer /\ Settled(chip, l2h.layer) /\ l2h.layer \in LayerNames
    BY <1>2 DEF At, Inv, Rests, Records, ToolRecord
  <2>3. OpenCall'
    BY <1>2, <2>1, <2>2, CallRecords DEF At, Moved, OpenCall, handles, Enums, Openers
  <2>4. ReadyFor(chip, layer2_open.at, l2h.layer)
    BY <2>2, CallRecords, SettledIs DEF ReadyFor, OpenFrame, LayerNames
  <2> QED BY <1>2, <2>2, <2>3, <2>4, CallStep, CallRecords DEF At, ToolLabels, OpenLabels
<1>3. CASE At({"enum"}, "round") /\ Jump("close")
  BY <1>3, JumpStep DEF At, Free
<1> QED BY <1>1, <1>2, <1>3 DEF do_enum, Enums

LEMMA do_enum_loop_step ==
    ASSUME Inv, do_enum_loop
    PROVE  Inv'
BY RfStep DEF do_enum_loop, At, Free

(* An exchange of the application. *)
LEMMA UseStep ==
    ASSUME Inv, lib.at = "none", tool.at \notin {"start", "exit"}, NEW a \in ToolLabels,
           NEW k \in FrameKinds \ {"acf", "select"}, Call(exchange(k), a),
           UseCall', ReadyFor(chip, k, l2h.layer),
           k = "auth" /\ tool.name # "main" => "TX_CRC" \in chip.cr
    PROVE  Inv'
<1>1. exchange(k) \in LibRecord /\ exchange(k).at = k /\ exchange(k).call = "use"
  BY CallRecords
<1> QED BY <1>1, CallStep DEF FrameKinds

LEMMA iso15693_dump_step ==
    ASSUME Inv, iso15693_dump
    PROVE  Inv'
<1>1. ASSUME Call(exchange("block"), "use"), At({"dump"}, tool.at), tool.at \notin {"start", "exit"},
             l2h.layer = "V", Settled(chip, "V")
      PROVE  Inv'
  <2>1. Moved("use") /\ lib' = exchange("block")
    BY <1>1, GotoMoves DEF Call, ToolLabels
  <2>2. UseCall'
    BY <1>1, <2>1, CallRecords DEF At, Moved, UseCall, FrameKinds
  <2>3. ReadyFor(chip, "block", l2h.layer)
    BY <1>1 DEF ReadyFor
  <2> QED BY <1>1, <2>2, <2>3, UseStep DEF At, ToolLabels, FrameKinds
<1>2. CASE At({"dump"}, "opened") /\ lib.rc > 0 /\ Call(exchange("block"), "use")
  <2>1. l2h.layer = "V" /\ Settled(chip, "V")
    BY <1>2 DEF At, Inv, Rests, Openers, Records, LibRecord
  <2> QED BY <1>1, <1>2, <2>1 DEF At
<1>3. ASSUME At({"dump"}, "use")
      PROVE  l2h.layer = "V" /\ Settled(chip, "V")
  BY <1>3 DEF At, Inv, Rests
<1>4. CASE At({"dump"}, "use") /\ Call(exchange("block"), "use")
  BY <1>1, <1>3, <1>4 DEF At
<1>5. CASE At({"dump"}, "use") /\ Call(layer2_close, "fini")
  <2>1. Moved("fini") /\ lib' = layer2_close
    BY <1>5, GotoMoves DEF Call, ToolLabels
  <2>2. CloseCall'
    BY <1>5, <2>1, CallRecords DEF At, Moved, CloseCall
  <2>3. ReadyFor(chip, layer2_close.at, l2h.layer)
    BY <1>3, <1>5, CallRecords, SettledIs DEF ReadyFor, LayerNames
  <2> QED BY <1>5, <2>2, <2>3, CallStep, CallRecords DEF At, ToolLabels, Enums
<1>6. CASE /\ At({"dump"}, "fini") /\ Goto("close")
           /\ l2h' = NoHandle
           /\ UNCHANGED <<rh, ph, new, newp, lib, chip, air, tags, field, trouble>>
  <2>1. Moved("close")
    BY <1>6, GotoMoves DEF ToolLabels
  <2>2. Records'
    BY <1>6, <2>1, TypedCalls DEF Inv, Records, Moved
  <2>3. Calls'
    BY <1>6 DEF At, Inv, Calls
  <2>4. Prepares'
    BY <1>6, <2>1 DEF At, Inv, Calls, Prepares, ReadyFor, Moved
  <2>5. Rests'
    BY <1>6, <2>1 DEF Rests, Moved
  <2>6. OnAir'
    BY <1>6 DEF At, Inv, OnAir, FrameKinds
  <2> QED BY <2>2, <2>3, <2>4, <2>5, <2>6 DEF Inv
<1> QED BY <1>2, <1>4, <1>5, <1>6 DEF iso15693_dump

LEMMA main_step ==
    ASSUME Inv, main
    PROVE  Inv'
<1>1. CASE At({"main"}, "opened") /\ lib.rc >= 0 /\ Call(protocol_open, "use")
  <2>1. Moved("use") /\ lib' = protocol_open /\ UNCHANGED handles
    BY <1>1, GotoMoves DEF Call, ToolLabels
  <2>2. HasTag /\ Settled(chip, l2h.layer)
    BY <1>1 DEF At, Inv, Rests, Openers
  <2>3. ProtocolCall'
    BY <1>1, <2>1, <2>2, CallRecords DEF At, Moved, ProtocolCall, HasTag, handles
  <2> QED BY <1>1, <2>2, <2>3, CallStep, CallRecords, ReadyTrivially DEF At, ToolLabels
<1>2. CASE At({"main"}, "use") /\ lib.rc < 0 /\ Jump("close")
  BY <1>2, JumpStep DEF At, Free
<1>3. CASE At({"main"}, "use") /\ Jump("close")
  BY <1>3, JumpStep DEF At, Free
<1>4. ASSUME At({"main"}, "use"), lib.rc >= 0, NEW k \in {"iblock", "ulread", "auth"},
             NEW a \in {"use", "authed"}, Call(exchange(k), a),
             k = "iblock" => tool.proto = "TCL" /\ a = "use",
             k = "ulread" => tool.proto = "UL" /\ a = "use",
             k = "auth" => tool.proto = "CLASSIC" /\ a = "authed"
      PROVE  Inv'
  <2>1. Moved(a) /\ lib' = exchange(k)
    BY <1>4, GotoMoves DEF Call, ToolLabels
  <2>2. UseCall'
    BY <1>4, <2>1, CallRecords DEF At, Moved, UseCall, FrameKinds
  <2>3. /\ l2h.layer = "A"
        /\ k = "iblock" => Left(chip, "A")
        /\ k = "ulread" => Settled(chip, "A")
        /\ k = "auth" => Settled(chip, "A")
    BY <1>4 DEF At, Inv, Rests
  <2>4. ReadyFor(chip, k, l2h.layer)
    BY <1>4, <2>3, SettledIs DEF ReadyFor, LayerNames
  <2> QED BY <1>4, <2>2, <2>4, UseStep DEF At, ToolLabels, FrameKinds
<1>5. ASSUME At({"main"}, "use"), lib.rc >= 0,
             CASE tool.proto = "TCL"     -> Call(exchange("iblock"), "use")
               [] tool.proto = "UL"      -> Call(exchange("ulread"), "use") \/ Jump("close")
               [] tool.proto = "CLASSIC" -> Call(exchange("auth"), "authed") \/ Jump("close")
      PROVE  Inv'
  <2>1. tool.proto \in {"TCL", "UL", "CLASSIC"}
    BY DEF Inv, Records, ToolRecord, Proto
  <2>2. CASE tool.proto = "TCL"
    <3>1. Call(exchange("iblock"), "use")
      BY <1>5, <2>2, Zenon
    <3> QED BY <1>4, <1>5, <2>2, <3>1
  <2>3. CASE tool.proto = "UL"
    <3>1. Call(exchange("ulread"), "use") \/ Jump("close")
      BY <1>5, <2>3
    <3> QED BY <1>3, <1>4, <1>5, <2>3, <3>1
  <2>4. CASE tool.proto = "CLASSIC"
    <3>1. Call(exchange("auth"), "authed") \/ Jump("close")
      BY <1>5, <2>4
    <3> QED BY <1>3, <1>4, <1>5, <2>4, <3>1
  <2> QED BY <2>1, <2>2, <2>3, <2>4
<1>6. CASE At({"main"}, "authed") /\ lib.rc < 0 /\ Jump("exit")
  BY <1>6, JumpStep DEF At, Free
<1>7. ASSUME At({"main"}, tool.at), tool.at \in {"authed", "read"}, Call(exchange("mfread"), "read"),
             l2h.layer = "A", Keyed(chip), tool.proto = "CLASSIC"
      PROVE  Inv'
  <2>1. Moved("read") /\ lib' = exchange("mfread")
    BY <1>7, GotoMoves DEF Call, ToolLabels
  <2>2. UseCall'
    BY <1>7, <2>1, CallRecords DEF At, Moved, UseCall, FrameKinds
  <2>3. ReadyFor(chip, "mfread", l2h.layer)
    BY <1>7 DEF ReadyFor
  <2> QED BY <1>7, <2>2, <2>3, UseStep DEF At, ToolLabels, FrameKinds
<1>8. CASE At({"main"}, "authed") /\ lib.rc >= 0 /\ Call(exchange("mfread"), "read")
  <2>1. l2h.layer = "A" /\ Keyed(chip) /\ tool.proto = "CLASSIC"
    BY <1>8 DEF At, Inv, Rests
  <2> QED BY <1>7, <1>8, <2>1 DEF At
<1>9. ASSUME At({"main"}, "read")
      PROVE  l2h.layer = "A" /\ Keyed(chip) /\ tool.proto = "CLASSIC"
  BY <1>9 DEF At, Inv, Rests
<1>10. CASE At({"main"}, "read") /\ lib.rc >= 0 /\ Call(exchange("mfread"), "read")
  BY <1>7, <1>9, <1>10 DEF At
<1>11. CASE At({"main"}, "read") /\ Call(exchange("auth"), "authed")
  <2>1. Moved("authed") /\ lib' = exchange("auth")
    BY <1>11, GotoMoves DEF Call, ToolLabels
  <2>2. UseCall'
    BY <1>9, <1>11, <2>1, CallRecords DEF At, Moved, UseCall, FrameKinds
  <2>3. ReadyFor(chip, "auth", l2h.layer)
    BY <1>9, <1>11 DEF ReadyFor, Keyed
  <2> QED BY <1>11, <2>2, <2>3, UseStep DEF At, ToolLabels, FrameKinds
<1>12. CASE At({"main"}, "read") /\ Jump("close")
  BY <1>12, JumpStep DEF At, Free
<1> QED BY <1>1, <1>2, <1>5, <1>6, <1>8, <1>10, <1>11, <1>12 DEF main

LEMMA mifare_step ==
    ASSUME Inv, mifare_loop_read
    PROVE  Inv'
<1>1. ASSUME At({"mifare"}, tool.at), tool.at \notin {"start", "exit"}, Call(protocol_open, "l3"),
             HasTag, l2h.layer = "A", Settled(chip, l2h.layer)
      PROVE  Inv'
  <2>1. Moved("l3") /\ lib' = protocol_open /\ UNCHANGED handles
    BY <1>1, GotoMoves DEF Call, ToolLabels
  <2>2. ProtocolCall'
    BY <1>1, <2>1, CallRecords DEF At, Moved, ProtocolCall, HasTag, handles
  <2> QED BY <1>1, <2>2, CallStep, CallRecords, ReadyTrivially DEF At, ToolLabels
<1>2. CASE At({"mifare"}, "opened") /\ lib.rc >= 0 /\ Call(protocol_open, "l3")
  <2>1. HasTag /\ l2h.layer = "A" /\ Settled(chip, l2h.layer)
    BY <1>2 DEF At, Inv, Records, Rests, Openers
  <2> QED BY <1>1, <1>2, <2>1 DEF At
<1>3. ASSUME At({"mifare"}, "l3")
      PROVE  HasTag /\ l2h.layer = "A" /\ Settled(chip, "A")
  BY <1>3 DEF At, Inv, Rests
<1>4. CASE At({"mifare"}, "l3") /\ lib.rc < 0 /\ Call(protocol_open, "l3")
  BY <1>1, <1>3, <1>4 DEF At
<1>5. CASE At({"mifare"}, "l3") /\ lib.rc >= 0 /\ Call(exchange("auth"), "authed")
  <2>1. Moved("authed") /\ lib' = exchange("auth")
    BY <1>5, GotoMoves DEF Call, ToolLabels
  <2>2. UseCall'
    BY <1>5, <2>1, CallRecords DEF At, Moved, UseCall, FrameKinds
  <2>3. ReadyFor(chip, "auth", l2h.layer) /\ "TX_CRC" \in chip.cr
    BY <1>3, <1>5, SettledIs DEF ReadyFor, LayerNames
  <2> QED BY <1>5, <2>2, <2>3, UseStep DEF At, ToolLabels, FrameKinds
<1>6. CASE At({"mifare"}, "authed") /\ lib.rc < 0 /\ Jump("begin")
  BY <1>6, JumpStep DEF At, Free
<1>7. CASE At({"mifare"}, "authed") /\ lib.rc >= 0 /\ Call(exchange("mfread"), "read")
  <2>1. Moved("read") /\ lib' = exchange("mfread")
    BY <1>7, GotoMoves DEF Call, ToolLabels
  <2>2. l2h.layer = "A" /\ Keyed(chip)
    BY <1>7 DEF At, Inv, Rests
  <2>3. UseCall'
    BY <1>7, <2>1, CallRecords DEF At, Moved, UseCall, FrameKinds
  <2>4. ReadyFor(chip, "mfread", l2h.layer)
    BY <2>2 DEF ReadyFor
  <2> QED BY <1>7, <2>3, <2>4, UseStep DEF At, ToolLabels, FrameKinds
<1>8. CASE At({"mifare"}, "read") /\ Jump("begin")
  BY <1>8, JumpStep DEF At, Free
<1> QED BY <1>2, <1>4, <1>5, <1>6, <1>7, <1>8 DEF mifare_loop_read

LEMMA reader_init_step ==
    ASSUME Inv, reader_init
    PROVE  Inv'
<1>1. PICK k \in 0..6 : /\ rfid_reader_open(k)
                        /\ \/ k = 6 /\ Works /\ rh' = Reader /\ Goto("begin")
                           \/ Fails /\ UNCHANGED rh /\ Goto("exit")
  BY DEF reader_init
<1>2. chip' \in ChipRecord /\ (k = 6 => chip'.power)
  BY <1>1, PowerChip DEF rfid_reader_open, Inv, Records
<1>3. lib.at = "none" /\ UNCHANGED <<handles, lib, air>> /\ rh \in {"none", Reader}
  BY DEF reader_init, Inv, Records
<1>4. CASE k = 6 /\ Works /\ rh' = Reader /\ Goto("begin")
  <2>1. Moved("begin")
    BY <1>4, GotoMoves DEF ToolLabels
  <2> QED BY <1>2, <1>3, <1>4, <2>1, StayStep DEF ToolLabels, Free
<1>5. CASE Fails /\ UNCHANGED rh /\ Goto("exit")
  <2>1. Moved("exit")
    BY <1>5, GotoMoves DEF ToolLabels
  <2> QED BY <1>2, <1>3, <1>5, <2>1, StayStep DEF ToolLabels, Free
<1> QED BY <1>1, <1>4, <1>5

LEMMA rfid_reader_close_step ==
    ASSUME Inv, rfid_reader_close
    PROVE  Inv'
<1>1. PICK k \in 0..2 : chip' = rc632_fini(chip, k)
  BY DEF rfid_reader_close
<1>2. chip' \in ChipRecord
  BY <1>1, PowerChip DEF Inv, Records
<1>3. Moved("exit")
  BY GotoMoves DEF rfid_reader_close, ToolLabels
<1> QED BY <1>2, <1>3, StayStep DEF rfid_reader_close, ToolLabels, Free

(* A new process, whether the last one ended or was interrupted. *)
LEMMA NewProcessStep ==
    ASSUME NewProcess, air' = NoFrame, chip' \in ChipRecord
    PROVE  Inv'
<1>1. PICK t \in Tools : tool' = Process(t)
  BY DEF NewProcess
<1>2. t \in [name : ToolNames, layer : LayerNames, proto : Proto]
  BY ToolsAssumption DEF ToolNames, LayerNames
<1>3. tool' \in ToolRecord /\ tool'.at = "start" /\ tool'.name = t.name /\ tool'.layer = t.layer
      /\ tool'.proto = t.proto
  BY <1>1, <1>2 DEF Process, ToolRecord, ToolLabels
<1>4. Records'
  BY <1>3, FixedAssumption, TypedCalls DEF NewProcess, Records
<1>5. lib'.at = "none" /\ lib'.call = "none"
  BY DEF NewProcess, NoCall
<1>6. Calls'
  BY <1>5 DEF NewProcess, Calls
<1>7. Prepares'
  BY <1>3, <1>5 DEF Prepares, ReadyFor
<1>8. Rests'
  BY <1>3 DEF Rests
<1>9. OnAir'
  BY DEF OnAir
<1> QED BY <1>4, <1>6, <1>7, <1>8, <1>9 DEF Inv

LEMMA InitInv == Init => Inv
<1> SUFFICES ASSUME Init PROVE Inv
  OBVIOUS
<1>1. PICK t \in Tools : tool = Process(t)
  BY DEF Init
<1>2. t \in [name : ToolNames, layer : LayerNames, proto : Proto]
  BY ToolsAssumption DEF ToolNames, LayerNames
<1>3. tool \in ToolRecord /\ tool.at = "start" /\ tool.name = t.name /\ tool.layer = t.layer
      /\ tool.proto = t.proto
  BY <1>1, <1>2 DEF Process, ToolRecord, ToolLabels
<1>4. chip \in ChipRecord
  BY DEF Init, ChipRecord, Redundancy, FrameBits, Settings
<1>5. Records
  BY <1>3, <1>4, FixedAssumption, TypedCalls DEF Init, Records
<1>6. lib.at = "none" /\ lib.call = "none"
  BY DEF Init, NoCall
<1>7. Calls
  BY <1>6 DEF Init, Calls
<1>8. Prepares
  BY <1>3, <1>6 DEF Prepares, ReadyFor
<1>9. Rests
  BY <1>3 DEF Rests
<1>10. OnAir
  BY DEF Init, OnAir
<1> QED BY <1>5, <1>7, <1>8, <1>9, <1>10 DEF Inv

---------------------------------------------------------------------------
(* Exchanges.                                                              *)

LEMMA FrameIs ==
    ASSUME Inv, lib.at \in FrameKinds
    PROVE  /\ Frame \in FrameRecord /\ Frame.kind = lib.at /\ Frame.layer = Handle.layer
           /\ ReadyFor(chip, Frame.kind, Frame.layer) /\ chip \in ChipRecord
<1>1. ReadyFor(chip, lib.at, Handle.layer) /\ chip \in ChipRecord /\ lib.tag \in Tag \cup {NoTag}
  BY DEF Inv, Prepares, Records, LibRecord
<1>2. Handle.layer \in LayerNames
  BY <1>1 DEF ReadyFor, FrameKinds, LayerNames
<1> QED BY <1>1, <1>2 DEF Frame, FrameRecord

LEMMA SendStep ==
    ASSUME Inv, Send
    PROVE  Inv'
<1> DEFINE f == Frame
<1>1. lib.at \in FrameKinds /\ air' = f /\ UNCHANGED <<tool, rh, handles, lib>>
  BY DEF Send
<1>w. PICK b \in Framing(f) : chip' = Prepared(chip, f, b, 3)
  BY DEF Send
<1>2. f \in FrameRecord /\ f.kind = lib.at /\ f.layer = Handle.layer /\ ReadyFor(chip, f.kind, f.layer)
      /\ chip \in ChipRecord
  BY <1>1, FrameIs
<1>3. Frame' = f /\ Handle' = Handle
  BY <1>1 DEF Frame, Handle, handles
<1> HIDE DEF f
<1>4. /\ chip' \in ChipRecord /\ chip'.power = chip.power
      /\ FitsFrame(chip', f) /\ ReadyFor(chip', f.kind, f.layer)
      /\ f.kind \in {"hlta", "quiet"} /\ Settled(chip, f.layer) => Settled(chip', f.layer)
      /\ f.kind = "auth" /\ "TX_CRC" \in chip.cr => "TX_CRC" \in chip'.cr
  <2>1. chip' \in ChipRecord /\ chip'.power = chip.power
    <3>1. Written(chip', chip, f, b, 3)
      BY <1>2, <1>w, PreparedChip
    <3> QED BY <3>1 DEF Written
  <2>2. FitsFrame(chip', f)
    BY <1>2, <1>w, PreparedFits
  <2> QED BY <1>2, <1>w, <2>1, <2>2, PreparedReady
<1>5. Records'
  BY <1>1, <1>2, <1>4 DEF Inv, Records, handles
<1>6. Calls'
  <2>1. (ScanCall' <=> ScanCall) /\ (OpenCall' <=> OpenCall) /\ (ProtocolCall' <=> ProtocolCall)
        /\ (CloseCall' <=> CloseCall) /\ (UseCall' <=> UseCall)
    BY <1>1 DEF ScanCall, OpenCall, ProtocolCall, CloseCall, UseCall, HasTag, handles
  <2> QED BY <1>1, <2>1 DEF Inv, Calls, handles
<1>7. Prepares'
  <2>1. lib.call = "close" /\ tool.name \in Enums => lib.at \in {"hlta", "quiet"} /\ Handle = l2h
    BY DEF Inv, Calls, CloseCall, Enums, Handle
  <2> QED BY <1>1, <1>2, <1>3, <1>4, <2>1 DEF Inv, Prepares, handles, FrameKinds
<1>8. Rests'
  BY <1>1 DEF Rests, FrameKinds
<1>9. OnAir'
  BY <1>1, <1>3, <1>4 DEF OnAir
<1> QED BY <1>5, <1>6, <1>7, <1>8, <1>9 DEF Inv

(* An exchange that fails leaves the chip ready for the same frame. *)
LEMMA UnansweredEffect ==
    ASSUME Inv, NEW K \in SUBSET FrameKinds, Unanswered(K)
    PROVE  /\ lib.at \in K /\ air' = NoFrame
           /\ chip' \in ChipRecord /\ chip'.power = chip.power
           /\ ReadyFor(chip', lib.at, Handle.layer)
           /\ lib.at \in {"hlta", "quiet"} /\ Settled(chip, Handle.layer) => Settled(chip', Handle.layer)
<1>1. CASE air.kind \in K /\ air' = NoFrame /\ \E heard \in BOOLEAN : chip' = Exchanged(chip, heard)
  <2>1. air # NoFrame
    BY <1>1 DEF NoFrame, FrameKinds
  <2>2. lib.at \in K /\ ReadyFor(chip, lib.at, Handle.layer) /\ chip \in ChipRecord
    BY <1>1, <2>1 DEF Inv, OnAir, Frame, Prepares, Records
  <2> QED BY <1>1, <2>2, ExchangedChip
<1>2. CASE /\ lib.at \in K /\ air = NoFrame /\ UNCHANGED <<tags, air>>
           /\ \E b \in Framing(Frame), k \in 0..3 : chip' = Prepared(chip, Frame, b, k)
  <2>1. /\ Frame \in FrameRecord /\ Frame.kind = lib.at /\ Frame.layer = Handle.layer
        /\ ReadyFor(chip, Frame.kind, Frame.layer) /\ chip \in ChipRecord
    BY <1>2, FrameIs
  <2>2. PICK b \in Framing(Frame), k \in 0..3 : chip' = Prepared(chip, Frame, b, k)
    BY <1>2
  <2>3. chip' \in ChipRecord /\ chip'.power = chip.power
    <3>1. Written(chip', chip, Frame, b, k)
      BY <2>1, <2>2, PreparedChip
    <3> QED BY <3>1 DEF Written
  <2>4. /\ ReadyFor(chip', lib.at, Handle.layer)
        /\ lib.at \in {"hlta", "quiet"} /\ Settled(chip, Handle.layer) => Settled(chip', Handle.layer)
    BY <2>1, <2>2, PreparedReady
  <2> QED BY <1>2, <2>3, <2>4
<1>3. \/ air.kind \in K /\ air' = NoFrame /\ \E heard \in BOOLEAN : chip' = Exchanged(chip, heard)
      \/ /\ lib.at \in K /\ air = NoFrame /\ UNCHANGED <<tags, air>>
         /\ \E b \in Framing(Frame), k \in 0..3 : chip' = Prepared(chip, Frame, b, k)
  <2>1. \A heard : heard \in {FALSE, Repliers # {}} => heard \in BOOLEAN
    OBVIOUS
  <2> QED BY <2>1, Zenon DEF Unanswered
<1> QED BY <1>1, <1>2, <1>3

(* An answer comes to the frame of the call, from a tag of its layer.      *)
LEMMA AnsweredEffect ==
    ASSUME Inv, NEW K \in SUBSET FrameKinds, NEW t \in Answers(K), TagTypes
    PROVE  /\ lib.at \in K /\ air.kind = lib.at /\ air.layer = Handle.layer /\ t \in Tag
           /\ air \in FrameRecord /\ FitsFrame(chip, air)
           /\ ReadyFor(chip, lib.at, Handle.layer) /\ chip \in ChipRecord
<1>1. air.kind \in K /\ t \in Repliers
  BY DEF Answers
<1>2. air # NoFrame
  BY <1>1 DEF NoFrame, FrameKinds
<1>3. t \in Tag
  BY <1>1 DEF Repliers, Hearers, TagTypes
<1> QED BY <1>1, <1>2, <1>3 DEF Inv, OnAir, Frame, Records, Prepares

(* When the answer has been received the chip is ready for more. *)
LEMMA ReceivedEffect ==
    ASSUME Inv, NEW K \in SUBSET FrameKinds, NEW t \in Answers(K), TagTypes, Received
    PROVE  /\ lib.at \in K /\ t \in Tag /\ air' = NoFrame
           /\ chip' \in ChipRecord /\ chip'.power = chip.power
           /\ ReadyFor(chip', lib.at, Handle.layer)
           /\ lib.at \in {"hlta", "quiet"} /\ Settled(chip, Handle.layer) => Settled(chip', Handle.layer)
           /\ lib.at \in {"select", "inv", "ulread"} => Settled(chip', Handle.layer)
           /\ lib.at = "acf" => Tuned(chip', Handle.layer) /\ ~chip'.crypto /\ chip'.bits = {}
<1>1. /\ lib.at \in K /\ air.kind = lib.at /\ air.layer = Handle.layer /\ t \in Tag
      /\ air \in FrameRecord /\ FitsFrame(chip, air)
      /\ ReadyFor(chip, lib.at, Handle.layer) /\ chip \in ChipRecord
  BY AnsweredEffect
<1>2. chip' = Exchanged(chip, TRUE) /\ air' = NoFrame
  BY DEF Received, Heeded
<1>3. /\ chip' \in ChipRecord /\ chip'.power = chip.power
      /\ ReadyFor(chip', lib.at, Handle.layer)
      /\ Settled(chip, Handle.layer) => Settled(chip', Handle.layer)
  BY <1>1, <1>2, ExchangedChip
<1> QED BY <1>1, <1>2, <1>3, FitsIs

(* Which call is at which label. *)
LEMMA CallOf ==
    ASSUME Inv
    PROVE  /\ lib.at = "init" => lib.call \in {"scan", "init"}
           /\ lib.at \in OpenLabels => lib.call \in {"scan", "open"}
           /\ lib.at = "pinit" \/ lib.at \in ConnectLabels => lib.call \in {"scan", "l3"}
           /\ lib.at \in {"hlta", "quiet", "deselect"} => lib.call = "close"
           /\ lib.at \in {"iblock", "block", "ulread", "mfread", "auth"} => lib.call = "use"
<1>1. lib.call \in CallNames
  BY DEF Inv, Records, LibRecord
<1> QED
  BY <1>1 DEF Inv, Calls, CallNames, ScanCall, OpenCall, ProtocolCall, CloseCall, UseCall,
              OpenLabels, ConnectLabels

---------------------------------------------------------------------------
(* Steps of the library.                                                   *)

(* A call returns. *)
LEMMA ReturnStep ==
    ASSUME Inv, NEW r \in -1..3, Returns(r), UNCHANGED <<tool, rh>>,
           l2h' \in Handles, ph' \in ProtoHandles, new' = NoHandle, newp' = NoProto,
           chip' \in ChipRecord, chip'.power = chip.power, air' = NoFrame,
           Rests'
    PROVE  Inv'
<1>1. lib' \in LibRecord /\ lib'.at = "none" /\ lib'.call = "none"
  <2>1. NoCall.at = "none" /\ NoCall.call = "none"
    BY DEF NoCall
  <2> QED BY <2>1, TypedCalls DEF Returns, LibRecord
<1>2. Records'
  BY <1>1, TypedCalls DEF Inv, Records
<1>3. Calls'
  BY <1>1 DEF Calls
<1>4. Prepares'
  BY <1>1 DEF Inv, Prepares, ReadyFor
<1>5. OnAir'
  BY DEF OnAir
<1> QED BY <1>2, <1>3, <1>4, <1>5 DEF Inv

LEMMA ReturnsRc ==
    ASSUME NEW r \in -1..3, Returns(r)
    PROVE  lib'.rc = r /\ lib'.at = "none"
BY DEF Returns, NoCall

(* rfid_layer2_scan goes on to the next layer, or ends. *)
LEMMA ScanNextStep ==
    ASSUME Inv, lib.call = "scan", ScanNext, UNCHANGED <<tool, rh, ph>>,
           new' = NoHandle, newp' = NoProto,
           chip' \in ChipRecord, chip'.power = chip.power, air' = NoFrame
    PROVE  Inv'
<1>1. Len(Layers) = 3
  BY DEF Layers
<1>2. tool.name \in {"scan", "endless"} /\ tool.at = "scanned"
  BY DEF Inv, Calls, ScanCall
<1>3. CASE lib.i < Len(Layers)
  <2>1. lib' = [lib EXCEPT !.at = "init", !.i = lib.i + 1] /\ UNCHANGED l2h
    BY <1>3 DEF ScanNext
  <2>2. lib' \in LibRecord /\ lib'.at = "init" /\ lib'.call = "scan"
    <3>1. lib \in LibRecord /\ lib.i + 1 \in 1..3 /\ "init" \in LibLabels
      BY <1>1, <1>3 DEF Inv, Records, LibRecord, LibLabels
    <3>2. PICK j \in 1..3 : j = lib.i + 1
      BY <3>1
    <3>3. lib' = [lib EXCEPT !.at = "init", !.i = j]
      BY <2>1, <3>2
    <3> QED BY <3>1, <3>3 DEF LibRecord
  <2>3. Records'
    BY <2>1, <2>2, TypedCalls DEF Inv, Records
  <2>4. Calls'
    BY <1>2, <2>2 DEF Calls, ScanCall, OpenLabels, ConnectLabels
  <2>5. Prepares'
    BY <2>2 DEF Inv, Prepares, ReadyFor
  <2>6. Rests' /\ OnAir'
    BY <2>2 DEF Rests, OnAir
  <2> QED BY <2>3, <2>4, <2>5, <2>6 DEF Inv
<1>4. CASE ~(lib.i < Len(Layers))
  <2>1. l2h' = NoHandle /\ Returns(0)
    BY <1>4 DEF ScanNext
  <2>2. lib'.rc = 0
    BY <2>1, ReturnsRc
  <2>3. Rests'
    BY <1>2, <2>1, <2>2 DEF Rests, Openers, Enums
  <2> QED BY <2>1, <2>3, ReturnStep, TypedCalls DEF Inv, Records
<1> QED BY <1>3, <1>4

(* A layer's open fails. *)
LEMMA OpenFailsStep ==
    ASSUME Inv, lib.at \in OpenLabels, OpenFails, UNCHANGED <<tool, rh, ph, newp>>,
           chip' \in ChipRecord, chip'.power = chip.power, air' = NoFrame
    PROVE  Inv'
<1>1. CASE lib.call = "scan"
  <2>1. newp = NoProto
    BY <1>1 DEF Inv, Calls, ScanCall, OpenLabels, ConnectLabels
  <2> QED BY <1>1, <2>1, ScanNextStep DEF OpenFails
<1>2. CASE lib.call # "scan"
  <2>1. /\ tool.name \in Openers /\ tool.at = "opened" /\ new = NoHandle /\ newp = NoProto
        /\ UNCHANGED <<l2h, new>> /\ Returns(-1)
    BY <1>2, CallOf DEF OpenFails, Inv, Calls, OpenCall, OpenLabels
  <2>2. lib'.rc = -1
    BY <2>1, ReturnsRc
  <2>3. Rests'
    BY <2>1, <2>2 DEF Rests, Openers, Enums
  <2> QED BY <2>1, <2>3, ReturnStep DEF Inv, Records
<1> QED BY <1>1, <1>2

LEMMA rfid_layer2_init_step ==
    ASSUME Inv, rfid_layer2_init
    PROVE  Inv'
<1> DEFINE l == Layers[lib.i]
           all == Len(Script(l))
<1>1. lib.at = "init" /\ UNCHANGED <<tool, rh, ph, newp, air>>
  BY DEF rfid_layer2_init
<1>2. l \in LayerNames /\ lib.i \in 1..3
  <2>1. Layers[1] = "A" /\ Layers[2] = "B" /\ Layers[3] = "V" /\ lib.i \in 1..3
    BY DEF Layers, Inv, Records, LibRecord
  <2> QED BY <2>1 DEF LayerNames
<1>3. air = NoFrame /\ new = NoHandle /\ newp = NoProto /\ lib.call \in {"scan", "init"} /\ chip.power
      /\ chip \in ChipRecord
  BY <1>1, CallOf DEF Inv, OnAir, FrameKinds, Calls, ScanCall, OpenCall, OpenLabels, ConnectLabels, Prepares, Records
<1>4. ASSUME NotInited, chip' \in ChipRecord, chip'.power = chip.power
      PROVE  Inv'
  <2>1. CASE lib.call = "scan"
    BY <1>1, <1>3, <1>4, <2>1, ScanNextStep DEF NotInited
  <2>2. CASE lib.call # "scan"
    <3>1. l2h' = NoHandle /\ Returns(-1) /\ new' = NoHandle
      BY <1>3, <1>4, <2>2 DEF NotInited
    <3>2. tool.name \in Openers /\ tool.at = "inited"
      BY <1>3, <2>2 DEF Inv, Calls, OpenCall
    <3>3. lib'.rc = -1
      BY <3>1, ReturnsRc
    <3>4. Rests'
      BY <1>1, <3>2, <3>3 DEF Rests, Openers, Enums
    <3> QED BY <1>1, <1>3, <1>4, <3>1, <3>4, ReturnStep, TypedCalls DEF Inv, Records
  <2> QED BY <2>1, <2>2
<1>5. ASSUME Inited(l), chip' \in ChipRecord, chip'.power = chip.power, Fresh(chip', l)
      PROVE  Inv'
  <2>1. PICK h \in FreshHandle(l) :
           IF lib.call = "scan"
           THEN new' = h /\ lib' = [lib EXCEPT !.at = OpenFrame(l), !.n = 0, !.stale = FALSE]
                         /\ UNCHANGED l2h
           ELSE l2h' = h /\ Returns(0) /\ UNCHANGED new
    BY <1>5 DEF Inited
  <2>2. h \in Handles /\ h.layer = l /\ h # NoHandle
    <3>1. h \in Handles /\ h.layer = l
      BY <1>2, GarbageAssumption DEF FreshHandle, Handles, LayerNames
    <3> QED BY <1>2, <3>1, TypedCalls DEF LayerNames
  <2>3. CASE lib.call = "scan"
    <3>1. new' = h /\ lib' = [lib EXCEPT !.at = OpenFrame(l), !.n = 0, !.stale = FALSE] /\ UNCHANGED l2h
      BY <2>1, <2>3
    <3>2. OpenFrame(l) \in {"sf", "reqb", "inv"}
      BY <1>2 DEF OpenFrame, LayerNames
    <3>3. lib' \in LibRecord /\ lib'.at = OpenFrame(l) /\ lib'.call = "scan"
      <4>1. lib \in LibRecord /\ OpenFrame(l) \in LibLabels /\ FALSE \in BOOLEAN /\ 0 \in 0..4
        BY <3>2 DEF Inv, Records, LibLabels, FrameKinds
      <4>2. PICK f \in BOOLEAN : lib' = [lib EXCEPT !.at = OpenFrame(l), !.n = 0, !.stale = f]
        BY <3>1
      <4>3. PICK k \in LibLabels : k = OpenFrame(l)
        BY <4>1
      <4> QED BY <2>3, <4>1, <4>2, <4>3 DEF LibRecord
    <3>4. Records'
      BY <1>1, <1>3, <1>5, <2>2, <3>1, <3>3 DEF Inv, Records
    <3>5. Calls'
      BY <1>1, <1>2, <1>3, <2>2, <2>3, <3>1, <3>2, <3>3 DEF Inv, Calls, ScanCall, OpenLabels, ConnectLabels
    <3>6. Prepares'
      <4>1. Handle'.layer = l
        BY <2>2, <3>1 DEF Handle
      <4>2. ReadyFor(chip', lib'.at, l)
        BY <1>2, <1>5, <3>3 DEF ReadyFor, OpenFrame, LayerNames
      <4> QED BY <1>1, <1>3, <1>5, <3>2, <3>3, <4>1, <4>2 DEF Prepares
    <3>7. Rests' /\ OnAir'
      BY <1>1, <1>3, <3>2, <3>3 DEF Rests, OnAir
    <3> QED BY <3>4, <3>5, <3>6, <3>7 DEF Inv
  <2>4. CASE lib.call # "scan"
    <3>1. l2h' = h /\ Returns(0) /\ UNCHANGED new
      BY <2>1, <2>4
    <3>2. tool.name \in Openers /\ tool.at = "inited" /\ l = tool.layer
      BY <1>3, <2>4 DEF Inv, Calls, OpenCall
    <3>3. Rests'
      BY <1>1, <1>5, <2>2, <3>1, <3>2 DEF Rests, Openers, Enums
    <3> QED BY <1>1, <1>3, <1>5, <2>2, <3>1, <3>3, ReturnStep DEF Inv, Records
  <2> QED BY <2>3, <2>4
<1> HIDE DEF l
<1>6. CASE chip' = Executed(Flushed(chip), l, all) /\ Inited(l)
  BY <1>2, <1>3, <1>5, <1>6, InitFresh, ExecutedChip, FlushedChip
<1>7. CASE l = "A" /\ chip' = Executed(chip, l, all) /\ Inited(l)
  BY <1>2, <1>3, <1>5, <1>7, InitFresh, ExecutedChip
<1>8. CASE chip' = chip /\ NotInited
  BY <1>3, <1>4, <1>8
<1>9. CASE NotInited /\ \E k \in Cuts \cap (0..all) : chip' = Executed(Flushed(chip), l, k)
  <2>1. PICK k : chip' = Executed(Flushed(chip), l, k)
    BY <1>9
  <2>2. Flushed(chip) \in ChipRecord /\ Flushed(chip).power = chip.power
    BY <1>3, FlushedChip
  <2>3. chip' \in ChipRecord /\ chip'.power = chip.power
    BY <1>2, <2>1, <2>2, ExecutedChip
  <2> QED BY <1>4, <1>9, <2>3
<1> QED BY <1>6, <1>7, <1>8, <1>9 DEF rfid_layer2_init, l

(* A layer's open sends another frame. *)
LEMMA OpenOnStep ==
    ASSUME Inv, lib.at \in OpenLabels, lib' \in LibRecord, lib'.call = lib.call,
           lib'.at \in OpenLabels, lib'.at \in {"acf", "select"} => lib'.n \in 1..2,
           UNCHANGED <<tool, rh, handles>>, chip' \in ChipRecord, chip'.power = chip.power,
           air' = NoFrame, ReadyFor(chip', lib'.at, Handle.layer)
    PROVE  Inv'
<1>1. Handle' = Handle /\ lib.call \in {"scan", "open"}
  BY CallOf DEF Handle, handles
<1>2. Records'
  BY DEF Inv, Records, handles
<1>3. Calls'
  <2>1. lib.call = "scan" => ScanCall'
    BY DEF Inv, Calls, ScanCall, handles, OpenLabels, ConnectLabels
  <2>2. lib.call = "open" => OpenCall'
    BY DEF Inv, Calls, OpenCall, handles
  <2> QED BY <1>1, <2>1, <2>2 DEF Inv, Calls, handles, OpenLabels
<1>4. Prepares'
  BY <1>1 DEF Inv, Prepares, OpenLabels
<1>5. Rests' /\ OnAir'
  BY DEF Rests, OnAir, OpenLabels
<1> QED BY <1>2, <1>3, <1>4, <1>5 DEF Inv

(* A layer's open succeeds. *)
LEMMA OpenSucceedsStep ==
    ASSUME Inv, lib.at \in OpenLabels, NEW t \in Tag, NEW r \in {0, 1}, OpenSucceeds(t, r),
           Handle.layer \in {"A", "V"}, r = 1 => Handle.layer = "V", Settled(chip', Handle.layer),
           UNCHANGED <<tool, rh, ph, newp>>, chip' \in ChipRecord, chip'.power = chip.power,
           air' = NoFrame
    PROVE  Inv'
<1> DEFINE l == Handle.layer
<1>1. /\ l2h' = [Handle EXCEPT !.tag = t,
                               !.protos = IF l = "A" THEN proto_supported(t) ELSE Handle.protos]
      /\ new' = NoHandle
  BY DEF OpenSucceeds
<1>2. Handle \in Handles /\ newp = NoProto /\ ph \in ProtoHandles
  BY CallOf DEF Inv, Records, Handle, Calls, ScanCall, OpenLabels, ConnectLabels
<1>3. l2h' \in Handles /\ l2h'.layer = l /\ l2h'.tag = t
  <2>1. PICK ps : ps = IF l = "A" THEN proto_supported(t) ELSE Handle.protos
    OBVIOUS
  <2>2. ps \in SUBSET Proto
    BY <1>2, <2>1 DEF proto_supported, Proto, Handles
  <2>3. l2h' = [Handle EXCEPT !.tag = t, !.protos = ps]
    BY <1>1, <2>1
  <2> QED BY <1>2, <2>2, <2>3 DEF Handles
<1>4. HasTag'
  BY <1>3 DEF HasTag
<1> HIDE DEF l
<1>5. CASE lib.call = "scan"
  <2>1. lib' = [lib EXCEPT !.at = "pinit", !.n = 1, !.tag = t]
    BY <1>5 DEF OpenSucceeds
  <2>2. lib' \in LibRecord /\ lib'.at = "pinit" /\ lib'.call = "scan" /\ lib'.n = 1
    <3>1. lib \in LibRecord /\ "pinit" \in LibLabels /\ 1 \in 0..4
      BY DEF Inv, Records, LibLabels
    <3> QED BY <1>5, <2>1, <3>1 DEF LibRecord
  <2>3. Records'
    BY <1>1, <1>2, <1>3, <2>2, TypedCalls DEF Inv, Records
  <2>4. Calls'
    BY <1>1, <1>2, <1>4, <1>5, <2>2 DEF Inv, Calls, ScanCall, OpenLabels, ConnectLabels
  <2>5. Left(chip', l) /\ Tuned(chip', l)
    BY SettledIs DEF l, LayerNames
  <2>6. Prepares'
    BY <1>3, <2>2, <2>5, ReadyTrivially DEF Inv, Prepares
  <2>7. Rests' /\ OnAir'
    BY <2>2 DEF Rests, OnAir
  <2> QED BY <2>3, <2>4, <2>6, <2>7 DEF Inv
<1>6. CASE lib.call # "scan"
  <2>1. Returns(r) /\ r \in -1..3
    BY <1>6 DEF OpenSucceeds
  <2>2. tool.name \in Openers /\ tool.at = "opened" /\ l = tool.layer
    BY <1>6, CallOf DEF Inv, Calls, OpenCall, Handle, OpenLabels, l
  <2>3. lib'.rc = r
    BY <2>1, ReturnsRc
  <2>4. Rests'
    BY <1>3, <1>4, <2>2, <2>3 DEF Rests, Openers, Enums, l
  <2> QED BY <1>1, <1>2, <1>3, <2>1, <2>4, ReturnStep
<1> QED BY <1>5, <1>6

LEMMA ReqaStep ==
    ASSUME Inv, TagTypes, ReqaAnswered \/ AcfAnswered
    PROVE  Inv'
<1>0. lib \in LibRecord
  BY DEF Inv, Records
<1>1. CASE ReqaAnswered
  <2>1. PICK t : t \in Answers({"sf"})
    BY <1>1 DEF ReqaAnswered
  <2>2. lib.at = "sf" /\ ReadyFor(chip, "sf", Handle.layer) /\ chip \in ChipRecord
    BY <2>1, AnsweredEffect DEF FrameKinds
  <2>3. lib' \in LibRecord /\ lib'.at = "acf" /\ lib'.call = lib.call /\ lib'.n = 1
    <3>1. lib' = [lib EXCEPT !.at = "acf", !.n = 1] /\ "acf" \in LibLabels /\ 1 \in 0..4
      BY <1>1 DEF ReqaAnswered, LibLabels, FrameKinds
    <3> QED BY <1>0, <3>1 DEF LibRecord
  <2>4. chip' = [chip EXCEPT !.bits = {}]
    BY <1>1 DEF ReqaAnswered
  <2>5. /\ chip' \in ChipRecord /\ chip'.power = chip.power /\ chip'.rf = chip.rf
        /\ chip'.cfg = chip.cfg /\ chip'.cr = chip.cr
    BY <2>2, <2>4 DEF ChipRecord
  <2>6. ReadyFor(chip', "acf", Handle.layer)
    BY <2>2, <2>5 DEF ReadyFor, Fresh, Tuned, On
  <2> QED BY <1>1, <2>2, <2>3, <2>5, <2>6, OpenOnStep DEF ReqaAnswered, Heeded, OpenLabels
<1>2. CASE AcfAnswered
  <2>1. PICK t : t \in Answers({"acf"}) /\ Received /\ lib' = [lib EXCEPT !.at = "select", !.tag = t]
    BY <1>2 DEF AcfAnswered
  <2>2. /\ lib.at = "acf" /\ t \in Tag /\ air' = NoFrame /\ ReadyFor(chip', "acf", Handle.layer)
        /\ chip' \in ChipRecord /\ chip'.power = chip.power
        /\ Tuned(chip', Handle.layer) /\ ~chip'.crypto /\ chip'.bits = {}
    BY <2>1, ReceivedEffect DEF FrameKinds
  <2>3. lib' \in LibRecord /\ lib'.at = "select" /\ lib'.call = lib.call /\ lib'.n = lib.n
    BY <1>0, <2>1, <2>2 DEF LibRecord, LibLabels, FrameKinds
  <2>4. ReadyFor(chip', "select", Handle.layer)
    BY <2>2 DEF ReadyFor
  <2>5. lib.n \in 1..2
    BY <2>2 DEF Inv, Calls
  <2> QED BY <1>2, <2>2, <2>3, <2>4, <2>5, OpenOnStep DEF AcfAnswered, OpenLabels
<1> QED BY <1>1, <1>2

LEMMA SelectStep ==
    ASSUME Inv, TagTypes, SelectAnswered
    PROVE  Inv'
<1>1. PICK t : /\ t \in Answers({"select"}) /\ Received
               /\ IF lib.n < Levels(t)
                  THEN lib' = [lib EXCEPT !.at = "acf", !.n = lib.n + 1] /\ UNCHANGED handles
                  ELSE OpenSucceeds(t, 0) /\ UNCHANGED <<ph, newp>>
  BY DEF SelectAnswered
<1>2. /\ lib.at = "select" /\ t \in Tag /\ air' = NoFrame /\ ReadyFor(chip', "select", Handle.layer)
      /\ chip' \in ChipRecord /\ chip'.power = chip.power /\ Settled(chip', Handle.layer)
  BY <1>1, ReceivedEffect DEF FrameKinds
<1>3. Handle.layer = "A"
  BY <1>2 DEF ReadyFor
<1>4. lib.n \in 1..2 /\ Levels(t) \in 1..2 /\ lib \in LibRecord
  BY <1>2 DEF Inv, Records, Calls, Levels
<1>5. CASE lib.n < Levels(t)
  <2>1. lib' = [lib EXCEPT !.at = "acf", !.n = 2]
    <3>1. lib.n + 1 = 2
      BY <1>4, <1>5
    <3> QED BY <1>1, <1>5, <3>1
  <2>2. lib' \in LibRecord /\ lib'.at = "acf" /\ lib'.call = lib.call /\ lib'.n = 2
    <3>1. "acf" \in LibLabels /\ 2 \in 0..4
      BY DEF LibLabels, FrameKinds
    <3> QED BY <1>4, <2>1, <3>1 DEF LibRecord
  <2>3. ReadyFor(chip', "acf", Handle.layer)
    BY <1>2, <1>3, SettledIs DEF ReadyFor, LayerNames
  <2> QED BY <1>1, <1>2, <1>5, <2>2, <2>3, OpenOnStep DEF SelectAnswered, OpenLabels
<1>6. CASE ~(lib.n < Levels(t))
  BY <1>1, <1>2, <1>3, <1>6, OpenSucceedsStep DEF SelectAnswered, OpenLabels
<1> QED BY <1>5, <1>6

LEMMA InventoryStep ==
    ASSUME Inv, TagTypes, InventoryAnswered
    PROVE  Inv'
<1>1. PICK t : t \in Answers({"inv"}) /\ Received /\ OpenSucceeds(t, 1)
  BY DEF InventoryAnswered
<1>2. /\ lib.at = "inv" /\ t \in Tag /\ air' = NoFrame /\ ReadyFor(chip', "inv", Handle.layer)
      /\ chip' \in ChipRecord /\ chip'.power = chip.power /\ Settled(chip', Handle.layer)
  BY <1>1, ReceivedEffect DEF FrameKinds
<1>3. Handle.layer = "V"
  BY <1>2 DEF ReadyFor
<1> QED BY <1>1, <1>2, <1>3, OpenSucceedsStep DEF InventoryAnswered, OpenLabels

LEMMA OpenUnansweredStep ==
    ASSUME Inv, OpenUnanswered
    PROVE  Inv'
<1>1. lib.at \in OpenLabels /\ air' = NoFrame /\ chip' \in ChipRecord /\ chip'.power = chip.power
  BY UnansweredEffect DEF OpenUnanswered, OpenLabels, FrameKinds
<1> QED BY <1>1, OpenFailsStep DEF OpenUnanswered

(* The next number of slots. *)
LEMMA NextSlotStep ==
    ASSUME Inv, lib.at = "reqb", NEW stale \in BOOLEAN, NextSlot(stale), UNCHANGED <<tool, rh, ph, newp>>,
           chip' \in ChipRecord, chip'.power = chip.power, air' = NoFrame,
           ReadyFor(chip', "reqb", Handle.layer)
    PROVE  Inv'
<1>1. CASE lib.n < 4
  <2>1. PICK n \in 0..4 : lib' = [lib EXCEPT !.n = n, !.stale = stale]
    <3>1. lib.n \in 0..4
      BY DEF Inv, Records, LibRecord
    <3>2. lib.n + 1 \in 0..4 /\ lib' = [lib EXCEPT !.n = lib.n + 1, !.stale = stale]
      BY <1>1, <3>1 DEF NextSlot
    <3> QED BY <3>2
  <2>2. lib' \in LibRecord /\ lib'.at = "reqb" /\ lib'.call = lib.call
    BY <2>1 DEF Inv, Records, LibRecord
  <2>3. UNCHANGED handles
    BY <1>1 DEF NextSlot, handles
  <2> QED BY <2>2, <2>3, OpenOnStep DEF OpenLabels
<1>2. CASE ~(lib.n < 4)
  BY <1>2, OpenFailsStep DEF NextSlot, OpenLabels
<1> QED BY <1>1, <1>2

LEMMA ReqbStep ==
    ASSUME Inv, TagTypes, ReqbAnswered \/ ReqbUnanswered
    PROVE  Inv'
<1>1. CASE ReqbAnswered
  <2>1. PICK t : t \in Answers({"reqb"})
    BY <1>1 DEF ReqbAnswered
  <2>2. /\ lib.at = "reqb" /\ ReadyFor(chip', "reqb", Handle.layer)
        /\ chip' \in ChipRecord /\ chip'.power = chip.power
    BY <1>1, <2>1, ReceivedEffect DEF ReqbAnswered, FrameKinds
  <2>3. NextSlot(TRUE) \/ NextSlot(FALSE) \/ OpenFails
    BY <1>1 DEF ReqbAnswered
  <2>4. air' = NoFrame /\ UNCHANGED <<tool, rh, ph, newp>>
    BY <1>1 DEF ReqbAnswered, Received, Heeded
  <2>5. CASE OpenFails
    BY <2>2, <2>4, <2>5, OpenFailsStep DEF OpenLabels
  <2>6. CASE NextSlot(TRUE)
    BY <2>2, <2>4, <2>6, NextSlotStep
  <2>7. CASE NextSlot(FALSE)
    BY <2>2, <2>4, <2>7, NextSlotStep
  <2> QED BY <2>3, <2>5, <2>6, <2>7
<1>2. CASE ReqbUnanswered
  <2>1. /\ lib.at = "reqb" /\ air' = NoFrame /\ chip' \in ChipRecord /\ chip'.power = chip.power
        /\ ReadyFor(chip', "reqb", Handle.layer)
    BY <1>2, UnansweredEffect DEF ReqbUnanswered, FrameKinds
  <2>2. lib.stale \in BOOLEAN
    BY DEF Inv, Records, LibRecord
  <2> QED BY <1>2, <2>1, <2>2, NextSlotStep DEF ReqbUnanswered
<1> QED BY <1>1, <1>2

(* At the labels of tcl_connect. *)
LEMMA ConnectIs ==
    ASSUME Inv, lib.at \in ConnectLabels
    PROVE  /\ lib.call \in {"scan", "l3"} /\ Handle = l2h /\ l2h.layer = "A" /\ HasTag
           /\ new = NoHandle /\ lib \in LibRecord
           /\ lib.call = "scan" =>
                 /\ tool.name \in {"scan", "endless"} /\ tool.at = "scanned" /\ lib.n = 1
                 /\ newp = [proto |-> "TCL", tag |-> l2h.tag]
           /\ lib.call = "l3" =>
                 tool.name = "main" /\ tool.at = "use" /\ tool.proto = "TCL" /\ newp = NoProto
<1>1. lib.call \in {"scan", "l3"} /\ lib \in LibRecord
  BY CallOf DEF Inv, Records
<1>2. lib.call = "scan" => ScanCall
  BY DEF Inv, Calls
<1>3. lib.call = "l3" => ProtocolCall /\ new = NoHandle /\ newp = NoProto
  BY DEF Inv, Calls
<1>4. new = NoHandle /\ HasTag
  BY <1>1, <1>2, <1>3 DEF ScanCall, ProtocolCall, OpenLabels, ConnectLabels
<1>5. l2h.layer = "A"
  BY <1>4 DEF Inv, Prepares, ReadyFor, Handle, ConnectLabels
<1>6. lib.call = "l3" => tool.name = "main" /\ tool.at = "use" /\ tool.proto = "TCL"
  BY <1>3 DEF ProtocolCall, Inv, Records, ConnectLabels
<1> QED BY <1>1, <1>2, <1>3, <1>4, <1>5, <1>6 DEF ScanCall, Handle

(* rfid_protocol_scan1 goes on to the next protocol. *)
LEMMA PinitStep ==
    ASSUME Inv, lib.call = "scan", lib.at \in {"pinit"} \cup ConnectLabels, lib.n <= 3,
           \/ lib' = [lib EXCEPT !.at = "pinit", !.n = lib.n + 1]
           \/ lib.at = "pinit" /\ lib' = [lib EXCEPT !.n = lib.n + 1],
           newp' = NoProto,
           UNCHANGED <<tool, rh, l2h, new, ph>>, chip' \in ChipRecord, chip'.power = chip.power,
           air' = NoFrame, Left(chip', l2h.layer)
    PROVE  Inv'
<1>1. ScanCall /\ lib \in LibRecord /\ lib.n >= 1
  BY DEF Inv, Calls, Records, ScanCall
<1>2. PICK n \in 2..4 : n = lib.n + 1
  <2>1. lib.n \in 0..4
    BY <1>1 DEF LibRecord
  <2> QED BY <1>1, <2>1
<1>3. lib' \in LibRecord /\ lib'.at = "pinit" /\ lib'.call = "scan" /\ lib'.n = n
  <2>1. n \in 0..4 /\ "pinit" \in LibLabels
    BY <1>2 DEF LibLabels
  <2>2. CASE lib' = [lib EXCEPT !.at = "pinit", !.n = n]
    BY <1>1, <2>1, <2>2 DEF LibRecord
  <2>3. CASE lib.at = "pinit" /\ lib' = [lib EXCEPT !.n = n]
    BY <1>1, <2>1, <2>3 DEF LibRecord
  <2> QED BY <1>2, <2>2, <2>3
<1>4. Records'
  BY <1>3, TypedCalls DEF Inv, Records
<1>5. Calls'
  <2>1. new = NoHandle /\ HasTag
    BY <1>1 DEF ScanCall, OpenLabels, ConnectLabels
  <2>2. HasTag'
    BY <2>1 DEF HasTag
  <2>3. ScanCall'
    BY <1>1, <1>3, <2>1, <2>2 DEF ScanCall, OpenLabels, ConnectLabels
  <2> QED BY <1>3, <2>3 DEF Calls
<1>6. Prepares'
  BY <1>3, ReadyTrivially DEF Inv, Prepares
<1>7. Rests' /\ OnAir'
  BY <1>3 DEF Rests, OnAir
<1> QED BY <1>4, <1>5, <1>6, <1>7 DEF Inv

(* tcl_connect fails. *)
LEMMA ConnectFailsStep ==
    ASSUME Inv, lib.at \in ConnectLabels, ConnectFails, UNCHANGED <<tool, rh, l2h, new>>,
           chip' \in ChipRecord, chip'.power = chip.power, air' = NoFrame, Left(chip', "A")
    PROVE  Inv'
<1>1. CASE lib.call = "scan"
  BY <1>1, ConnectIs, PinitStep DEF ConnectFails
<1>2. CASE lib.call = "l3"
  <2>1. /\ Returns(-1) /\ UNCHANGED <<ph, newp>>
        /\ tool.name = "main" /\ tool.at = "use" /\ newp = NoProto /\ new = NoHandle
    BY <1>2, ConnectIs DEF ConnectFails
  <2>2. lib'.rc = -1
    BY <2>1, ReturnsRc
  <2>3. Rests'
    BY <2>1, <2>2 DEF Rests, Openers, Enums
  <2> QED BY <2>1, <2>3, ReturnStep DEF Inv, Records
<1> QED BY <1>1, <1>2, ConnectIs

(* It succeeds. *)
LEMMA ConnectSucceedsStep ==
    ASSUME Inv, lib.at \in ConnectLabels, ConnectSucceeds, UNCHANGED <<tool, rh, l2h, new>>,
           chip' \in ChipRecord, chip'.power = chip.power, air' = NoFrame, Left(chip', "A")
    PROVE  Inv'
<1>0. HasTag' /\ l2h' \in Handles /\ l2h'.layer = "A" /\ l2h.tag \in Tag /\ ph \in ProtoHandles
  BY ConnectIs DEF HasTag, Inv, Records
<1>1. CASE lib.call = "scan"
  <2>1. ph' = newp /\ newp' = NoProto /\ Returns(3)
    BY <1>1 DEF ConnectSucceeds
  <2>2. ph' = [proto |-> "TCL", tag |-> l2h.tag] /\ tool.name \in {"scan", "endless"} /\ tool.at = "scanned"
        /\ new = NoHandle
    BY <1>1, <2>1, ConnectIs
  <2>3. lib'.rc = 3 /\ lib'.at = "none"
    BY <2>1, ReturnsRc
  <2>4. ph' \in ProtoHandles /\ ph'.tag = l2h'.tag
    BY <1>0, <2>2 DEF ProtoHandles, Proto
  <2>5. Rests'
    BY <1>0, <2>2, <2>3, <2>4 DEF Rests, Openers, Enums
  <2> QED BY <1>0, <2>1, <2>2, <2>4, <2>5, ReturnStep
<1>2. CASE lib.call = "l3"
  <2>1. /\ Returns(0) /\ UNCHANGED <<ph, newp>>
        /\ tool.name = "main" /\ tool.at = "use" /\ tool.proto = "TCL" /\ newp = NoProto /\ new = NoHandle
    BY <1>2, ConnectIs DEF ConnectSucceeds
  <2>2. lib'.rc = 0
    BY <2>1, ReturnsRc
  <2>3. Rests'
    BY <1>0, <2>1, <2>2 DEF Rests, Openers, Enums
  <2> QED BY <1>0, <2>1, <2>3, ReturnStep
<1> QED BY <1>1, <1>2, ConnectIs

(* tcl_connect goes on. *)
LEMMA ConnectOnStep ==
    ASSUME Inv, lib.at \in ConnectLabels, NEW a \in ConnectLabels, lib' = [lib EXCEPT !.at = a],
           UNCHANGED <<tool, rh, handles>>, chip' \in ChipRecord, chip'.power = chip.power,
           air' = NoFrame, ReadyFor(chip', a, l2h.layer)
    PROVE  Inv'
<1>1. lib' \in LibRecord /\ lib'.at = a /\ lib'.call = lib.call /\ lib'.n = lib.n
  <2>1. a \in LibLabels /\ lib \in LibRecord
    BY ConnectIs DEF ConnectLabels, LibLabels, FrameKinds
  <2> QED BY <2>1 DEF LibRecord
<1>2. Records'
  BY <1>1 DEF Inv, Records, handles
<1>3. Calls'
  <2>1. HasTag'
    BY ConnectIs DEF HasTag, handles
  <2>2. lib.call = "scan" => ScanCall'
    BY <1>1, <2>1, ConnectIs DEF ScanCall, handles, OpenLabels, ConnectLabels
  <2>3. lib.call = "l3" => ProtocolCall' /\ newp' = NoProto
    BY <1>1, <2>1, ConnectIs DEF ProtocolCall, handles
  <2> QED BY <1>1, <2>2, <2>3, ConnectIs DEF Calls, ConnectLabels, handles
<1>4. Prepares'
  <2>1. Handle' = l2h
    BY ConnectIs DEF Handle, handles
  <2> QED BY <1>1, <2>1, ConnectIs DEF Inv, Prepares, ConnectLabels
<1>5. Rests' /\ OnAir'
  BY <1>1 DEF Rests, OnAir, ConnectLabels
<1> QED BY <1>2, <1>3, <1>4, <1>5 DEF Inv

LEMMA RatsStep ==
    ASSUME Inv, TagTypes, RatsAnswered \/ PpsAnswered
    PROVE  Inv'
<1>1. CASE RatsAnswered
  <2>1. PICK t : /\ t \in Answers({"rats"}) /\ Received
                 /\ IF Kind[t] = "fast" THEN lib' = [lib EXCEPT !.at = "pps"] /\ UNCHANGED <<ph, newp>>
                    ELSE ConnectSucceeds
    BY <1>1 DEF RatsAnswered
  <2>2. /\ lib.at = "rats" /\ ReadyFor(chip', "rats", Handle.layer)
        /\ chip' \in ChipRecord /\ chip'.power = chip.power
    BY <2>1, ReceivedEffect DEF FrameKinds
  <2>3. Handle = l2h /\ l2h.layer = "A"
    BY <2>2, ConnectIs DEF ConnectLabels
  <2>4. ReadyFor(chip', "pps", l2h.layer) /\ Left(chip', "A")
    BY <2>2, <2>3 DEF ReadyFor, Left, Tuned, NearlyTuned
  <2>5. air' = NoFrame /\ UNCHANGED <<tool, rh, l2h, new>>
    BY <1>1, <2>1 DEF RatsAnswered, Received, Heeded
  <2>6. CASE Kind[t] = "fast"
    BY <2>1, <2>2, <2>4, <2>5, <2>6, ConnectOnStep DEF ConnectLabels, handles
  <2>7. CASE Kind[t] # "fast"
    BY <2>1, <2>2, <2>4, <2>5, <2>7, ConnectSucceedsStep DEF ConnectLabels
  <2> QED BY <2>6, <2>7
<1>2. CASE PpsAnswered
  <2>1. PICK t : t \in Answers({"pps"})
    BY <1>2 DEF PpsAnswered
  <2>2. /\ lib.at = "pps" /\ ReadyFor(chip', "pps", Handle.layer)
        /\ chip' \in ChipRecord /\ chip'.power = chip.power
    BY <1>2, <2>1, ReceivedEffect DEF PpsAnswered, FrameKinds
  <2>3. Handle = l2h
    BY <2>2, ConnectIs DEF ConnectLabels
  <2>4. ReadyFor(chip', "rxspeed", l2h.layer)
    BY <2>2, <2>3 DEF ReadyFor
  <2> QED BY <1>2, <2>2, <2>4, ConnectOnStep DEF PpsAnswered, Received, Heeded, ConnectLabels
<1> QED BY <1>1, <1>2

LEMMA set_speed_step ==
    ASSUME Inv, set_speed
    PROVE  Inv'
<1> DEFINE tx == lib.at = "txspeed"
<1>1. /\ lib.at \in {"rxspeed", "txspeed"} /\ UNCHANGED <<tool, rh, l2h, new, air>>
      /\ \E k \in Nat : chip' = SetSpeed(chip, tx, k)
      /\ \/ IF tx THEN ConnectSucceeds ELSE lib' = [lib EXCEPT !.at = "txspeed"] /\ UNCHANGED <<ph, newp>>
         \/ ConnectFails
  <2>1. Len(SpeedRegs(tx)) \in Nat
    BY DEF SpeedRegs
  <2> QED BY <2>1, CutsAssumption DEF set_speed
<1>2. air = NoFrame
  BY <1>1 DEF Inv, OnAir, FrameKinds
<1>3. Handle = l2h /\ l2h.layer = "A" /\ chip \in ChipRecord
  BY <1>1, ConnectIs DEF ConnectLabels, Inv, Records
<1>4. Left(chip, "A")
  BY <1>1, <1>3 DEF Inv, Prepares, ReadyFor, Left, Tuned, NearlyTuned
<1>5. chip' \in ChipRecord /\ chip'.power = chip.power /\ Left(chip', "A")
  <2>1. PICK k : chip' = SetSpeed(chip, tx, k)
    BY <1>1
  <2>2. tx \in BOOLEAN
    OBVIOUS
  <2> HIDE DEF tx
  <2> QED BY <1>3, <1>4, <2>1, <2>2, SetSpeedChip
<1>6. CASE ConnectFails
  BY <1>1, <1>2, <1>5, <1>6, ConnectFailsStep DEF ConnectLabels
<1>7. CASE ConnectSucceeds
  BY <1>1, <1>2, <1>5, <1>7, ConnectSucceedsStep DEF ConnectLabels
<1>8. CASE lib' = [lib EXCEPT !.at = "txspeed"] /\ UNCHANGED <<ph, newp>>
  <2>1. ReadyFor(chip', "txspeed", l2h.layer)
    BY <1>3, <1>5 DEF ReadyFor
  <2> QED BY <1>1, <1>2, <1>5, <1>8, <2>1, ConnectOnStep DEF ConnectLabels, handles
<1> QED BY <1>1, <1>6, <1>7, <1>8

LEMMA ConnectUnansweredStep ==
    ASSUME Inv, ConnectUnanswered
    PROVE  Inv'
<1>1. /\ lib.at \in {"rats", "pps"} /\ air' = NoFrame /\ chip' \in ChipRecord /\ chip'.power = chip.power
      /\ ReadyFor(chip', lib.at, Handle.layer)
  BY UnansweredEffect DEF ConnectUnanswered, FrameKinds
<1>2. Left(chip', "A")
  BY <1>1 DEF ReadyFor, Left, Tuned, NearlyTuned
<1> QED BY <1>1, <1>2, ConnectFailsStep DEF ConnectUnanswered, ConnectLabels

LEMMA rfid_protocol_scan_step ==
    ASSUME Inv, rfid_protocol_scan
    PROVE  Inv'
<1>1. lib.at = "pinit" /\ lib.call = "scan" /\ UNCHANGED <<tool, rh, l2h, new, chip, air>>
  BY DEF rfid_protocol_scan
<1>2. /\ tool.name \in {"scan", "endless"} /\ tool.at = "scanned" /\ new = NoHandle /\ newp = NoProto
      /\ HasTag /\ lib.n >= 1
  BY <1>1 DEF Inv, Calls, ScanCall, OpenLabels, ConnectLabels
<1>3. /\ Left(chip, l2h.layer) /\ (lib.n = 1 => Tuned(chip, l2h.layer))
      /\ chip \in ChipRecord /\ l2h \in Handles /\ ph \in ProtoHandles /\ lib \in LibRecord
      /\ l2h.tag \in Tag \cup {NoTag} /\ lib.n \in 0..4
  BY <1>1 DEF Inv, Prepares, Records, LibRecord, Handles
<1>4. air = NoFrame
  BY <1>1 DEF Inv, OnAir, FrameKinds
<1>5. HasTag'
  BY <1>1, <1>2 DEF HasTag
<1>6. Len(Protocols) = 3 /\ Protocols[1] = "TCL" /\ Protocols[2] = "UL" /\ Protocols[3] = "CLASSIC"
  BY DEF Protocols
<1>7. CASE lib.n > 3
  <2>1. ph' = NoProto /\ UNCHANGED newp /\ Returns(2)
    BY <1>6, <1>7 DEF rfid_protocol_scan
  <2>2. lib'.rc = 2
    BY <2>1, ReturnsRc
  <2>3. Rests'
    BY <1>1, <1>2, <1>3, <1>5, <2>2 DEF Rests, Openers, Enums
  <2> QED BY <1>1, <1>2, <1>3, <1>4, <2>1, <2>3, ReturnStep, TypedCalls
<1>8. CASE ~(lib.n > 3)
  <2> DEFINE p == Protocols[lib.n]
             h == [proto |-> p, tag |-> l2h.tag]
  <2>1. p \in Proto /\ (p = "TCL" => lib.n = 1) /\ lib.n <= 3
    <3>1. lib.n \in 1..3
      BY <1>2, <1>3, <1>8
    <3> QED BY <1>6, <3>1 DEF Proto
  <2>2. CASE lib' = [lib EXCEPT !.n = lib.n + 1] /\ UNCHANGED <<ph, newp>>
    BY <1>1, <1>2, <1>3, <1>4, <2>1, <2>2, PinitStep
  <2>3. h \in ProtoHandles /\ h.tag = l2h.tag /\ h.proto = p
    BY <1>3, <2>1 DEF ProtoHandles
  <2>4. CASE Opened(p)
    <3> HIDE DEF p
    <3>1. CASE p # "TCL"
      <4>1. ph' = h /\ UNCHANGED newp /\ Returns(3)
        BY <1>1, <2>4, <3>1 DEF Opened
      <4>2. lib'.rc = 3
        BY <4>1, ReturnsRc
      <4>3. Rests'
        BY <1>1, <1>2, <1>3, <1>5, <2>3, <3>1, <4>1, <4>2 DEF Rests, Openers, Enums
      <4> QED BY <1>1, <1>2, <1>3, <1>4, <2>3, <4>1, <4>3, ReturnStep
    <3>2. CASE p = "TCL" /\ l2h.layer = "A"
      <4>1. newp' = h /\ UNCHANGED ph /\ lib' = [lib EXCEPT !.at = "rats"]
        BY <1>1, <2>4, <3>2 DEF Opened
      <4>2. lib' \in LibRecord /\ lib'.at = "rats" /\ lib'.call = "scan" /\ lib'.n = 1
        BY <1>1, <1>3, <2>1, <3>2, <4>1 DEF LibRecord, LibLabels, FrameKinds
      <4>3. Records'
        BY <1>1, <2>3, <4>1, <4>2 DEF Inv, Records
      <4>4. ScanCall'
        BY <1>1, <1>2, <1>5, <3>2, <4>1, <4>2 DEF ScanCall, OpenLabels, ConnectLabels
      <4>5. Calls'
        BY <4>2, <4>4 DEF Calls
      <4>6. ReadyFor(chip, "rats", l2h.layer)
        BY <1>3, <2>1, <3>2 DEF ReadyFor, Left
      <4>7. Handle' = l2h
        BY <1>1, <1>2 DEF Handle
      <4>8. Prepares'
        BY <1>1, <4>2, <4>6, <4>7 DEF Inv, Prepares
      <4>9. Rests' /\ OnAir'
        BY <1>1, <1>4, <4>2 DEF Rests, OnAir
      <4> QED BY <4>3, <4>5, <4>8, <4>9 DEF Inv
    <3>3. CASE p = "TCL" /\ l2h.layer # "A"
      <4>1. ConnectFails
        BY <1>1, <2>4, <3>3 DEF Opened
      <4> QED BY <1>1, <1>2, <1>3, <1>4, <2>1, <4>1, PinitStep DEF ConnectFails
    <3> QED BY <3>1, <3>2, <3>3
  <2> QED BY <1>6, <1>8, <2>2, <2>4 DEF rfid_protocol_scan
<1> QED BY <1>7, <1>8

LEMMA l3_init_step ==
    ASSUME Inv, l3_init
    PROVE  Inv'
<1> DEFINE p == tool.proto
           h == [proto |-> p, tag |-> l2h.tag]
<1>1. lib.at = "pinit" /\ lib.call = "l3" /\ UNCHANGED <<tool, rh, l2h, new, chip, air>>
  BY DEF l3_init
<1>2. /\ \/ tool.name = "main" /\ tool.at = "use"
         \/ tool.name = "mifare" /\ tool.at = "l3" /\ l2h.layer = "A" /\ p = "CLASSIC"
      /\ HasTag /\ new = NoHandle /\ newp = NoProto
  BY <1>1 DEF Inv, Calls, ProtocolCall, Records
<1>3. /\ Settled(chip, l2h.layer)
      /\ chip \in ChipRecord /\ l2h \in Handles /\ ph \in ProtoHandles /\ lib \in LibRecord
      /\ l2h.tag \in Tag \cup {NoTag} /\ p \in Proto
  BY <1>1 DEF Inv, Prepares, Records, Handles, ToolRecord
<1>4. air = NoFrame
  BY <1>1 DEF Inv, OnAir, FrameKinds
<1>5. HasTag'
  BY <1>1, <1>2 DEF HasTag
<1>6. l2h.layer \in LayerNames
  BY <1>2 DEF HasTag, LayerNames
<1>7. h \in ProtoHandles
  BY <1>3 DEF ProtoHandles
<1>8. ASSUME NEW v \in ProtoHandles, ph' = v, UNCHANGED newp, Returns(-1)
      PROVE  Inv'
  <2>1. lib'.rc = -1
    BY <1>8, ReturnsRc
  <2>2. Rests'
    BY <1>1, <1>2, <1>3, <1>5, <2>1 DEF Rests, Openers, Enums
  <2> QED BY <1>1, <1>2, <1>3, <1>4, <1>8, <2>2, ReturnStep
<1>9. CASE ~fn_init(p)
  BY <1>8, <1>9, TypedCalls DEF l3_init
<1>10. CASE fn_init(p)
  <2>1. Opened(p)
    BY <1>10 DEF l3_init
  <2>2. CASE p # "TCL"
    <3>1. ph' = h /\ UNCHANGED newp /\ Returns(0)
      BY <1>1, <2>1, <2>2 DEF Opened
    <3>2. lib'.rc = 0
      BY <3>1, ReturnsRc
    <3>3. l2h.layer = "A"
      BY <1>3, <1>10, <2>2 DEF fn_init, mful_init, mfcl_init, Proto
    <3>4. Rests'
      BY <1>1, <1>2, <1>3, <1>5, <1>6, <2>2, <3>2, <3>3, SettledIs DEF Rests, Openers, Enums
    <3> QED BY <1>1, <1>2, <1>3, <1>4, <1>7, <3>1, <3>4, ReturnStep
  <2>3. CASE p = "TCL" /\ l2h.layer = "A"
    <3>1. ph' = h /\ UNCHANGED newp /\ lib' = [lib EXCEPT !.at = "rats"]
      BY <1>1, <2>1, <2>3 DEF Opened
    <3>2. lib' \in LibRecord /\ lib'.at = "rats" /\ lib'.call = "l3"
      BY <1>1, <1>3, <3>1 DEF LibRecord, LibLabels, FrameKinds
    <3>3. Records'
      BY <1>1, <1>7, <3>1, <3>2 DEF Inv, Records
    <3>4. ProtocolCall'
      BY <1>1, <1>2, <1>5, <2>3, <3>2 DEF ProtocolCall, ConnectLabels
    <3>5. Calls'
      BY <1>1, <1>2, <3>1, <3>2, <3>4 DEF Calls
    <3>6. ReadyFor(chip, "rats", l2h.layer)
      BY <1>3, <1>6, <2>3, SettledIs DEF ReadyFor
    <3>7. Handle' = l2h
      BY <1>1, <1>2 DEF Handle
    <3>8. Prepares'
      BY <1>1, <3>2, <3>6, <3>7 DEF Inv, Prepares
    <3>9. Rests' /\ OnAir'
      BY <1>1, <1>4, <3>2 DEF Rests, OnAir
    <3> QED BY <3>3, <3>5, <3>8, <3>9 DEF Inv
  <2>4. CASE p = "TCL" /\ l2h.layer # "A"
    <3>1. ph' = h /\ UNCHANGED newp /\ Returns(-1)
      BY <1>1, <2>1, <2>4 DEF Opened
    <3> QED BY <1>7, <1>8, <3>1
  <2> QED BY <2>2, <2>3, <2>4
<1> QED BY <1>9, <1>10

LEMMA CloseStep ==
    ASSUME Inv, TagTypes, CloseReturns
    PROVE  Inv'
<1>1. UNCHANGED <<tool, rh, handles>> /\ Returns(0)
  BY DEF CloseReturns
<1>2. /\ lib.at \in {"hlta", "quiet", "deselect"} /\ air' = NoFrame
      /\ chip' \in ChipRecord /\ chip'.power = chip.power
      /\ ReadyFor(chip', lib.at, Handle.layer)
      /\ lib.at \in {"hlta", "quiet"} /\ Settled(chip, Handle.layer) => Settled(chip', Handle.layer)
  <2>1. CASE Unanswered({"hlta", "quiet", "deselect"})
    BY <2>1, UnansweredEffect DEF FrameKinds
  <2>2. CASE Answers({"deselect"}) # {} /\ Received
    <3>1. PICK t : t \in Answers({"deselect"})
      BY <2>2
    <3> QED BY <2>2, <3>1, ReceivedEffect DEF FrameKinds
  <2> QED BY <2>1, <2>2 DEF CloseReturns
<1>3. CloseCall /\ new = NoHandle /\ newp = NoProto /\ Handle = l2h /\ lib.call = "close"
  BY <1>2, CallOf DEF Inv, Calls, Handle
<1>4. Left(chip', l2h.layer)
  BY <1>2, <1>3 DEF ReadyFor
<1>5. tool.name \in Enums => Settled(chip', l2h.layer)
  BY <1>2, <1>3 DEF CloseCall, Enums, Inv, Prepares
<1>6. HasTag => HasTag'
  BY <1>1 DEF HasTag, handles
<1>7. Rests'
  BY <1>1, <1>3, <1>4, <1>5, <1>6 DEF CloseCall, Rests, Openers, Enums, handles
<1> QED BY <1>1, <1>2, <1>3, <1>7, ReturnStep DEF Inv, Records, handles

(* At the labels of an application's exchange. *)
LEMMA UseIs ==
    ASSUME Inv, lib.at \in {"iblock", "block", "ulread", "mfread", "auth"}
    PROVE  UseCall /\ new = NoHandle /\ newp = NoProto /\ Handle = l2h
           /\ l2h \in Handles /\ ph \in ProtoHandles
BY CallOf DEF Inv, Calls, Handle, Records

LEMMA UseAnsweredStep ==
    ASSUME Inv, TagTypes, UseAnswered
    PROVE  Inv'
<1>1. UNCHANGED <<tool, rh, handles>> /\ Returns(0) /\ Received
  BY DEF UseAnswered
<1>2. PICK t : t \in Answers({"iblock", "block", "ulread", "mfread"})
  BY DEF UseAnswered
<1>3. /\ lib.at \in {"iblock", "block", "ulread", "mfread"} /\ air' = NoFrame
      /\ ReadyFor(chip', lib.at, Handle.layer) /\ chip' \in ChipRecord /\ chip'.power = chip.power
      /\ lib.at = "ulread" => Settled(chip', Handle.layer)
  BY <1>1, <1>2, ReceivedEffect DEF FrameKinds
<1>4. UseCall /\ new = NoHandle /\ newp = NoProto /\ Handle = l2h /\ l2h \in Handles /\ ph \in ProtoHandles
  BY <1>3, UseIs
<1>5. /\ lib.at = "iblock" => l2h.layer = "A" /\ Left(chip', "A")
      /\ lib.at = "ulread" => l2h.layer = "A" /\ Settled(chip', "A")
      /\ lib.at = "mfread" => l2h.layer = "A" /\ Keyed(chip')
      /\ lib.at = "block" => l2h.layer = "V" /\ Settled(chip', "V")
  BY <1>3, <1>4 DEF ReadyFor
<1>6. Rests'
  BY <1>1, <1>3, <1>4, <1>5 DEF UseCall, Rests, Openers, Enums, handles
<1> QED BY <1>1, <1>3, <1>4, <1>6, ReturnStep DEF handles

(* The authentication succeeds, or fails behind its first exchange.        *)
LEMMA AuthAnsweredStep ==
    ASSUME Inv, TagTypes, AuthAnswered \/ AuthBroken
    PROVE  Inv'
<1>1. PICK on \in BOOLEAN :
         /\ chip' = clear_bits([Exchanged(chip, TRUE) EXCEPT !.crypto = on], {"TX_CRC"})
         /\ AuthAnswered => on
  <2>1. CASE AuthAnswered
    BY <2>1 DEF AuthAnswered
  <2>2. CASE AuthBroken /\ ~AuthAnswered
    <3>1. PICK on \in {chip.crypto, TRUE} :
             chip' = clear_bits([Exchanged(chip, TRUE) EXCEPT !.crypto = on], {"TX_CRC"})
      BY <2>2 DEF AuthBroken
    <3>2. on \in BOOLEAN
      BY <3>1 DEF Inv, Records, ChipRecord
    <3> QED BY <2>2, <3>1, <3>2
  <2> QED BY <2>1, <2>2
<1>2. PICK r \in {-1, 0} : Returns(r) /\ (r = 0 => AuthAnswered)
  BY DEF AuthAnswered, AuthBroken
<1>3. UNCHANGED <<tool, rh, handles>> /\ air' = NoFrame
  BY DEF AuthAnswered, AuthBroken, Heeded
<1>4. PICK t : t \in Answers({"auth"})
  BY DEF AuthAnswered, AuthBroken
<1>5. lib.at = "auth" /\ ReadyFor(chip, "auth", Handle.layer) /\ chip \in ChipRecord
  BY <1>4, AnsweredEffect DEF FrameKinds
<1>6. UseCall /\ new = NoHandle /\ newp = NoProto /\ Handle = l2h /\ l2h \in Handles /\ ph \in ProtoHandles
  BY <1>5, UseIs
<1>7. /\ l2h.layer = "A" /\ Tuned(chip, "A") /\ chip.bits = {} /\ "PARITY" \in chip.cr
      /\ "CRC3309" \notin chip.cr
  BY <1>5, <1>6 DEF ReadyFor
<1>8. chip' \in ChipRecord /\ chip'.power = chip.power /\ (on => Keyed(chip'))
  BY <1>1, <1>5, <1>7, AuthChip
<1>9. lib'.rc = r
  BY <1>2, ReturnsRc
<1>10. Rests'
  BY <1>1, <1>2, <1>3, <1>5, <1>6, <1>7, <1>8, <1>9 DEF UseCall, Rests, Openers, Enums, handles
<1> QED BY <1>2, <1>3, <1>6, <1>8, <1>10, ReturnStep DEF handles

LEMMA UseUnansweredStep ==
    ASSUME Inv, UseUnanswered
    PROVE  Inv'
<1>1. UNCHANGED <<tool, rh, handles>> /\ Returns(-1)
  BY DEF UseUnanswered
<1>2. /\ lib.at \in {"iblock", "block", "ulread", "mfread", "auth"} /\ air' = NoFrame
      /\ chip' \in ChipRecord /\ chip'.power = chip.power
      /\ ReadyFor(chip', lib.at, Handle.layer)
  BY UnansweredEffect DEF UseUnanswered, FrameKinds
<1>3. UseCall /\ new = NoHandle /\ newp = NoProto /\ Handle = l2h /\ l2h \in Handles /\ ph \in ProtoHandles
  BY <1>2, UseIs
<1>4. /\ lib.at = "block" => l2h.layer = "V" /\ Settled(chip', "V")
      /\ lib.at = "mfread" => l2h.layer = "A" /\ Keyed(chip')
  BY <1>2, <1>3 DEF ReadyFor
<1>5. lib'.rc = -1
  BY <1>1, ReturnsRc
<1>6. tool.name = "main" /\ tool.at \in {"authed", "read"} => tool.proto = "CLASSIC"
  BY <1>3 DEF UseCall
<1>7. Rests'
  BY <1>1, <1>3, <1>4, <1>5, <1>6 DEF UseCall, Rests, Openers, Enums, handles
<1> QED BY <1>1, <1>2, <1>3, <1>7, ReturnStep DEF handles

---------------------------------------------------------------------------
(* The tags.                                                               *)

LEMMA TagsStep ==
    ASSUME Inv, TagTypes, [Next]_vars
    PROVE  TagTypes'
<1>1. ASSUME NEW ts PROVE Idle(ts) \in [Tag -> TagStates]
  BY DEF TagTypes, Idle, TagStates
<1>2. ASSUME Heard PROVE tags' \in [Tag -> TagStates]
  <2>1. ASSUME NEW t \in Tag PROVE Becomes(air, t) \in TagStates
    <3>1. tags[t] \in TagStates
      BY DEF TagTypes
    <3>2. CASE air.kind = "sf"
      BY <3>2 DEF Becomes, TagStates
    <3>3. CASE air.kind = "select"
      BY <3>3 DEF Becomes, TagStates
    <3>4. CASE air.kind \notin {"sf", "select"}
      BY <3>1, <3>4 DEF Becomes, TagStates
    <3> QED BY <3>2, <3>3, <3>4
  <2>2. ASSUME NEW t \in Tag PROVE tags[t] \in TagStates /\ "idle" \in TagStates
    BY DEF TagTypes, TagStates
  <2> QED BY <1>2, <2>1, <2>2 DEF Heard
<1> DEFINE Same == tags' \in {tags, Idle(Tag)} /\ UNCHANGED field
<1>3. ASSUME NEW K, Unanswered(K) PROVE Heard \/ UNCHANGED tags
  BY <1>3 DEF Unanswered
<1>4. CASE Library
  <2>1. Heard \/ UNCHANGED tags
    BY <1>3, <1>4 DEF Library, Send, rfid_layer2_init, ReqaAnswered, AcfAnswered, SelectAnswered,
          InventoryAnswered, OpenUnanswered, ReqbAnswered, ReqbUnanswered, rfid_protocol_scan, l3_init,
          RatsAnswered, PpsAnswered, set_speed, ConnectUnanswered, CloseReturns, UseAnswered,
          AuthAnswered, AuthBroken, UseUnanswered, Received, Heeded
  <2>2. UNCHANGED field
    BY <1>4 DEF Library, Send, rfid_layer2_init, ReqaAnswered, AcfAnswered, SelectAnswered,
          InventoryAnswered, OpenUnanswered, ReqbAnswered, ReqbUnanswered, rfid_protocol_scan, l3_init,
          RatsAnswered, PpsAnswered, set_speed, ConnectUnanswered, CloseReturns, UseAnswered,
          AuthAnswered, AuthBroken, UseUnanswered
  <2> QED BY <1>2, <2>1, <2>2 DEF TagTypes
<1>5. CASE Tooling
  <2>1. ASSUME NEW on, RfPower(on) PROVE Same
    BY <2>1 DEF RfPower
  <2>2. ASSUME NEW c, NEW a, Call(c, a) PROVE Same
    BY <2>2 DEF Call
  <2>3. ASSUME NEW a, Jump(a) PROVE Same
    BY <2>3 DEF Jump
  <2>4. do_scan => Same
    BY <2>1, <2>2, <2>3 DEF do_scan
  <2>5. do_endless_scan => Same
    BY <2>2, <2>3 DEF do_endless_scan
  <2>6. l2_init \/ do_enum => Same
    BY <2>2, <2>3 DEF l2_init, do_enum
  <2>7. do_enum_loop => Same
    BY <2>1 DEF do_enum_loop
  <2>8. iso15693_dump => Same
    BY <2>2 DEF iso15693_dump
  <2>9. main => Same
    <3>1. ASSUME CASE tool.proto = "TCL"     -> Call(exchange("iblock"), "use")
                   [] tool.proto = "UL"      -> Call(exchange("ulread"), "use") \/ Jump("close")
                   [] tool.proto = "CLASSIC" -> Call(exchange("auth"), "authed") \/ Jump("close")
          PROVE  Same
      <4>1. tool.proto \in {"TCL", "UL", "CLASSIC"}
        BY DEF Inv, Records, ToolRecord, Proto
      <4>2. CASE tool.proto = "TCL"
        <5>1. Call(exchange("iblock"), "use")
          BY <3>1, <4>2, Zenon
        <5> QED BY <2>2, <5>1
      <4>3. CASE tool.proto = "UL"
        <5>1. Call(exchange("ulread"), "use") \/ Jump("close")
          BY <3>1, <4>3
        <5> QED BY <2>2, <2>3, <5>1
      <4>4. CASE tool.proto = "CLASSIC"
        <5>1. Call(exchange("auth"), "authed") \/ Jump("close")
          BY <3>1, <4>4
        <5> QED BY <2>2, <2>3, <5>1
      <4> QED BY <4>1, <4>2, <4>3, <4>4
    <3> QED BY <2>2, <2>3, <3>1 DEF main
  <2>10. mifare_loop_read => Same
    BY <2>2, <2>3 DEF mifare_loop_read
  <2>11. reader_init => Same
    BY DEF reader_init, rfid_reader_open
  <2>12. rfid_reader_close \/ Exec => Same
    BY DEF rfid_reader_close, Exec
  <2>13. Same
    BY <1>5, <2>4, <2>5, <2>6, <2>7, <2>8, <2>9, <2>10, <2>11, <2>12 DEF Tooling
  <2> QED BY <1>1, <2>13 DEF TagTypes
<1>6. CASE Interrupt
  BY <1>6 DEF Interrupt, TagTypes
<1>7. CASE Move
  <2>1. PICK t \in Tag : /\ field' = (IF t \in field THEN field \ {t} ELSE field \cup {t})
                         /\ tags' = Idle({t})
    BY <1>7, Zenon DEF Move
  <2>2. tags' \in [Tag -> TagStates]
    <3>1. Idle({t}) \in [Tag -> TagStates]
      BY <1>1
    <3>2. tags' = Idle({t})
      BY <2>1, Zenon
    <3> QED BY <3>1, <3>2
  <2>3. field' \subseteq Tag
    <3>1. field \subseteq Tag
      BY DEF TagTypes
    <3>2. field' = (IF t \in field THEN field \ {t} ELSE field \cup {t})
      BY <2>1, Zenon
    <3> QED BY <3>1, <3>2
  <2> QED BY <2>2, <2>3 DEF TagTypes
<1>8. CASE UNCHANGED vars
  BY <1>8 DEF vars, TagTypes
<1> QED BY <1>4, <1>5, <1>6, <1>7, <1>8 DEF Next

---------------------------------------------------------------------------
(* The theorems.                                                           *)

Full == Inv /\ TagTypes

LEMMA FullInit == Init => Full
BY InitInv, FieldAssumption DEF Full, Init, TagTypes, TagStates

(* Inv is inductive, together with the types of the tags. *)
LEMMA FullStep == Full /\ [Next]_vars => Full'
<1> SUFFICES ASSUME Inv, TagTypes, [Next]_vars PROVE Inv'
  BY TagsStep DEF Full
<1>1. CASE Tooling
  <2>1. CASE Exec
    <3>1. air = NoFrame /\ chip \in ChipRecord
      BY <2>1 DEF Exec, Inv, OnAir, FrameKinds, Records
    <3> QED BY <2>1, <3>1, NewProcessStep DEF Exec
  <2> QED BY <1>1, <2>1, reader_init_step, do_scan_step, do_endless_scan_step, l2_init_step, do_enum_step,
             do_enum_loop_step, iso15693_dump_step, main_step, mifare_step, rfid_reader_close_step
          DEF Tooling
<1>2. CASE Library
  BY <1>2, SendStep, rfid_layer2_init_step, ReqaStep, SelectStep, InventoryStep, OpenUnansweredStep,
     ReqbStep, rfid_protocol_scan_step, l3_init_step, RatsStep, set_speed_step, ConnectUnansweredStep,
     CloseStep, UseAnsweredStep, AuthAnsweredStep, UseUnansweredStep
  DEF Library
<1>3. CASE Interrupt
  <2>1. chip \in ChipRecord
    BY DEF Inv, Records
  <2> QED BY <1>3, <2>1, NewProcessStep DEF Interrupt
<1>4. CASE Move \/ UNCHANGED vars
  <2>1. UNCHANGED <<tool, rh, handles, lib, chip, air>>
    BY <1>4 DEF Move, vars
  <2>2. Records'
    BY <2>1 DEF Inv, Records, handles
  <2>3. Calls'
    <3>1. (ScanCall' <=> ScanCall) /\ (OpenCall' <=> OpenCall) /\ (ProtocolCall' <=> ProtocolCall)
          /\ (CloseCall' <=> CloseCall) /\ (UseCall' <=> UseCall)
      BY <2>1 DEF ScanCall, OpenCall, ProtocolCall, CloseCall, UseCall, HasTag, handles
    <3> QED BY <2>1, <3>1 DEF Inv, Calls, handles
  <2>4. Handle' = Handle /\ Frame' = Frame /\ (HasTag' <=> HasTag)
    BY <2>1 DEF Handle, Frame, HasTag, handles
  <2>5. Prepares'
    BY <2>1, <2>4 DEF Inv, Prepares, handles
  <2>6. Rests'
    BY <2>1, <2>4 DEF Inv, Rests, handles
  <2>7. OnAir'
    BY <2>1, <2>4 DEF Inv, OnAir
  <2> QED BY <2>2, <2>3, <2>5, <2>6, <2>7 DEF Inv
<1> QED BY <1>1, <1>2, <1>3, <1>4 DEF Next

(* The handles, the call in progress, the registers and the tags keep      *)
(* their types: no loop of a scan leaves its list of layers or protocols.  *)
THEOREM TypeCorrect == Spec => []TypeOK
<1>1. Full => TypeOK
  <2> SUFFICES ASSUME Inv, TagTypes PROVE TypeOK
    BY DEF Full
  <2>1. Len(Layers) = 3
    BY DEF Layers
  <2>2. tool.at \in ToolLabels /\ tool.first \in BOOLEAN
    BY DEF Inv, Records, ToolRecord
  <2>3. /\ lib.at \in LibLabels /\ lib.call \in CallNames /\ lib.i \in 1..3
        /\ lib.n \in 0..4 /\ lib.rc \in -1..3
    BY DEF Inv, Records, LibRecord
  <2>4. chip.cr \subseteq Redundancy /\ chip.bits \subseteq FrameBits /\ chip.cfg \in [Reg -> Settings]
    BY DEF Inv, Records, ChipRecord
  <2> QED BY <2>1, <2>2, <2>3, <2>4
          DEF TypeOK, Inv, Records, TagTypes, ToolLabels, LibLabels, CallNames, Redundancy, FrameBits,
              Settings
<1> QED BY <1>1, FullInit, FullStep, PTL DEF Spec

(* For every set of tags and tools, every failing access and interrupt:    *)
(* each frame goes out from a chip whose registers are those of its        *)
(* layer's script, at its tag's bit rate, with the redundancy, the framing *)
(* and the cipher the frame needs; but for the three exemptions that       *)
(* FrameConfig names: an authentication of main behind a sector read that  *)
(* failed, REQB and INVENTORY behind a broken-off type A open, and the     *)
(* receiver's CRC in anticollision frames.                                 *)
THEOREM FrameConfigHolds == Spec => []FrameConfig
<1>1. Full => FrameConfig
  <2> SUFFICES ASSUME Inv, air # NoFrame
               PROVE  /\ Scripted(air) /\ Enciphered(air)
                      /\ \/ Redundant(air)
                         \/ /\ air.kind = "auth" /\ tool.name = "main"
                            /\ chip.crypto /\ chip.cr = {"PARITY"}
                      /\ air.kind \notin {"reqb", "inv"} => chip.bits \in Framing(air)
    BY DEF Full, FrameConfig
  <2>1. FitsFrame(chip, air) /\ air.kind = lib.at
    BY DEF Inv, OnAir, Frame
  <2>2. Scripted(air) /\ Enciphered(air) /\ (air.kind \notin {"reqb", "inv"} => chip.bits \in Framing(air))
    BY <2>1 DEF FitsFrame, Scripted, Enciphered, Powered, On, Registers
  <2>3. (CASE air.kind = "sf"   -> chip.cr = {"PARITY"}
           [] air.kind = "acf"  -> chip.cr \ {"RX_CRC"} = {"PARITY"}
           [] air.kind = "auth" -> chip.cr = {"PARITY", "TX_CRC"} \/ (chip.cr = {"PARITY"} /\ chip.crypto)
           [] OTHER             -> chip.cr = RegularCR(air.layer))
    BY <2>1, Zenon DEF FitsFrame
  <2>4. CASE air.kind # "auth"
    <3>1. Redundant(air)
      BY <2>3, <2>4, Zenon DEF Redundant
    <3> QED BY <2>2, <2>4, <3>1
  <2>5. CASE air.kind = "auth"
    <3>1. chip.cr = {"PARITY", "TX_CRC"} \/ (chip.cr = {"PARITY"} /\ chip.crypto)
      BY <2>3, <2>5
    <3>2. tool.name # "main" => "TX_CRC" \in chip.cr
      BY <2>1, <2>5 DEF Inv, Prepares
    <3>3. chip.cr = {"PARITY", "TX_CRC"} => Redundant(air)
      BY <2>5 DEF Redundant
    <3> QED BY <2>2, <2>5, <3>1, <3>2, <3>3
  <2> QED BY <2>4, <2>5
<1> QED BY <1>1, FullInit, FullStep, PTL DEF Spec

(* When control is in a tool, rfid_scan and its helpers have given back or *)
(* handed over every handle they took, and the two handles of a scan are   *)
(* of one tag.                                                             *)
THEOREM LibraryKeepsNothingHolds == Spec => []LibraryKeepsNothing
<1>1. Full => LibraryKeepsNothing
  <2> SUFFICES ASSUME Inv, lib.at = "none" PROVE LibraryKeepsNothing
    BY DEF Full, LibraryKeepsNothing
  <2>1. new = NoHandle /\ newp = NoProto
    BY DEF Inv, Calls
  <2>2. ASSUME At({"scan", "endless"}, "scanned")
        PROVE  /\ (lib.rc < 2) <=> (l2h = NoHandle)
               /\ lib.rc >= 2 => l2h.tag # NoTag
               /\ lib.rc = 3 => ph.tag = l2h.tag
    <3>1. /\ lib.rc \in {0, 2, 3}
          /\ lib.rc = 0 => l2h = NoHandle
          /\ lib.rc >= 2 => HasTag
          /\ lib.rc = 3 => ph.tag = l2h.tag
      BY <2>2 DEF Inv, Rests, At
    <3>2. HasTag => l2h.tag # NoTag /\ l2h # NoHandle
      BY TagAssumption DEF HasTag, NoTag, NoHandle
    <3> QED BY <3>1, <3>2
  <2> QED BY <2>1, <2>2 DEF LibraryKeepsNothing
<1> QED BY <1>1, FullInit, FullStep, PTL DEF Spec
=============================================================================
