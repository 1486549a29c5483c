-------------------------- MODULE ISO14443Common --------------------------
(***************************************************************************)
(* The frame-size coding shared by ISO 14443 types A and B                 *)
(* (src/src/rfid_iso14443_common.c): the table that codes a maximum frame  *)
(* size as a 4-bit index, and the three functions that search it.          *)
(***************************************************************************)
EXTENDS Integers

(* fsdi_table: index 0..8.                                                 *)
FsdiTable == <<16, 24, 32, 40, 48, 64, 96, 128, 256>>

FsdValues == {FsdiTable[i] : i \in 1..9}

(* iso14443_fsdi_to_fsd(&fsd, fsdi), as the set of values the out-parameter *)
(* may hold afterwards, `old` being what it held before.  Nibbles above 9   *)
(* are refused and leave it alone (no caller looks at the return value); 9  *)
(* passes the check `fsdi > 9' and reads the word behind the nine-entry     *)
(* table, any member of `beyond'.                                           *)
iso14443_fsdi_to_fsd(fsdi, old, beyond) ==
    IF fsdi > 9 THEN {old}
    ELSE IF fsdi = 9 THEN beyond
    ELSE {FsdiTable[fsdi + 1]}

(* iso14443_fsd_approx: the largest entry that is not above `fsd', or the   *)
(* smallest entry when there is none.                                       *)
iso14443_fsd_approx(fsd) ==
    IF \E v \in FsdValues : v <= fsd
    THEN CHOOSE v \in FsdValues :
            v <= fsd /\ \A w \in FsdValues : w <= fsd => w <= v
    ELSE FsdiTable[1]
===========================================================================
