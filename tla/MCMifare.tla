------------------------------ MODULE MCMifare ------------------------------
(* Model values for the Mifare module: cards and operations.               *)
EXTENDS Mifare

(* The conditions of a new card, and conditions in which each of a         *)
(* sector's blocks takes all eight values.                                 *)
MCAccess == {NewCard} \cup {[b \in 0..3 |-> (i + b) % 8] : i \in 0..7}

Op(n, p, l, k) == [name |-> n, page |-> p, len |-> l, key |-> k]

(* Pages at the ends of sectors, of cards and of the 8 bits of a block     *)
(* number; lengths that are refused; pages on both sides of page 8.        *)
MCOps ==
    {Op("dump", 0, 0, k) : k \in {"good", "bad"}}
    \cup {Op("read", p, 16, "good") : p \in {0, 3, 62, 63, 127, 143, 255, 256, 259}}
    \cup {Op("write", p, 16, "good") : p \in {1, 3, 128, 257}}
    \cup {Op("write", 1, 15, "good"), Op("write", 2, 16, "bad")}
    \cup {Op("ulread", 0, 0, "good"), Op("ulblank", 0, 4, "good"),
          Op("ulwrite", 10, 4, "good"), Op("ulwrite", 8, 4, "good"), Op("ulwrite", 16, 4, "good")}
    \cup {Op("lock", p, 4, "good") : p \in {2, 3, 7, 8, 9, 15, 16}}
=============================================================================
