----------------------------- MODULE MCISO15693 -----------------------------
(* Tags for the ISO 15693 inventory, with bytes of three bits: a and b     *)
(* differ in their first bit, a and c in a later one of the same byte, d   *)
(* collides with all of them in its DSFID.                                 *)
EXTENDS ISO15693

CONSTANTS a, b, c, d

MCUID == [t \in Tags |->
    CASE t = a -> <<0, 0, 0, 0>>
      [] t = b -> <<1, 0, 0, 1>>
      [] t = c -> <<0, 1, 0, 0>>
      [] t = d -> <<0, 0, 0, 1>>]

MCDSFID == [t \in Tags |-> IF t = d THEN <<0, 1, 0>> ELSE <<0, 0, 0>>]
=============================================================================
