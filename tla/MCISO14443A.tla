---------------------------- MODULE MCISO14443A ----------------------------
(* Tags for the type A anticollision: single size UIDs, double size ones   *)
(* that agree in the first part, a triple size one; f cascades without the *)
(* cascade tag, g never stops cascading.                                   *)
EXTENDS ISO14443A

CONSTANTS a, b, c, d, e, f, g

MCUID == [t \in Tags |->
    CASE t = a -> << <<0, 0, 1, 0>> >>
      [] t = b -> << <<0, 1, 1, 0>> >>
      [] t = c -> << <<1, 0, 1, 1>>, <<0, 1, 0, 1>> >>
      [] t = d -> << <<1, 0, 1, 1>>, <<0, 1, 0, 0>> >>
      [] t = e -> << <<1, 1, 0, 1>>, <<1, 1, 1, 0>>, <<0, 0, 1, 1>> >>
      [] t = f -> << <<0, 1, 0, 0>>, <<0, 0, 0, 1>> >>
      [] t = g -> << <<1, 0, 1, 1>>, <<1, 0, 1, 0>>, <<1, 1, 1, 1>>, <<0, 0, 0, 0>> >>]
=============================================================================
