------------------------------- MODULE MCTCL -------------------------------
(* Model values for the T=CL module: the cards of the field.               *)
EXTENDS TCL

(* Plain cards: smallest frames and no TA; TL alone. *)
Plain == [len |-> 2, fsci |-> 0, dr |-> {}, ds |-> {}, tb |-> TRUE, fwi |-> 4]
Bare  == [Plain EXCEPT !.len = 1]
(* Offers 212 kbit/s both ways, and frames above the FIFO. *)
Fast  == [Plain EXCEPT !.fsci = 8, !.dr = {1}, !.ds = {1}, !.fwi = 14]
(* Offers divisors for the direction from the PCD only. *)
OneWay == [Plain EXCEPT !.dr = {1, 2}]
NoTB   == [Plain EXCEPT !.tb = FALSE]
Broken == [Plain EXCEPT !.len = 0]
RfuFsci == [Plain EXCEPT !.fsci = 10]
EdgeFsci == [Plain EXCEPT !.fsci = 9]

GoodCards  == {Plain, Bare, Fast}
LossyCards == GoodCards \cup {OneWay, Broken}
AllCards   == LossyCards \cup {NoTB, RfuFsci, EdgeFsci}
PlainCards == {Plain}
NoTBCards  == {NoTB}
=============================================================================
