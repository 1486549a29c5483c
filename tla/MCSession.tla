----------------------------- MODULE MCSession -----------------------------
(* Model values for the Session module: tags and command lines.            *)
EXTENDS Session

(* A tag of each kind, alone, and with one of another or of the same layer.*)
MCTag  == {"f", "c", "u", "b", "v"}
MCKind == [t \in MCTag |-> CASE t = "f" -> "fast" [] t = "c" -> "classic" [] t = "u" -> "ul"
                             [] t = "b" -> "b" [] t = "v" -> "v"]
MCFields == {{"f", "v"}, {"c", "f"}, {"u"}, {"b"}}
MCCuts == {0, 1, 4, 15}
MCGarbage == {{"TCL", "CLASSIC"}}

Line(n, l, p) == [name |-> n, layer |-> l, proto |-> p]
MCTools == {Line("scan", "A", "TCL"), Line("endless", "A", "TCL"), Line("mifare", "A", "CLASSIC"),
            Line("enum", "B", "TCL"), Line("enumloop", "A", "TCL"), Line("enumloop", "V", "TCL"),
            Line("dump", "V", "TCL"), Line("main", "A", "TCL"), Line("main", "V", "TCL"),
            Line("main", "A", "CLASSIC"), Line("main", "A", "UL")}
=============================================================================
