----------------------------- MODULE MCDocSearch -----------------------------
(***************************************************************************)
(* A documentation with four symbols in two sections.                      *)
(***************************************************************************)
EXTENDS DocSearch

g == [name |-> <<"g">>, id |-> <<"g">>, kids |-> 0]
v == [name |-> <<"v">>, id |-> <<"v">>, kids |-> 0]
v_ == [name |-> <<"V", "_">>, id |-> <<"v", "_", "5", "f">>, kids |-> 2]
vg == [name |-> <<"v", "g">>, id |-> <<"v", "g">>, kids |-> 0]

MCSections == 0 .. 1
MCIndex == (0 :> <<"g", "v">> @@ 1 :> <<"v">>)
MCData == (0 :> ("g" :> <<g>> @@ "v" :> <<v, v_, vg>>) @@ 1 :> ("v" :> <<v>>))
MCLower == [c \in {"g", "v", "s", "f", "0", "2", "5", "_", " "} |-> c] @@ ("V" :> "v" @@ "S" :> "s")
MCHex == ("_" :> <<"_", "5", "f">> @@ " " :> <<"_", "2", "0">>)
MCTexts == {<<>>, <<"v">>, <<" ", "V", "_", " ">>}
MCLabel == <<"S">>
=============================================================================
