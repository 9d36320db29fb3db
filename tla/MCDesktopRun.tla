---------------------------- MODULE MCDesktopRun ----------------------------
(* A small instance of DesktopRun for TLC: two channels that share links,   *)
(* one of them in both lists, and a line that names no public channel.      *)
EXTENDS DesktopRun, TLC

CONSTANTS a, b, k1, m1, bad

ListOne == <<"a">>
ListTwo == <<"invite", "A", "b">>
NamesOfLines == "a" :> a @@ "A" :> a @@ "b" :> b @@ "invite" :> Invalid
Pages == a :> <<k1, m1>> @@ b :> <<bad, k1, m1>>
WithToken == {[Defaults EXCEPT !.token = TRUE]}
=============================================================================
