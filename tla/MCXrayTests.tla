----------------------------- MODULE MCXrayTests -----------------------------
(* A small instance of XrayTests for TLC: two v2ray endpoints at the same    *)
(* time, over two starts of the program, on a machine with a build of the    *)
(* core and on one without.                                                  *)
EXTENDS XrayTests, TLC

CONSTANTS v1, v2, p1, p2

KindMC == [j \in Jobs |-> "v2ray"]

\* One server relays; the other accepts connections and relays nothing.
BehavioursMC == {[j \in Jobs |-> IF j = v1 THEN "tunnel" ELSE "silent"]}
HostsMC == {<<"linux", "x64">>, <<"linux", "armv7">>}
=============================================================================
