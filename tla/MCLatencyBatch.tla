--------------------------- MODULE MCLatencyBatch ---------------------------
(* Small instances of LatencyBatch for TLC. *)
EXTENDS LatencyBatch, TLC

CONSTANTS d1, x1, x2, s1, xray, singbox, direct

\* One direct candidate, two for Xray, one for sing-box.
MixedKindOf == d1 :> direct @@ x1 :> xray @@ x2 :> xray @@ s1 :> singbox

\* Two candidates of one runtime.
TwoKindOf == x1 :> xray @@ x2 :> xray
=============================================================================
