---------------------------- MODULE MCCheckerRun ----------------------------
(* Small instances of CheckerRun for TLC: two endpoints tested through Xray *)
(* and one Telegram proxy tested without it.                                *)
EXTENDS CheckerRun, TLC

CONSTANTS x1, x2, m1
=============================================================================
