----------------------------- MODULE MCRetryQueue -----------------------------
(* A small instance of RetryQueue for TLC: two names of repositories. *)
EXTENDS RetryQueue, TLC

CONSTANTS r1, r2
=============================================================================
