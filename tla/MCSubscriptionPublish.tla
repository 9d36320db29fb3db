------------------------ MODULE MCSubscriptionPublish ------------------------
(* Small instances of SubscriptionPublish for TLC. *)
EXTENDS SubscriptionPublish, TLC

CONSTANTS c1, c2, c3, s1, s2, p1, p2, r1, r2

\* Two calls share each text: a file may be up to date while the other is not.
SharedSubs == c1 :> s1 @@ c2 :> s1 @@ c3 :> s2
SharedProxies == c1 :> p1 @@ c2 :> p2 @@ c3 :> p1
=============================================================================
