----------------------------- MODULE MCAndroidRun -----------------------------
(* Small instances of AndroidRun for TLC.  Two channels share a vless link    *)
(* under two names, with a configuration for the core; one has a Telegram     *)
(* proxy.  In the other instance it has a tuic link, which has no such        *)
(* configuration.                                                             *)
EXTENDS AndroidRun, TLC

CONSTANTS a, b, vless, vlessNamed, tuic, tg

PagesMC == a :> <<Junk, vless>> @@ b :> <<tg, vlessNamed>>
PagesOfTuic == a :> <<Junk, vless>> @@ b :> <<tuic, vlessNamed>>
KeysMC == [l \in Links |-> IF l = vlessNamed THEN vless ELSE l]
BehavioursMC == {[l \in Links |-> IF l = tuic THEN "accepts" ELSE "relays"]}
SettingsMC ==
  [first |-> 2, second |-> 1, workers |-> 1, attempts |-> 2, min |-> 2, configs |-> TRUE, proxies |-> TRUE]
EntriesMC == {{b}}
ListsMC == [p1 |-> {a}, p2 |-> {b}]
=============================================================================
