---------------------------- MODULE MCLegacySession ----------------------------
(* Small instances of LegacyStages for TLC: two channels, one of them the   *)
(* built-in rank one, whose previews share a link under two names.          *)
EXTENDS LegacyStages, TLC

CONSTANTS a, fav, aVariant, junk

LineNames == [l \in {a, fav, aVariant, junk} |-> CASE l = aVariant -> a [] l = junk -> NoChannel [] OTHER -> l]
DefaultsMC == <<junk, fav, a>>
EntriesMC == {<<a>>, <<aVariant, junk, fav, a>>}
PortablesMC ==
  {[channels |-> Absent, env |-> Absent],
   [channels |-> <<aVariant, a>>, env |-> [Builtin EXCEPT !.main = {a}, !.attempts = 2]]}

Base ==
  [scheme |-> "vless", server |-> "s", port |-> 0, user |-> "u", name |-> "x", readable |-> TRUE,
   plain |-> FALSE, slash |-> FALSE, net |-> "ws", header |-> "", host |-> "h", path |-> "",
   tls |-> "tls", cipher |-> "", detail |-> "d"]
Renamed == [Base EXCEPT !.name = "y"]
Vmess == [Base EXCEPT !.scheme = "vmess", !.port = 80, !.cipher = "auto", !.tls = "", !.net = ""]
Slashed == [Base EXCEPT !.scheme = "ss", !.port = 80, !.slash = TRUE]
Proxy == [Base EXCEPT !.scheme = "tg-mtproto", !.port = 80, !.server = "t"]
PagesMC == [c \in Channels |-> IF c = a THEN <<Base, Vmess, Proxy>> ELSE <<Proxy, Renamed, Slashed>>]

TextsMC == {"", "s", "t", "u", "h", "d", "x", "y", "tag-1", "tag-2", "tag-3", "tag-4"}
TagsMC == <<"tag-1", "tag-2", "tag-3", "tag-4">>
=============================================================================
