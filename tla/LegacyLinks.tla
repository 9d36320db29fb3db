------------------------------ MODULE LegacyLinks ------------------------------
(***************************************************************************)
(* What legacy-python/engine.py makes of a link: the key it is compared by, *)
(* the endpoint the direct checks connect to, the outbound Xray is given,   *)
(* and the link under another name.  A link is the record of what its text  *)
(* or payload says, "" (0 for a port) where it says nothing.                *)
(***************************************************************************)
EXTENDS Naturals

CONSTANTS
  Texts,   \* server names, host headers, credentials, names and details
  Ciphers  \* values of "security" in a vmess payload that are no transport

ASSUME LinkAssumption == "" \in Texts /\ Ciphers \cap {"", "none", "tls", "reality"} = {}

\* The url schemes that have a port of their own, and the rest.
UrlSchemes == {"vless", "trojan", "snell", "hy2", "tuic"}
TelegramSchemes == {"tg-socks", "tg-mtproto"}
Schemes == UrlSchemes \cup {"vmess", "ssr", "ss"} \cup TelegramSchemes
Networks == {"", "tcp", "ws", "grpc", "httpUpgrade", "httpupgrade", "splithttp", "xhttp", "h2", "http"}

Link ==
  [scheme : Schemes, server : Texts, port : Nat, user : Texts, name : Texts,
   readable : BOOLEAN,    \* the base64 payload decodes
   plain : BOOLEAN,       \* ss: method and password are not encoded
   slash : BOOLEAN,       \* ss: a slash between the port and the query
   net : Networks, header : {"", "none", "http"}, host : Texts, path : Texts,
   tls : {"", "none", "tls", "reality"}, cipher : Ciphers \cup {""},
   detail : Texts]        \* sni, alpn, fingerprint and keys

NoEndpoint == [kind |-> "none"]
NoOutbound == [protocol |-> "none"]

-----------------------------------------------------------------------------
Nameless(l) == [l EXCEPT !.name = ""]

\* normalize_config_key: the text up to the name, the whole payload of vmess.
Key(l) == IF l.scheme = "vmess" THEN l ELSE Nameless(l)

Or(a, b) == IF a # "" THEN a ELSE b

\* The keys of a vmess payload that may hold the server, the host header too.
VmessServer(l) == Or(l.server, l.host)

ValidPort(p) == 0 < p /\ p <= 65535

\* urlsplit raises for the others.
UrlFits(p) == p <= 65535

\* u.port or 443.
UrlPort(l) == IF l.port = 0 THEN 443 ELSE l.port

At(kind, protocol, host, port) == [kind |-> kind, protocol |-> protocol, host |-> host, port |-> port]

UrlEndpoint(l) ==
  IF l.server # "" /\ UrlFits(UrlPort(l)) THEN At("v2ray", l.scheme, l.server, UrlPort(l)) ELSE NoEndpoint

VmessEndpoint(l) ==
  IF l.readable /\ VmessServer(l) # "" /\ ValidPort(l.port)
  THEN At("v2ray", "vmess", VmessServer(l), l.port) ELSE NoEndpoint

SsrEndpoint(l) ==
  IF l.readable /\ l.server # "" /\ ValidPort(l.port) THEN At("v2ray", "ssr", l.server, l.port) ELSE NoEndpoint

\* parse_host_port takes all after the colon, a slash included, for the port.
HostPort(l) == l.server # "" /\ ValidPort(l.port) /\ ~l.slash

SsEndpoint(l) ==
  IF (l.plain \/ l.readable) /\ HostPort(l) THEN At("v2ray", "ss", l.server, l.port) ELSE NoEndpoint

TelegramEndpoint(l) ==
  IF l.server # "" /\ ValidPort(l.port)
  THEN At("mtproto", IF l.scheme = "tg-socks" THEN "telegram-socks" ELSE "telegram-mtproto", l.server, l.port)
  ELSE NoEndpoint

\* parse_endpoint.
Endpoint(l) ==
  CASE l.scheme = "vmess" -> VmessEndpoint(l)
    [] l.scheme = "ssr" -> SsrEndpoint(l)
    [] l.scheme = "ss" -> SsEndpoint(l)
    [] l.scheme \in UrlSchemes -> UrlEndpoint(l)
    [] l.scheme \in TelegramSchemes -> TelegramEndpoint(l)

-----------------------------------------------------------------------------
Canonical(net) ==
  CASE net = "httpUpgrade" -> "httpupgrade"
    [] net = "splithttp" -> "xhttp"
    [] net = "h2" -> "http"
    [] OTHER -> net

\* build_stream_settings_from_url: the transport with the settings it knows.
Stream(net, security, header, host, path, detail) ==
  [network  |-> Canonical(net),
   security |-> security,
   detail   |-> IF security \in {"tls", "reality"} THEN detail ELSE "",
   path     |-> IF net = "none" \/ (net = "tcp" /\ header # "http") THEN "" ELSE path,
   host     |-> IF net \in {"none", "grpc"} \/ (net = "tcp" /\ header # "http") THEN "" ELSE host,
   header   |-> IF net = "tcp" THEN Or(header, "none") ELSE "none"]

UrlStream(l) == Stream(Or(l.net, "tcp"), Or(l.tls, "none"), l.header, l.host, l.path, l.detail)

\* "type", the header of v2rayN, stands in for a missing "net", and "security",
\* its cipher, for a missing "tls".
VmessStream(l) ==
  Stream(Or(l.net, Or(l.header, "tcp")), Or(l.tls, Or(l.cipher, "none")), l.header, l.host, l.path, l.detail)

To(protocol, address, port, user, stream) ==
  [protocol |-> protocol, address |-> address, port |-> port, user |-> user, stream |-> stream]

NoStream == [network |-> "none"]

UrlOutbound(l) ==
  IF l.server # "" /\ l.user # "" /\ UrlFits(UrlPort(l))
  THEN To(l.scheme, l.server, UrlPort(l), l.user, UrlStream(l)) ELSE NoOutbound

VmessOutbound(l) ==
  IF l.readable /\ VmessServer(l) # "" /\ l.user # ""
  THEN To("vmess", VmessServer(l), UrlPort(l), l.user, VmessStream(l)) ELSE NoOutbound

\* parse_shadowsocks_share: a plain share without a port gets 8388 here.
SsPort(l) == IF l.port = 0 THEN 8388 ELSE l.port

SsOutbound(l) ==
  IF l.plain /\ l.server # "" /\ l.user # "" /\ UrlFits(l.port)
  THEN To("shadowsocks", l.server, SsPort(l), l.user, NoStream)
  ELSE IF ~l.plain /\ l.readable /\ l.user # "" /\ HostPort(l)
  THEN To("shadowsocks", l.server, l.port, l.user, NoStream) ELSE NoOutbound

\* build_xray_outbound; the other schemes are tested by a connection only.
Outbound(l) ==
  CASE l.scheme \in {"vless", "trojan"} -> UrlOutbound(l)
    [] l.scheme = "vmess" -> VmessOutbound(l)
    [] l.scheme = "ss" -> SsOutbound(l)
    [] OTHER -> NoOutbound

-----------------------------------------------------------------------------
\* Mutant: the query is cut off with the name.
SetNameCut(l, name) == IF l.scheme = "ssr" THEN l ELSE [l EXCEPT !.name = name, !.detail = ""]

\* set_config_display_name: an ssr link is left alone, the others have the part
\* after "#" replaced and vmess its "ps"; that base64 and JSON give back what was
\* put into them is assumed.
SetName(l, name) == IF l.scheme = "ssr" THEN l ELSE [l EXCEPT !.name = name]

\* get_config_display_name: the payload of vmess, the fragment of the others.
GetName(l) == IF l.scheme = "vmess" /\ ~l.readable THEN "" ELSE l.name
=============================================================================
