-------------------------------- MODULE Links --------------------------------
(***************************************************************************)
(* What a share link (link.rs) or an entry of a subscription (sub.rs)      *)
(* becomes: an outbound, or None when it is refused.  Pure operators.      *)
(*                                                                         *)
(* A link is its scheme, user, password, host, port and query parameters;  *)
(* the parts of a vmess link are those of the JSON object it encodes.  A   *)
(* query, a JSON object and a YAML mapping are functions from the keys     *)
(* that are present.  Percent and base64 decoding, aliases of scheme names *)
(* and a node's name are left out.                                         *)
(***************************************************************************)
EXTENDS Outbounds, Filter

get(map, key) == IF key \in DOMAIN map THEN map[key] ELSE None
or_else(o, other) == IF o = None THEN other ELSE o
get_either(map, key, alias) == or_else(get(map, key), get(map, alias))

is_true(o) == o \in {<<"1">>, <<"true">>}
flag(o) == CASE is_true(o) -> TRUE
             [] o \in {<<"0">>, <<"false">>} -> FALSE
             [] OTHER -> None

\* The pieces of a comma-separated value, none if it is absent.
pieces(o) == split_csv(unwrap_or_default(o))
\* A value taken for one host whatever commas it holds.
one_host(o) == IF o = None THEN <<>> ELSE <<o>>

\* An outbound of a protocol, its optional fields None unless given.
Node(protocol, server, port, alter_id, given, tls, transport) ==
  [protocol  |-> protocol, server |-> server, port |-> port,
   alter_id  |-> alter_id,
   fields    |-> [f \in Fields(protocol) |-> get(given, f)],
   tls       |-> tls, transport |-> transport]

TlsTo(server_name, insecure, alpn, fingerprint, reality) ==
  [enabled |-> TRUE, server_name |-> server_name, insecure |-> insecure,
   alpn |-> alpn, fingerprint |-> fingerprint, reality |-> reality]

-----------------------------------------------------------------------------
(* What is parsed: the keys of a mapping that hold numbers and Booleans, the *)
(* others hold texts.  An ss link has a password, if an empty one.           *)

IsMap(map, numbers, flags) ==
  \A key \in DOMAIN map :
    map[key] \in (IF key \in numbers THEN Nat
                  ELSE IF key \in flags THEN BOOLEAN ELSE TextType)

IsLink(l) ==
  /\ l.user \in TextType
  /\ {l.pass, l.host} \subseteq MaybeText
  /\ l.port \in U16 \cup {None}
  /\ IsMap(l.q, {"port", "aid"}, {})
  /\ l.scheme = "ss" => l.pass # None

IsClash(y) ==
  /\ "type" \in DOMAIN y => y.type \in STRING
  /\ IsMap([key \in DOMAIN y \ {"type"} |-> y[key]],
           {"port", "alterId", "alter-id"},
           {"tls", "skip-cert-verify", "permit_without_stream"})

\* The four formats of a body, in the order in which they are tried.
Format(body) ==
  IF "proxies" \in DOMAIN body THEN "proxies"
  ELSE IF "outbounds" \in DOMAIN body THEN "outbounds"
  ELSE IF "servers" \in DOMAIN body THEN "servers" ELSE "links"

IsBody(body) ==
  /\ body[Format(body)] \in Seq(ToSet(body[Format(body)]))
  /\ \A e \in ToSet(body[Format(body)]) :
       CASE Format(body) = "proxies" -> IsClash(e)
         [] Format(body) = "outbounds" -> IsMap(e, {"server_port"}, {})
         [] Format(body) = "servers" -> IsMap(e, {"server_port", "port"}, {})
         [] Format(body) = "links" -> IsLink(e)

-----------------------------------------------------------------------------
(* Share links *)

\* q: the query or the vmess object; hosts: its host parameter as a list.
TransportFrom(q, net, hosts, service_name) ==
  CASE net = <<"ws">> ->
         [type |-> "ws", path |-> unwrap_or(get(q, "path"), Slash),
          host |-> opt(get(q, "host"))]
    [] net = <<"grpc">> ->
         [type |-> "grpc", service_name |-> unwrap_or_default(service_name),
          idle_timeout |-> get_either(q, "idle_timeout", "idleTimeout"),
          permit_without_stream |->
            flag(get_either(q, "permit_without_stream",
                            "permitWithoutStream"))]
    [] net \in {<<"http">>, <<"h2">>} ->
         [type |-> "http", path |-> unwrap_or(get(q, "path"), Slash),
          hosts |-> hosts]
    [] OTHER -> None

tls_from_params(q, host) ==
  IF get(q, "security") \notin {<<"tls">>, <<"reality">>, <<"xtls">>} THEN None
  ELSE TlsTo(unwrap_or(get_either(q, "sni", "peer"), host),
             is_true(get_either(q, "allowInsecure", "insecure")),
             pieces(get(q, "alpn")), opt(get(q, "fp")),
             IF opt(get(q, "pbk")) = None THEN None
             ELSE [public_key |-> q.pbk,
                   short_id   |-> unwrap_or_default(get(q, "sid"))])

transport_from_params(q) ==
  IF get(q, "type") = <<"httpupgrade">>
  THEN [type |-> "httpupgrade", path |-> unwrap_or(get(q, "path"), Slash),
        host |-> opt(get(q, "host"))]
  ELSE TransportFrom(q, get(q, "type"), pieces(get(q, "host")),
                     get_either(q, "serviceName", "service_name"))

parse_vless(l) ==
  IF l.user = Empty THEN None
  ELSE Node("vless", l.host, l.port, 0,
            [uuid |-> l.user, flow |-> opt(get(l.q, "flow"))],
            tls_from_params(l.q, l.host), transport_from_params(l.q))

\* TLS even without security=tls.
parse_trojan(l) ==
  Node("trojan", l.host, l.port, 0, [password |-> l.user],
       or_else(tls_from_params(l.q, l.host),
               [DefaultTls EXCEPT
                  !.server_name = unwrap_or(get(l.q, "sni"), l.host)]),
       transport_from_params(l.q))

parse_vmess(v) ==
  IF get(v, "add") = None \/ get(v, "id") = None THEN None
  ELSE Node("vmess", v.add,
            IF get(v, "port") \in U16 THEN v.port ELSE 443,
            unwrap_or(get(v, "aid"), 0),
            [uuid |-> v.id, security |-> opt(get(v, "scy"))],
            IF get(v, "tls") \notin {<<"tls">>, <<"true">>} THEN None
            ELSE TlsTo(or_else(get_either(v, "sni", "host"), v.add), FALSE,
                       pieces(get(v, "alpn")), opt(get(v, "fp")), None),
            TransportFrom(v, get(v, "net"), one_host(get(v, "host")),
                          get(v, "path")))

parse_ss(l) ==
  Node("shadowsocks", l.host, l.port, 0,
       [method |-> l.user, password |-> l.pass], None, None)

parse_hysteria2(l) ==
  Node("hysteria2", l.host, l.port, 0,
       [password      |-> IF l.user # Empty THEN l.user
                          ELSE unwrap_or_default(l.pass),
        obfs          |-> opt(get(l.q, "obfs")),
        obfs_password |-> get(l.q, "obfs-password")],
       TlsTo(unwrap_or(get(l.q, "sni"), l.host), is_true(get(l.q, "insecure")),
             <<>>, None, None),
       None)

parse_tuic(l) ==
  Node("tuic", l.host, l.port, 0,
       [uuid |-> l.user, password |-> unwrap_or_default(l.pass),
        congestion_control |-> get(l.q, "congestion_control")],
       TlsTo(unwrap_or(get(l.q, "sni"), l.host), FALSE,
             pieces(get(l.q, "alpn")), None, None),
       None)

parse_socks(l) ==
  Node("socks", l.host, l.port, 0,
       [username |-> opt(l.user), password |-> l.pass], None, None)

\* A vmess link has no authority part; the others need a host and a port.
parse_link(l) ==
  IF l.scheme = "vmess" THEN parse_vmess(l.q)
  ELSE IF l.host = None \/ l.port = None THEN None
  ELSE CASE l.scheme = "vless" -> parse_vless(l)
         [] l.scheme = "trojan" -> parse_trojan(l)
         [] l.scheme = "ss" -> parse_ss(l)
         [] l.scheme = "hysteria2" -> parse_hysteria2(l)
         [] l.scheme = "tuic" -> parse_tuic(l)
         [] l.scheme = "socks" -> parse_socks(l)
         [] OTHER -> None

-----------------------------------------------------------------------------
(* Subscription entries *)

clash_network(y) ==
  LET net == get(y, "network")
      path == unwrap_or(get(y, "path"), Slash)
  IN  CASE net = <<"ws">> ->
             [type |-> "ws", path |-> unwrap_or(get(y, "ws-path"), path),
              host |-> get_either(y, "ws-headers.Host", "host")]
        [] net = <<"grpc">> ->
             [type |-> "grpc",
              service_name |-> unwrap_or_default(
                get_either(y, "grpc-service-name", "serviceName")),
              idle_timeout |-> get(y, "idle_timeout"),
              permit_without_stream |-> get(y, "permit_without_stream")]
        [] net \in {<<"h2">>, <<"http">>} ->
             [type |-> "http", path |-> path, hosts |-> one_host(get(y, "host"))]
        [] net = <<"httpupgrade">> ->
             [type |-> "httpupgrade", path |-> path, host |-> get(y, "host")]
        [] OTHER -> None

\* Where a protocol's fields are in a Clash entry.
ClashField(y, protocol, f) ==
  CASE f \in {"security", "method"} -> get(y, "cipher")
    [] f = "obfs_password" -> get(y, "obfs-password")
    [] f = "packet_encoding" -> None
    [] f = "congestion_control" ->
         get_either(y, "congestion-controller", "congestion_control")
    [] OTHER -> get(y, f)

clash_proxy_to_outbound(y) ==
  LET protocol == get(y, "type")
      given == [f \in Fields(protocol) |-> ClashField(y, protocol, f)]
      sni == get_either(y, "servername", "sni")
      insecure == get(y, "skip-cert-verify") = TRUE
      tls(name) == TlsTo(name, insecure, <<>>, None, None)
  IN  IF \/ protocol \notin Protocols
         \/ get(y, "server") = None
         \/ get(y, "port") \notin U16
         \/ \E f \in Required[protocol] : given[f] = None
      THEN None
      ELSE Node(protocol, y.server, y.port,
                IF protocol = "vmess"
                THEN unwrap_or(get_either(y, "alterId", "alter-id"), 0) ELSE 0,
                given,
                CASE protocol \in TlsAlways -> tls(sni)
                  [] protocol \in StreamIn /\ get(y, "tls") = TRUE ->
                       tls(or_else(sni, y.server))
                  [] OTHER -> None,
                IF protocol \in StreamIn THEN clash_network(y) ELSE None)

\* `as u16` keeps the low 16 bits of the port; the raw value keeps them all.
AsU16(n) == n % 65536

singbox_outbound_to_outbound(v) ==
  LET server == unwrap_or_default(get(v, "server"))
      number == unwrap_or(get(v, "server_port"), 0)
  IN  IF get(v, "type") = None \/ server = Empty \/ AsU16(number) = 0 THEN None
      ELSE [protocol |-> "raw", server |-> server, port |-> AsU16(number),
            value |-> number]

sip008_server_to_outbound(v) ==
  LET number == get_either(v, "server_port", "port")
  IN  IF \/ \E key \in {"server", "method", "password"} : get(v, key) = None
         \/ number = None
      THEN None
      ELSE Node("shadowsocks", v.server, AsU16(number), 0,
                [method |-> v.method, password |-> v.password], None, None)

\* An entry of a body that is refused is skipped.
parse_subscription_report(body) ==
  LET list == body[Format(body)]
      parsed(all) ==
        LET nodes == filter(all, ToSet(all) \ {None})
        IN  [nodes |-> nodes, skipped |-> Len(all) - Len(nodes)]
  IN  CASE Format(body) = "proxies" ->
             parsed([i \in DOMAIN list |-> clash_proxy_to_outbound(list[i])])
        [] Format(body) = "outbounds" ->
             parsed([i \in DOMAIN list |->
                       singbox_outbound_to_outbound(list[i])])
        [] Format(body) = "servers" ->
             parsed([i \in DOMAIN list |-> sip008_server_to_outbound(list[i])])
        [] Format(body) = "links" ->
             parsed([i \in DOMAIN list |-> parse_link(list[i])])
=============================================================================
