---------------------------- MODULE LinksProofs ----------------------------
(***************************************************************************)
(* What an import makes of a link or of a subscription's answer, if it     *)
(* makes anything, is an outbound of model.rs: every parser fills in the   *)
(* fields of its protocol, whatever keys were there.                       *)
(***************************************************************************)
EXTENDS Links, ListProofs

-----------------------------------------------------------------------------
(* What an import makes is an outbound *)

LEMMA GetIs ==
  ASSUME NEW map, NEW numbers, NEW flags, IsMap(map, numbers, flags), NEW key
  PROVE  /\ key \in numbers => get(map, key) \in Nat \cup {None}
         /\ key \in flags \ numbers => get(map, key) \in BOOLEAN \cup {None}
         /\ key \notin numbers \cup flags => get(map, key) \in MaybeText
  BY DEF IsMap, get, MaybeText

LEMMA EmptyIsText == Empty \in TextType /\ Slash \in TextType
  BY PiecesAssumption DEF Empty, Slash, TextType

LEMMA OptionTypes ==
  ASSUME NEW o \in MaybeText
  PROVE  /\ opt(o) \in GivenText
         /\ unwrap_or_default(o) \in TextType
         /\ flag(o) \in BOOLEAN \cup {None}
         /\ is_true(o) \in BOOLEAN
         /\ one_host(o) \in Seq(TextType)
<1>1. None \notin TextType /\ None # Empty
  BY NoneAssumption, EmptyIsText
<1>2. opt(o) \in GivenText
  BY <1>1 DEF opt, GivenText, MaybeText
<1>3. one_host(o) \in Seq(TextType)
  BY <1>1 DEF one_host, MaybeText
<1>4. QED
  BY <1>1, <1>2, <1>3, EmptyIsText
     DEF unwrap_or_default, unwrap_or, flag, is_true, MaybeText

LEMMA OrTypes ==
  ASSUME NEW o \in MaybeText
  PROVE  /\ \A other \in MaybeText : or_else(o, other) \in MaybeText
         /\ \A other \in TextType : /\ unwrap_or(o, other) \in TextType
                                   /\ or_else(o, other) \in TextType
  BY DEF unwrap_or, or_else, MaybeText

LEMMA PiecesTypes ==
  ASSUME NEW text \in TextType
  PROVE  split_csv(text) \in PiecesType
<1>1. \A i \in DOMAIN text : <<text[i]>> \in [1 .. 1 -> Pieces]
  BY DEF TextType
<1>2. DOMAIN text = 1 .. Len(text) /\ Len(text) \in Nat
  BY DEF TextType
<1>3. QED
  BY <1>1, <1>2 DEF split_csv, PiecesType

LEMMA PiecesAreTexts == PiecesType \subseteq Seq(TextType)
<1>1. ASSUME NEW piece \in [1 .. 1 -> Pieces]
      PROVE  piece \in TextType
  <2>1. piece = [i \in 1 .. 1 |-> piece[i]]
    OBVIOUS
  <2>2. [i \in 1 .. 1 |-> piece[i]] \in Seq(Pieces)
    OBVIOUS
  <2>3. QED
    BY <2>1, <2>2 DEF TextType
<1>2. QED
  BY <1>1 DEF PiecesType

LEMMA TlsToType ==
  ASSUME NEW server_name \in MaybeText, NEW insecure \in BOOLEAN,
         NEW alpn \in PiecesType, NEW fingerprint \in GivenText,
         NEW reality \in RealityType \cup {None}
  PROVE  TlsTo(server_name, insecure, alpn, fingerprint, reality) \in TlsType
  BY DEF TlsTo, TlsType

LEMMA NodeIsOutbound ==
  ASSUME NEW p \in Protocols, NEW server \in TextType, NEW port \in U16,
         NEW alter_id \in Nat, NEW given, NEW tls, NEW transport,
         p # "vmess" => alter_id = 0,
         \A f \in Fields(p) : get(given, f) \in MaybeText,
         \A f \in Required[p] : get(given, f) # None,
         tls # None => p \in TlsAlways \cup TlsIn /\ tls \in TlsType,
         transport # None => p \in StreamIn /\ transport \in TransportType
  PROVE  IsOutbound(Node(p, server, port, alter_id, given, tls, transport))
<1>. DEFINE v == [f \in Fields(p) |-> get(given, f)]
<1>1. v \in {u \in [Fields(p) -> MaybeText] : \A f \in Required[p] : u[f] # None}
  BY DEF Fields
<1>. HIDE DEF v
<1>2. [protocol |-> p, server |-> server, port |-> port, alter_id |-> alter_id,
       fields |-> v, tls |-> tls, transport |-> transport] \in OutboundType(p)
  BY <1>1 DEF OutboundType
<1>3. QED
  BY <1>2 DEF Node, IsOutbound, v

\* The keys of a query; those of a vmess object are the same.
IsQuery(q) == IsMap(q, {"port", "aid"}, {})

LEMMA QueryIs ==
  ASSUME NEW q, IsQuery(q), NEW key, key \notin {"port", "aid"}
  PROVE  get(q, key) \in MaybeText
  BY GetIs DEF IsQuery

LEMMA EitherIs ==
  ASSUME NEW q, IsQuery(q), NEW key, NEW alias,
         {key, alias} \cap {"port", "aid"} = {}
  PROVE  get_either(q, key, alias) \in MaybeText
<1>1. get(q, key) \in MaybeText /\ get(q, alias) \in MaybeText
  BY QueryIs
<1>2. QED
  BY <1>1, OrTypes DEF get_either

LEMMA TlsFromParamsIs ==
  ASSUME NEW q, IsQuery(q), NEW host \in TextType
  PROVE  tls_from_params(q, host) \in TlsType \cup {None}
<1>. DEFINE server_name == unwrap_or(get_either(q, "sni", "peer"), host)
            insecure == is_true(get_either(q, "allowInsecure", "insecure"))
            alpn == pieces(get(q, "alpn"))
            fingerprint == opt(get(q, "fp"))
            reality == IF opt(get(q, "pbk")) = None THEN None
                       ELSE [public_key |-> q.pbk,
                             short_id   |-> unwrap_or_default(get(q, "sid"))]
<1>1. server_name \in MaybeText
  BY EitherIs, OrTypes DEF MaybeText
<1>2. insecure \in BOOLEAN
  BY DEF is_true
<1>3. alpn \in PiecesType
  BY QueryIs, OptionTypes, PiecesTypes DEF pieces
<1>4. fingerprint \in GivenText
  BY QueryIs, OptionTypes
<1>5. reality \in RealityType \cup {None}
  <2>. SUFFICES ASSUME opt(get(q, "pbk")) # None
                PROVE  [public_key |-> q.pbk,
                        short_id   |-> unwrap_or_default(get(q, "sid"))]
                         \in RealityType
    OBVIOUS
  <2>1. get(q, "pbk") \in MaybeText /\ get(q, "pbk") \notin {None, Empty}
    BY QueryIs DEF opt
  <2>2. q.pbk \in TextType \ {Empty}
    BY <2>1 DEF get, MaybeText
  <2>3. unwrap_or_default(get(q, "sid")) \in TextType
    BY QueryIs, OptionTypes
  <2>4. QED
    BY <2>2, <2>3 DEF RealityType
<1>6. tls_from_params(q, host) \in
        {None, TlsTo(server_name, insecure, alpn, fingerprint, reality)}
  BY DEF tls_from_params
<1>. HIDE DEF server_name, insecure, alpn, fingerprint, reality
<1>7. QED
  BY <1>1, <1>2, <1>3, <1>4, <1>5, <1>6, TlsToType

LEMMA WsIs ==
  ASSUME NEW kind \in {"ws", "httpupgrade"}, NEW path \in TextType,
         NEW host \in MaybeText
  PROVE  [type |-> kind, path |-> path, host |-> host] \in TransportType
  BY DEF TransportType

LEMMA GrpcIs ==
  ASSUME NEW service \in TextType, NEW idle_timeout \in MaybeText,
         NEW permit \in BOOLEAN \cup {None}
  PROVE  [type |-> "grpc", service_name |-> service,
          idle_timeout |-> idle_timeout, permit_without_stream |-> permit]
           \in TransportType
  BY DEF TransportType

LEMMA HttpIs ==
  ASSUME NEW path \in TextType, NEW hosts \in Seq(TextType)
  PROVE  [type |-> "http", path |-> path, hosts |-> hosts] \in TransportType
  BY DEF TransportType

LEMMA TransportFromIs ==
  ASSUME NEW q, IsQuery(q), NEW net, NEW hosts \in Seq(TextType),
         NEW service_name \in MaybeText
  PROVE  TransportFrom(q, net, hosts, service_name) \in TransportType \cup {None}
<1>. DEFINE path == unwrap_or(get(q, "path"), Slash)
            host == opt(get(q, "host"))
            service == unwrap_or_default(service_name)
            idle_timeout == get_either(q, "idle_timeout", "idleTimeout")
            permit == flag(get_either(q, "permit_without_stream",
                                      "permitWithoutStream"))
<1>1. path \in TextType
  BY QueryIs, OrTypes, EmptyIsText
<1>2. /\ host \in MaybeText /\ service \in TextType
      /\ idle_timeout \in MaybeText /\ permit \in BOOLEAN \cup {None}
  BY QueryIs, EitherIs, OptionTypes DEF GivenText
<1>3. TransportFrom(q, net, hosts, service_name) \in
        {[type |-> "ws", path |-> path, host |-> host],
         [type |-> "grpc", service_name |-> service,
          idle_timeout |-> idle_timeout, permit_without_stream |-> permit],
         [type |-> "http", path |-> path, hosts |-> hosts], None}
  BY DEF TransportFrom
<1>. HIDE DEF path, host, service, idle_timeout, permit
<1>4. /\ [type |-> "ws", path |-> path, host |-> host] \in TransportType
      /\ [type |-> "http", path |-> path, hosts |-> hosts] \in TransportType
  BY <1>1, <1>2, WsIs, HttpIs
<1>5. [type |-> "grpc", service_name |-> service,
       idle_timeout |-> idle_timeout, permit_without_stream |-> permit]
        \in TransportType
  BY <1>2, GrpcIs
<1>6. QED
  BY <1>3, <1>4, <1>5

LEMMA TransportFromParamsIs ==
  ASSUME NEW q, IsQuery(q)
  PROVE  transport_from_params(q) \in TransportType \cup {None}
<1>1. unwrap_or(get(q, "path"), Slash) \in TextType
  BY QueryIs, OrTypes, EmptyIsText
<1>2. opt(get(q, "host")) \in MaybeText
  BY QueryIs, OptionTypes DEF GivenText
<1>3. [type |-> "httpupgrade", path |-> unwrap_or(get(q, "path"), Slash),
       host |-> opt(get(q, "host"))] \in TransportType
  BY <1>1, <1>2, WsIs
<1>4. pieces(get(q, "host")) \in Seq(TextType)
  BY QueryIs, OptionTypes, PiecesTypes, PiecesAreTexts DEF pieces
<1>5. get_either(q, "serviceName", "service_name") \in MaybeText
  BY EitherIs
<1>6. TransportFrom(q, get(q, "type"), pieces(get(q, "host")),
                    get_either(q, "serviceName", "service_name"))
        \in TransportType \cup {None}
  BY <1>4, <1>5, TransportFromIs
<1>7. QED
  BY <1>3, <1>6 DEF transport_from_params

-----------------------------------------------------------------------------
(* Share links *)

LEMMA VlessIs ==
  ASSUME NEW l, IsLink(l), l.host # None, l.port # None, parse_vless(l) # None
  PROVE  IsOutbound(parse_vless(l))
<1>. DEFINE given == [uuid |-> l.user, flow |-> opt(get(l.q, "flow"))]
            tls == tls_from_params(l.q, l.host)
            transport == transport_from_params(l.q)
<1>1. parse_vless(l) = Node("vless", l.host, l.port, 0, given, tls, transport)
  BY DEF parse_vless
<1>2. /\ IsQuery(l.q) /\ l.user \in TextType /\ l.host \in TextType
      /\ l.port \in U16
  BY DEF IsLink, IsQuery, MaybeText
<1>3. /\ tls \in TlsType \cup {None}
      /\ transport \in TransportType \cup {None}
  BY <1>2, TlsFromParamsIs, TransportFromParamsIs
<1>4. \A f \in Fields("vless") : get(given, f) \in MaybeText
  <2>1. opt(get(l.q, "flow")) \in MaybeText
    BY <1>2, QueryIs, OptionTypes DEF GivenText
  <2>2. QED
    BY <1>2, <2>1 DEF Fields, Required, Optional, get, MaybeText
<1>5. get(given, "uuid") # None
  BY <1>2, NoneAssumption DEF get
<1>. HIDE DEF given, tls, transport
<1>6. QED
  BY <1>1, <1>2, <1>3, <1>4, <1>5, NodeIsOutbound
     DEF Protocols, Required, StreamIn, TlsIn

LEMMA TrojanIs ==
  ASSUME NEW l, IsLink(l), l.host # None, l.port # None
  PROVE  IsOutbound(parse_trojan(l))
<1>. DEFINE given == [password |-> l.user]
            name == unwrap_or(get(l.q, "sni"), l.host)
            default == [DefaultTls EXCEPT !.server_name = name]
            tls == or_else(tls_from_params(l.q, l.host), default)
            transport == transport_from_params(l.q)
<1>1. parse_trojan(l) = Node("trojan", l.host, l.port, 0, given, tls, transport)
  BY DEF parse_trojan
<1>2. /\ IsQuery(l.q) /\ l.user \in TextType /\ l.host \in TextType
      /\ l.port \in U16
  BY DEF IsLink, IsQuery, MaybeText
<1>3. default \in TlsType
  <2>1. name \in MaybeText
    BY <1>2, QueryIs, OrTypes DEF MaybeText
  <2>2. None \in GivenText
    BY NoneAssumption, EmptyIsText DEF GivenText, MaybeText
  <2>3. <<>> \in PiecesType
    BY DEF PiecesType
  <2>. HIDE DEF name
  <2>4. DefaultTls \in TlsType
    <3>1. TlsTo(None, FALSE, <<>>, None, None) \in TlsType
      BY <2>2, <2>3, TlsToType DEF MaybeText
    <3>2. QED
      BY <3>1 DEF DefaultTls, TlsTo
  <2>5. QED
    BY <2>1, <2>4 DEF TlsType
<1>4. tls \in TlsType /\ transport \in TransportType \cup {None}
  BY <1>2, <1>3, TlsFromParamsIs, TransportFromParamsIs DEF or_else
<1>5. \A f \in Fields("trojan") : get(given, f) \in MaybeText
  BY <1>2 DEF Fields, Required, Optional, get, MaybeText
<1>6. get(given, "password") # None
  BY <1>2, NoneAssumption DEF get
<1>. HIDE DEF given, tls, transport
<1>7. QED
  BY <1>1, <1>2, <1>4, <1>5, <1>6, NodeIsOutbound
     DEF Protocols, Required, StreamIn, TlsIn

LEMMA VmessIs ==
  ASSUME NEW v, IsQuery(v), parse_vmess(v) # None
  PROVE  IsOutbound(parse_vmess(v))
<1>. DEFINE port == IF get(v, "port") \in U16 THEN v.port ELSE 443
            alter_id == unwrap_or(get(v, "aid"), 0)
            given == [uuid |-> v.id, security |-> opt(get(v, "scy"))]
            name == or_else(get_either(v, "sni", "host"), v.add)
            tls == IF get(v, "tls") \notin {<<"tls">>, <<"true">>} THEN None
                   ELSE TlsTo(name, FALSE, pieces(get(v, "alpn")),
                              opt(get(v, "fp")), None)
            transport == TransportFrom(v, get(v, "net"),
                                       one_host(get(v, "host")), get(v, "path"))
<1>1. /\ parse_vmess(v) =
           Node("vmess", v.add, port, alter_id, given, tls, transport)
      /\ get(v, "add") # None /\ get(v, "id") # None
  BY DEF parse_vmess
<1>2. v.add \in TextType /\ v.id \in TextType
  <2>1. get(v, "add") \in MaybeText /\ get(v, "id") \in MaybeText
    BY QueryIs
  <2>2. QED
    BY <1>1, <2>1 DEF get, MaybeText
<1>3. port \in U16
  <2>1. None \notin U16 /\ 443 \in U16
    <3>1. U16 \subseteq Nat /\ 443 \in U16
      BY DEF U16
    <3>2. QED
      BY <3>1, NoneAssumption
  <2>2. get(v, "port") \in U16 => get(v, "port") = v.port
    BY <2>1 DEF get
  <2>3. QED
    BY <2>1, <2>2
<1>4. alter_id \in Nat
  <2>1. get(v, "aid") \in Nat \cup {None}
    BY GetIs DEF IsQuery
  <2>2. QED
    BY <2>1 DEF unwrap_or
<1>5. tls \in TlsType \cup {None}
  <2>1. name \in MaybeText
    BY <1>2, EitherIs, OrTypes DEF MaybeText
  <2>2. pieces(get(v, "alpn")) \in PiecesType /\ opt(get(v, "fp")) \in GivenText
    BY QueryIs, OptionTypes, PiecesTypes DEF pieces
  <2>. HIDE DEF name
  <2>3. QED
    BY <2>1, <2>2, TlsToType
<1>6. transport \in TransportType \cup {None}
  <2>1. one_host(get(v, "host")) \in Seq(TextType) /\ get(v, "path") \in MaybeText
    BY QueryIs, OptionTypes
  <2>2. QED
    BY <2>1, TransportFromIs
<1>7. \A f \in Fields("vmess") : get(given, f) \in MaybeText
  <2>1. opt(get(v, "scy")) \in MaybeText
    BY QueryIs, OptionTypes DEF GivenText
  <2>2. QED
    BY <1>2, <2>1 DEF Fields, Required, Optional, get, MaybeText
<1>8. get(given, "uuid") # None
  BY <1>2, NoneAssumption DEF get
<1>. HIDE DEF port, alter_id, given, tls, transport
<1>9. QED
  BY <1>1, <1>2, <1>3, <1>4, <1>5, <1>6, <1>7, <1>8, NodeIsOutbound
     DEF Protocols, Required, StreamIn, TlsIn

LEMMA NoneIsAbsent ==
  /\ None \in MaybeText /\ None \in GivenText /\ <<>> \in PiecesType
  /\ None \notin TextType /\ None \notin TlsType /\ None \notin TransportType
  BY NoneAssumption, EmptyIsText DEF MaybeText, GivenText, PiecesType

LEMMA ShadowsocksIs ==
  ASSUME NEW server \in TextType, NEW port \in U16,
         NEW method \in TextType, NEW password \in TextType
  PROVE  IsOutbound(Node("shadowsocks", server, port, 0,
                         [method |-> method, password |-> password],
                         None, None))
<1>. DEFINE given == [method |-> method, password |-> password]
<1>1. \A f \in Fields("shadowsocks") :
        get(given, f) \in MaybeText /\ get(given, f) # None
  BY NoneIsAbsent DEF Fields, Required, Optional, get, MaybeText
<1>2. Required["shadowsocks"] \subseteq Fields("shadowsocks")
  BY DEF Fields
<1>. HIDE DEF given
<1>3. /\ \A f \in Fields("shadowsocks") : get(given, f) \in MaybeText
      /\ \A f \in Required["shadowsocks"] : get(given, f) # None
      /\ "shadowsocks" \in Protocols
  BY <1>1, <1>2 DEF Protocols
<1>4. QED
  BY <1>3, NodeIsOutbound DEF given

LEMMA Hysteria2Is ==
  ASSUME NEW l, IsLink(l), l.host # None, l.port # None
  PROVE  IsOutbound(parse_hysteria2(l))
<1>. DEFINE given ==
              [password      |-> IF l.user # Empty THEN l.user
                                 ELSE unwrap_or_default(l.pass),
               obfs          |-> opt(get(l.q, "obfs")),
               obfs_password |-> get(l.q, "obfs-password")]
            name == unwrap_or(get(l.q, "sni"), l.host)
            insecure == is_true(get(l.q, "insecure"))
            tls == TlsTo(name, insecure, <<>>, None, None)
<1>1. parse_hysteria2(l) = Node("hysteria2", l.host, l.port, 0, given, tls, None)
  BY DEF parse_hysteria2
<1>2. /\ IsQuery(l.q) /\ l.user \in TextType /\ l.host \in TextType
      /\ l.port \in U16 /\ l.pass \in MaybeText
  BY DEF IsLink, IsQuery, MaybeText
<1>3. tls \in TlsType
  <2>1. name \in MaybeText /\ insecure \in BOOLEAN
    BY <1>2, QueryIs, OrTypes DEF MaybeText, is_true
  <2>. HIDE DEF name, insecure
  <2>2. QED
    BY <2>1, NoneIsAbsent, TlsToType
<1>4. given.password \in TextType
  BY <1>2, OptionTypes
<1>5. \A f \in Fields("hysteria2") : get(given, f) \in MaybeText
  <2>1. given.obfs \in MaybeText /\ given.obfs_password \in MaybeText
    BY <1>2, QueryIs, OptionTypes DEF GivenText
  <2>2. DOMAIN given = {"password", "obfs", "obfs_password"}
    OBVIOUS
  <2>. HIDE DEF given
  <2>3. QED
    BY <1>4, <2>1, <2>2 DEF Fields, Required, Optional, get, MaybeText
<1>6. get(given, "password") # None
  BY <1>4, NoneIsAbsent DEF get
<1>. HIDE DEF given, tls
<1>7. QED
  BY <1>1, <1>2, <1>3, <1>5, <1>6, NodeIsOutbound
     DEF Protocols, Required, TlsAlways

LEMMA TuicIs ==
  ASSUME NEW l, IsLink(l), l.host # None, l.port # None
  PROVE  IsOutbound(parse_tuic(l))
<1>. DEFINE given ==
              [uuid |-> l.user, password |-> unwrap_or_default(l.pass),
               congestion_control |-> get(l.q, "congestion_control")]
            name == unwrap_or(get(l.q, "sni"), l.host)
            alpn == pieces(get(l.q, "alpn"))
            tls == TlsTo(name, FALSE, alpn, None, None)
<1>1. parse_tuic(l) = Node("tuic", l.host, l.port, 0, given, tls, None)
  BY DEF parse_tuic
<1>2. /\ IsQuery(l.q) /\ l.user \in TextType /\ l.host \in TextType
      /\ l.port \in U16 /\ l.pass \in MaybeText
  BY DEF IsLink, IsQuery, MaybeText
<1>3. tls \in TlsType
  <2>1. name \in MaybeText
    BY <1>2, QueryIs, OrTypes DEF MaybeText
  <2>2. alpn \in PiecesType
    BY <1>2, QueryIs, OptionTypes, PiecesTypes DEF pieces
  <2>. HIDE DEF name, alpn
  <2>3. QED
    BY <2>1, <2>2, NoneIsAbsent, TlsToType
<1>4. given.password \in TextType /\ given.uuid \in TextType
  BY <1>2, OptionTypes
<1>5. given.congestion_control \in MaybeText
  BY <1>2, QueryIs
<1>6. DOMAIN given = {"uuid", "password", "congestion_control"}
  OBVIOUS
<1>. HIDE DEF given, tls
<1>7. /\ \A f \in Fields("tuic") : get(given, f) \in MaybeText
      /\ \A f \in Required["tuic"] : get(given, f) # None
  BY <1>4, <1>5, <1>6, NoneIsAbsent DEF Fields, Required, Optional, get, MaybeText
<1>8. QED
  BY <1>1, <1>2, <1>3, <1>7, NodeIsOutbound DEF Protocols, TlsAlways

LEMMA SocksIs ==
  ASSUME NEW l, IsLink(l), l.host # None, l.port # None
  PROVE  IsOutbound(parse_socks(l))
<1>. DEFINE given == [username |-> opt(l.user), password |-> l.pass]
<1>1. parse_socks(l) = Node("socks", l.host, l.port, 0, given, None, None)
  BY DEF parse_socks
<1>2. /\ l.user \in MaybeText /\ l.host \in TextType
      /\ l.port \in U16 /\ l.pass \in MaybeText
  BY DEF IsLink, MaybeText
<1>3. given.username \in MaybeText /\ given.password \in MaybeText
  BY <1>2, OptionTypes DEF GivenText
<1>4. DOMAIN given = {"username", "password"}
  OBVIOUS
<1>. HIDE DEF given
<1>5. /\ \A f \in Fields("socks") : get(given, f) \in MaybeText
      /\ \A f \in Required["socks"] : get(given, f) # None
  BY <1>3, <1>4 DEF Fields, Required, Optional, get
<1>6. QED
  BY <1>1, <1>2, <1>5, NodeIsOutbound DEF Protocols

\* A link that is not refused is an outbound.
LEMMA ParsedLink ==
  ASSUME NEW l, IsLink(l), parse_link(l) # None
  PROVE  IsOutbound(parse_link(l))
<1>1. CASE l.scheme = "vmess"
  BY <1>1, VmessIs DEF parse_link, IsLink, IsQuery
<1>2. CASE l.scheme # "vmess"
  <2>1. l.host # None /\ l.port # None
    BY <1>2 DEF parse_link
  <2>2. CASE l.scheme = "vless"
    BY <2>1, <2>2, VlessIs DEF parse_link
  <2>3. CASE l.scheme = "trojan"
    BY <2>1, <2>3, TrojanIs DEF parse_link
  <2>4. CASE l.scheme = "ss"
    BY <2>1, <2>4, ShadowsocksIs DEF parse_link, parse_ss, IsLink, MaybeText
  <2>5. CASE l.scheme = "hysteria2"
    BY <2>1, <2>5, Hysteria2Is DEF parse_link
  <2>6. CASE l.scheme = "tuic"
    BY <2>1, <2>6, TuicIs DEF parse_link
  <2>7. CASE l.scheme = "socks"
    BY <2>1, <2>7, SocksIs DEF parse_link
  <2>8. QED
    BY <1>2, <2>1, <2>2, <2>3, <2>4, <2>5, <2>6, <2>7 DEF parse_link
<1>3. QED
  BY <1>1, <1>2

-----------------------------------------------------------------------------
(* Subscription entries *)

\* The keys of a Clash entry by what they hold.
ClashNumbers == {"port", "alterId", "alter-id"}
ClashFlags == {"tls", "skip-cert-verify", "permit_without_stream"}

LEMMA ClashIs ==
  ASSUME NEW y, IsClash(y)
  PROVE  /\ \A key : key \notin ClashNumbers \cup ClashFlags \cup {"type"} =>
                      get(y, key) \in MaybeText
         /\ \A key \in ClashNumbers : get(y, key) \in Nat \cup {None}
         /\ \A key \in ClashFlags : get(y, key) \in BOOLEAN \cup {None}
<1>. DEFINE z == [key \in DOMAIN y \ {"type"} |-> y[key]]
<1>1. IsMap(z, ClashNumbers, ClashFlags)
  BY DEF IsClash, ClashNumbers, ClashFlags
<1>2. \A key : key # "type" => get(y, key) = get(z, key)
  BY DEF get
<1>3. ClashNumbers \cap ClashFlags = {} /\ "type" \notin ClashNumbers \cup ClashFlags
  BY DEF ClashNumbers, ClashFlags
<1>. HIDE DEF z
<1>4. ASSUME NEW key, key \notin ClashNumbers \cup ClashFlags \cup {"type"}
      PROVE  get(y, key) \in MaybeText
  BY <1>1, <1>2, <1>4, GetIs
<1>5. ASSUME NEW key \in ClashNumbers
      PROVE  get(y, key) \in Nat \cup {None}
  BY <1>1, <1>2, <1>3, GetIs
<1>6. ASSUME NEW key \in ClashFlags
      PROVE  get(y, key) \in BOOLEAN \cup {None}
  BY <1>1, <1>2, <1>3, GetIs
<1>7. QED
  BY <1>4, <1>5, <1>6

LEMMA ClashEitherIs ==
  ASSUME NEW y, IsClash(y), NEW key, NEW alias,
         {key, alias} \cap (ClashNumbers \cup ClashFlags \cup {"type"}) = {}
  PROVE  get_either(y, key, alias) \in MaybeText
<1>1. get(y, key) \in MaybeText /\ get(y, alias) \in MaybeText
  BY ClashIs
<1>2. QED
  BY <1>1, OrTypes DEF get_either

LEMMA ClashNetworkIs ==
  ASSUME NEW y, IsClash(y)
  PROVE  clash_network(y) \in TransportType \cup {None}
<1>. DEFINE path == unwrap_or(get(y, "path"), Slash)
            ws_path == unwrap_or(get(y, "ws-path"), path)
            ws_host == get_either(y, "ws-headers.Host", "host")
            service == unwrap_or_default(
                         get_either(y, "grpc-service-name", "serviceName"))
            idle_timeout == get(y, "idle_timeout")
            permit == get(y, "permit_without_stream")
            host == get(y, "host")
<1>. USE DEF ClashNumbers, ClashFlags
<1>1. path \in TextType
  BY ClashIs, OrTypes, EmptyIsText
<1>2. ws_path \in TextType
  <2>1. get(y, "ws-path") \in MaybeText
    BY ClashIs
  <2>2. QED
    BY <1>1, <2>1, OrTypes
<1>3. ws_host \in MaybeText /\ service \in TextType
  BY ClashEitherIs, OptionTypes
<1>4. /\ idle_timeout \in MaybeText /\ permit \in BOOLEAN \cup {None}
      /\ host \in MaybeText /\ one_host(host) \in Seq(TextType)
  BY ClashIs, OptionTypes
<1>5. clash_network(y) \in
        {[type |-> "ws", path |-> ws_path, host |-> ws_host],
         [type |-> "grpc", service_name |-> service,
          idle_timeout |-> idle_timeout, permit_without_stream |-> permit],
         [type |-> "http", path |-> path, hosts |-> one_host(host)],
         [type |-> "httpupgrade", path |-> path, host |-> host], None}
  BY DEF clash_network
<1>. HIDE DEF path, ws_path, ws_host, service, idle_timeout, permit, host
<1>6. /\ [type |-> "ws", path |-> ws_path, host |-> ws_host] \in TransportType
      /\ [type |-> "httpupgrade", path |-> path, host |-> host] \in TransportType
      /\ [type |-> "http", path |-> path, hosts |-> one_host(host)]
           \in TransportType
  BY <1>1, <1>2, <1>3, <1>4, WsIs, HttpIs
<1>7. [type |-> "grpc", service_name |-> service,
       idle_timeout |-> idle_timeout, permit_without_stream |-> permit]
        \in TransportType
  BY <1>3, <1>4, GrpcIs
<1>8. QED
  BY <1>5, <1>6, <1>7

LEMMA FieldNames ==
  ASSUME NEW p \in Protocols
  PROVE  /\ Fields(p) \subseteq
              {"uuid", "password", "method", "flow", "packet_encoding",
               "security", "obfs", "obfs_password", "congestion_control",
               "username"}
         /\ Required[p] \subseteq Fields(p)
  BY DEF Protocols, Fields, Required, Optional

LEMMA ClashFieldIs ==
  ASSUME NEW y, IsClash(y), NEW p \in Protocols, NEW f \in Fields(p)
  PROVE  ClashField(y, p, f) \in MaybeText
<1>. USE DEF ClashNumbers, ClashFlags
<1>1. /\ get(y, "cipher") \in MaybeText /\ get(y, "obfs-password") \in MaybeText
      /\ get_either(y, "congestion-controller", "congestion_control")
           \in MaybeText
      /\ None \in MaybeText
  BY ClashIs, ClashEitherIs, NoneIsAbsent
<1>2. get(y, f) \in MaybeText
  BY ClashIs, FieldNames
<1>3. QED
  BY <1>1, <1>2 DEF ClashField

LEMMA ClashProxyIs ==
  ASSUME NEW y, IsClash(y), clash_proxy_to_outbound(y) # None
  PROVE  IsOutbound(clash_proxy_to_outbound(y))
<1>. USE DEF ClashNumbers, ClashFlags
<1>. DEFINE p == get(y, "type")
            given == [f \in Fields(p) |-> ClashField(y, p, f)]
            sni == get_either(y, "servername", "sni")
            insecure == get(y, "skip-cert-verify") = TRUE
            named(name) == TlsTo(name, insecure, <<>>, None, None)
            alter_id ==
              IF p = "vmess"
              THEN unwrap_or(get_either(y, "alterId", "alter-id"), 0) ELSE 0
            tls == CASE p \in TlsAlways -> named(sni)
                     [] p \in StreamIn /\ get(y, "tls") = TRUE ->
                          named(or_else(sni, y.server))
                     [] OTHER -> None
            transport == IF p \in StreamIn THEN clash_network(y) ELSE None
<1>1. /\ p \in Protocols /\ get(y, "server") # None /\ get(y, "port") \in U16
      /\ \A f \in Required[p] : given[f] # None
      /\ clash_proxy_to_outbound(y) =
           Node(p, y.server, y.port, alter_id, given, tls, transport)
  BY DEF clash_proxy_to_outbound
<1>2. y.server \in TextType
  <2>1. get(y, "server") \in MaybeText
    BY ClashIs
  <2>2. QED
    BY <1>1, <2>1 DEF get, MaybeText
<1>3. y.port \in U16
  <2>1. U16 \subseteq Nat
    BY DEF U16
  <2>2. None \notin U16
    BY <2>1, NoneAssumption
  <2>3. QED
    BY <1>1, <2>2 DEF get
<1>4. alter_id \in Nat /\ (p # "vmess" => alter_id = 0)
  <2>1. get(y, "alterId") \in Nat \cup {None} /\ get(y, "alter-id") \in Nat \cup {None}
    BY ClashIs
  <2>2. QED
    BY <2>1 DEF get_either, or_else, unwrap_or
<1>5. sni \in MaybeText /\ or_else(sni, y.server) \in MaybeText
  BY <1>2, ClashEitherIs, OrTypes DEF MaybeText
<1>6. tls # None => p \in TlsAlways \cup TlsIn /\ tls \in TlsType
  <2>1. insecure \in BOOLEAN
    OBVIOUS
  <2>. HIDE DEF insecure, sni, p
  <2>2. named(sni) \in TlsType /\ named(or_else(sni, y.server)) \in TlsType
    BY <1>5, <2>1, NoneIsAbsent, TlsToType
  <2>. HIDE DEF named
  <2>3. QED
    BY <2>2 DEF TlsIn
<1>7. transport # None => p \in StreamIn /\ transport \in TransportType
  BY ClashNetworkIs
<1>8. \A f \in Fields(p) : get(given, f) = given[f] /\ given[f] \in MaybeText
  BY <1>1, ClashFieldIs DEF get
<1>. HIDE DEF p, given, alter_id, tls, transport
<1>9. \A f \in Required[p] : get(given, f) # None
  BY <1>1, <1>8, FieldNames
<1>10. QED
  BY <1>1, <1>2, <1>3, <1>4, <1>6, <1>7, <1>8, <1>9, NodeIsOutbound

LEMMA SingboxIs ==
  ASSUME NEW v, IsMap(v, {"server_port"}, {}),
         singbox_outbound_to_outbound(v) # None
  PROVE  IsOutbound(singbox_outbound_to_outbound(v))
<1>. DEFINE server == unwrap_or_default(get(v, "server"))
            number == unwrap_or(get(v, "server_port"), 0)
<1>1. singbox_outbound_to_outbound(v) =
        [protocol |-> "raw", server |-> server, port |-> AsU16(number),
         value |-> number]
  BY DEF singbox_outbound_to_outbound
<1>2. server \in TextType
  <2>1. get(v, "server") \in MaybeText
    BY GetIs
  <2>2. QED
    BY <2>1, OptionTypes
<1>3. number \in Nat
  <2>1. get(v, "server_port") \in Nat \cup {None}
    BY GetIs
  <2>2. QED
    BY <2>1 DEF unwrap_or
<1>. HIDE DEF server, number
<1>4. AsU16(number) \in U16
  BY <1>3 DEF AsU16, U16
<1>5. QED
  BY <1>1, <1>2, <1>3, <1>4 DEF IsOutbound, RawType

LEMMA Sip008Is ==
  ASSUME NEW v, IsMap(v, {"server_port", "port"}, {}),
         sip008_server_to_outbound(v) # None
  PROVE  IsOutbound(sip008_server_to_outbound(v))
<1>. DEFINE number == get_either(v, "server_port", "port")
<1>1. /\ sip008_server_to_outbound(v) =
           Node("shadowsocks", v.server, AsU16(number), 0,
                [method |-> v.method, password |-> v.password], None, None)
      /\ \A key \in {"server", "method", "password"} : get(v, key) # None
      /\ number # None
  BY DEF sip008_server_to_outbound
<1>2. \A key \in {"server", "method", "password"} : get(v, key) \in TextType
  <2>1. \A key \in {"server", "method", "password"} : get(v, key) \in MaybeText
    BY GetIs
  <2>2. QED
    BY <1>1, <2>1 DEF MaybeText
<1>3. v.server \in TextType /\ v.method \in TextType /\ v.password \in TextType
  BY <1>1, <1>2 DEF get
<1>4. number \in Nat
  <2>1. /\ get(v, "server_port") \in Nat \cup {None}
        /\ get(v, "port") \in Nat \cup {None}
    BY GetIs
  <2>2. QED
    BY <1>1, <2>1 DEF get_either, or_else
<1>. HIDE DEF number
<1>5. AsU16(number) \in U16
  BY <1>4 DEF AsU16, U16
<1>6. QED
  BY <1>1, <1>3, <1>5, ShadowsocksIs

\* The nodes of a report are those of the entries that were not refused.
LEMMA NodesOf ==
  ASSUME NEW S, NEW list \in Seq(S), NEW parsed,
         parsed = [i \in DOMAIN list |-> parsed[i]],
         NEW o \in ToSet(filter(parsed, ToSet(parsed) \ {None}))
  PROVE  o # None /\ \E i \in DOMAIN list : o = parsed[i]
<1>. DEFINE T == {parsed[i] : i \in DOMAIN list}
<1>1. parsed \in Seq(T)
  <2>1. DOMAIN list = 1 .. Len(list) /\ Len(list) \in Nat
    OBVIOUS
  <2>2. [i \in 1 .. Len(list) |-> parsed[i]] \in Seq(T)
    BY <2>1
  <2>3. QED
    BY <2>1, <2>2
<1>2. ToSet(filter(parsed, ToSet(parsed) \ {None}))
        = ToSet(parsed) \cap (ToSet(parsed) \ {None})
  BY <1>1, FilterSelects
<1>3. ToSet(parsed) \subseteq T
  <2>. HIDE DEF T
  <2>1. QED
    BY <1>1, ToSetIs
<1>4. QED
  BY <1>2, <1>3

\* Every node of a subscription's answer is an outbound.
LEMMA ParsedBody ==
  ASSUME NEW body, IsBody(body),
         NEW o \in ToSet(parse_subscription_report(body).nodes)
  PROVE  IsOutbound(o)
<1>. DEFINE list == body[Format(body)]
            kept(parsed) == ToSet(filter(parsed, ToSet(parsed) \ {None}))
<1>1. list \in Seq(ToSet(list)) /\ \A i \in DOMAIN list : list[i] \in ToSet(list)
  BY DEF IsBody, ToSet
<1>2. CASE Format(body) = "proxies"
  <2>. DEFINE parsed == [i \in DOMAIN list |-> clash_proxy_to_outbound(list[i])]
  <2>1. o \in kept(parsed)
    BY <1>2 DEF parse_subscription_report
  <2>2. \A i \in DOMAIN list : IsClash(list[i])
    BY <1>1, <1>2 DEF IsBody
  <2>3. parsed = [i \in DOMAIN list |-> parsed[i]]
    OBVIOUS
  <2>4. \A i \in DOMAIN list : parsed[i] = clash_proxy_to_outbound(list[i])
    OBVIOUS
  <2>. HIDE DEF list, parsed
  <2>5. o # None /\ \E i \in DOMAIN list : o = parsed[i]
    BY <1>1, <2>1, <2>3, NodesOf
  <2>6. QED
    BY <2>2, <2>4, <2>5, ClashProxyIs
<1>3. CASE Format(body) = "outbounds"
  <2>. DEFINE parsed == [i \in DOMAIN list |-> singbox_outbound_to_outbound(list[i])]
  <2>1. o \in kept(parsed)
    BY <1>3 DEF parse_subscription_report
  <2>2. \A i \in DOMAIN list : IsMap(list[i], {"server_port"}, {})
    BY <1>1, <1>3 DEF IsBody
  <2>3. parsed = [i \in DOMAIN list |-> parsed[i]]
    OBVIOUS
  <2>4. \A i \in DOMAIN list : parsed[i] = singbox_outbound_to_outbound(list[i])
    OBVIOUS
  <2>. HIDE DEF list, parsed
  <2>5. o # None /\ \E i \in DOMAIN list : o = parsed[i]
    BY <1>1, <2>1, <2>3, NodesOf
  <2>6. QED
    BY <2>2, <2>4, <2>5, SingboxIs
<1>4. CASE Format(body) = "servers"
  <2>. DEFINE parsed == [i \in DOMAIN list |-> sip008_server_to_outbound(list[i])]
  <2>1. o \in kept(parsed)
    BY <1>4 DEF parse_subscription_report
  <2>2. \A i \in DOMAIN list : IsMap(list[i], {"server_port", "port"}, {})
    BY <1>1, <1>4 DEF IsBody
  <2>3. parsed = [i \in DOMAIN list |-> parsed[i]]
    OBVIOUS
  <2>4. \A i \in DOMAIN list : parsed[i] = sip008_server_to_outbound(list[i])
    OBVIOUS
  <2>. HIDE DEF list, parsed
  <2>5. o # None /\ \E i \in DOMAIN list : o = parsed[i]
    BY <1>1, <2>1, <2>3, NodesOf
  <2>6. QED
    BY <2>2, <2>4, <2>5, Sip008Is
<1>5. CASE Format(body) = "links"
  <2>. DEFINE parsed == [i \in DOMAIN list |-> parse_link(list[i])]
  <2>1. o \in kept(parsed)
    BY <1>5 DEF parse_subscription_report
  <2>2. \A i \in DOMAIN list : IsLink(list[i])
    BY <1>1, <1>5 DEF IsBody
  <2>3. parsed = [i \in DOMAIN list |-> parsed[i]]
    OBVIOUS
  <2>4. \A i \in DOMAIN list : parsed[i] = parse_link(list[i])
    OBVIOUS
  <2>. HIDE DEF list, parsed
  <2>5. o # None /\ \E i \in DOMAIN list : o = parsed[i]
    BY <1>1, <2>1, <2>3, NodesOf
  <2>6. QED
    BY <2>2, <2>4, <2>5, ParsedLink
<1>6. Format(body) \in {"proxies", "outbounds", "servers", "links"}
  BY DEF Format
<1>7. QED
  BY <1>2, <1>3, <1>4, <1>5, <1>6
=============================================================================
