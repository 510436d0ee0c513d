------------------------------ MODULE MCForms ------------------------------
(***************************************************************************)
(* An instance of Forms for TLC.                                           *)
(***************************************************************************)
EXTENDS Forms

Entry(prefix, value) == [prefix |-> prefix, value |-> value]

MCIpLiterals == {<<"1.2.3.4">>}

ACom == <<"a", "com">>
XACom == <<"x", "a", "com">>
BCn == <<"b", "cn">>

MCRuleEntries ==
  {Entry("", ACom), Entry("geosite", <<"cn">>), Entry("", <<"1.2.3.4">>),
   Entry("process", <<"p">>), Entry("#", <<"c">>)}

MCDestinations ==
  [host : {ACom, XACom, BCn},
   holds : {{}, {GeositeCn}, {GeolocationCn}, {GeositeAds, GeositeCn},
            {GeositeAds, [field |-> "ip_cidr", value |-> <<"1.2.3.4">>]},
            {Private}}]

List(domains, ips) == [domains |-> domains, ips |-> ips, processes |-> <<>>]

\* The same name in two buckets, a category in a third; entries the CLI has
\* put in the wrong list; names that must themselves be resolved.
Contested ==
  [direct |-> List(<<Entry("domain", ACom), Entry("full", BCn)>>, <<>>),
   proxy  |-> List(<<Entry("geosite", <<"category-ads-all">>)>>, <<>>),
   block  |-> List(<<Entry("", XACom), Entry("keyword", <<"b">>)>>, <<>>)]
Misplaced ==
  [direct |-> List(<<Entry("", <<"1.2.3.4">>), Entry("geoip", <<"cn">>)>>, <<>>),
   proxy  |-> NoRules,
   block  |-> List(<<>>, <<Entry("", ACom), Entry("geosite", <<"cn">>)>>)]

MCInitSettings ==
  {DefaultSettings,
   [DefaultSettings EXCEPT !.user_rules = Contested, !.direct_dns = "name"],
   [DefaultSettings EXCEPT !.user_rules = Misplaced, !.remote_dns = "name",
                           !.block_ads = FALSE]}

-----------------------------------------------------------------------------
(* Nodes *)

Text(s) == <<s>>
Link(scheme, user, pass, q) ==
  [scheme |-> scheme, user |-> user, pass |-> pass, host |-> Text("h"),
   port |-> 443, q |-> q]

Tls == ("security" :> Text("tls")) @@ ("alpn" :> <<"h2", "http/1.1">>)
Reality == ("security" :> Text("reality")) @@ ("pbk" :> Text("k"))
             @@ ("sni" :> Text("s")) @@ ("fp" :> Text("f"))
NoTls == ("security" :> Text("none"))

Ws == ("type" :> Text("ws")) @@ ("host" :> Text("w")) @@ ("path" :> Empty)
Grpc == ("type" :> Text("grpc")) @@ ("serviceName" :> Text("g"))
GrpcKnobs == Grpc @@ ("idle_timeout" :> Text("30s"))
               @@ ("permit_without_stream" :> Text("1"))
H2 == ("type" :> Text("h2")) @@ ("host" :> <<"a", "b">>)
Upgrade == ("type" :> Text("httpupgrade")) @@ ("path" :> Text("p"))

Queries ==
  {tls @@ net : tls \in {Tls, Reality, NoTls},
                net \in {Ws, Grpc, GrpcKnobs, H2, Upgrade, "type" :> Text("tcp")}}

VmessBodies ==
  {("add" :> Text("h")) @@ ("id" :> Text("u")) @@ tls @@ net
   : tls \in {"tls" :> Text("tls"), "aid" :> 200000},
     net \in {("net" :> Text("ws")) @@ ("host" :> Text("w")),
              ("net" :> Text("h2")) @@ ("host" :> <<"a", "b">>),
              ("net" :> Text("grpc")) @@ ("path" :> Text("g")),
              ("net" :> Text("tcp")) @@ ("scy" :> Text("zero"))}}

MCShareLinks ==
  {Link("vless", Text("u"), None, q) : q \in Queries}
  \cup {Link("vless", Text("u"), None, Tls @@ ("flow" :> Text("x")))}
  \cup {Link("trojan", user, None, tls @@ Ws) :
           user \in {Text("t"), Empty}, tls \in {Tls, NoTls}}
  \cup {Link("vmess", Empty, None, v) : v \in VmessBodies}
  \cup {Link("ss", Text("aes"), Text("s"), <<>>),
        Link("hysteria2", Text("p"), None, ("sni" :> Text("s")) @@ ("insecure" :> Text("1"))),
        Link("hysteria2", Text("p"), None, ("obfs" :> Text("o")) @@ ("obfs-password" :> Text("q"))),
        Link("tuic", Text("u"), Text("t"), ("alpn" :> <<"h3">>)
               @@ ("congestion_control" :> Text("bbr"))),
        Link("tuic", Text("u"), None, <<>>),
        Link("socks", Text("u"), Text("s"), <<>>),
        Link("socks", Empty, None, <<>>),
        Link("ftp", Empty, None, <<>>)}

Clash(type, rest) ==
  ("type" :> type) @@ ("server" :> Text("h")) @@ ("port" :> 443) @@ rest

ClashBody ==
  [proxies |-> <<
     Clash("vless", ("uuid" :> Text("u")) @@ ("tls" :> TRUE) @@ ("flow" :> Empty)),
     Clash("vmess", ("uuid" :> Text("u")) @@ ("alterId" :> 1) @@ ("network" :> Text("h2"))
             @@ ("host" :> <<"a", "b">>)),
     Clash("vmess", ("uuid" :> Text("u")) @@ ("cipher" :> Text("auto")) @@ ("tls" :> TRUE)
             @@ ("network" :> Text("httpupgrade")) @@ ("host" :> Text("w"))),
     Clash("trojan", ("password" :> Text("t")) @@ ("network" :> Text("ws"))
             @@ ("ws-headers.Host" :> Text("w"))),
     Clash("trojan", ("network" :> Text("ws"))),
     Clash("hysteria2", ("password" :> Text("t")) @@ ("skip-cert-verify" :> TRUE)),
     Clash("http", ("username" :> Text("u"))),
     Clash("socks", ("username" :> Text("u")) @@ ("port" :> 70000))>>]

SingBoxBody ==
  [outbounds |-> <<
     [type |-> Text("ssh"), server |-> Text("h"), server_port |-> 22],
     [type |-> Text("ssh"), server |-> Text("h"), server_port |-> 65537],
     [type |-> Text("ssh"), server |-> Text("h"), server_port |-> 65536],
     [type |-> Text("direct")]>>]

Sip008Body ==
  [servers |-> <<
     [server |-> Text("h"), server_port |-> 8388, method |-> Text("aes"),
      password |-> Text("s")],
     [server |-> Text("h"), server_port |-> 65536, method |-> Text("aes"),
      password |-> Text("s")]>>]

LinkList == [links |-> <<Link("ss", Text("aes"), Empty, <<>>), Link("ftp", Empty, None, <<>>)>>]

MCPieces == STRING

MCTyped == {Empty, <<"a", "b">>}

MCBodies == {ClashBody, SingBoxBody, Sip008Body, LinkList}
=============================================================================
