------------------------------ MODULE Outbounds ------------------------------
(***************************************************************************)
(* A node's outbound (model.rs), the JSON sing-box is given for it, and    *)
(* the flat draft of the node editor (draft.rs), as pure operators.        *)
(*                                                                         *)
(* A text is the sequence of its comma-separated pieces: <<>> is the empty *)
(* string, <<"a", "b">> is "a,b".  White space is left out.  The arms of   *)
(* the matches on the protocol are the tables Required, Optional, StreamIn *)
(* and TlsAlways; an outbound's text fields are one function.              *)
(***************************************************************************)
EXTENDS Naturals, Sequences, SequencesExt

CONSTANTS
  None,        \* Option::None
  Pieces       \* what is between two commas of a text

Empty == <<>>
Slash == <<"/">>

unwrap_or(o, default) == IF o = None THEN default ELSE o
unwrap_or_default(o) == unwrap_or(o, Empty)
opt(text) == IF text = Empty THEN None ELSE text

\* Strings joined with commas, and a text split at its commas: the empty
\* pieces of either are dropped.
join(list) == FlattenSeq(list)
split_csv(text) == [i \in DOMAIN text |-> <<text[i]>>]

-----------------------------------------------------------------------------
(* Protocols *)

Protocols == {"vless", "vmess", "trojan", "shadowsocks", "hysteria2", "tuic",
              "socks", "http"}

\* The fields of type String, all of which but server an editor must fill in.
Required ==
  [vless |-> {"uuid"}, vmess |-> {"uuid"}, trojan |-> {"password"},
   shadowsocks |-> {"method", "password"}, hysteria2 |-> {"password"},
   tuic |-> {"uuid", "password"}, socks |-> {}, http |-> {}]

\* The fields of type Option<String>.
Optional ==
  [vless |-> {"flow", "packet_encoding"}, vmess |-> {"security"},
   trojan |-> {}, shadowsocks |-> {}, hysteria2 |-> {"obfs", "obfs_password"},
   tuic |-> {"congestion_control"}, socks |-> {"username", "password"},
   http |-> {"username", "password"}]

Fields(protocol) == Required[protocol] \cup Optional[protocol]

StreamIn == {"vless", "vmess", "trojan"}      \* optional TLS and a transport
TlsAlways == {"hysteria2", "tuic"}            \* TLS, with defaults if absent
TlsIn == StreamIn \cup {"http"}               \* optional TLS

\* Tls { enabled: true, ..Default::default() }
DefaultTls == [enabled |-> TRUE, server_name |-> None, insecure |-> FALSE,
               alpn |-> <<>>, fingerprint |-> None, reality |-> None]

-----------------------------------------------------------------------------
(* Types (model.rs) *)

TextType == Seq(Pieces)
MaybeText == TextType \cup {None}

\* The pieces split_csv makes of a text; the texts opt lets through.
PiecesType == Seq([1 .. 1 -> Pieces])
GivenText == MaybeText \ {Empty}

RealityType == [public_key : TextType \ {Empty}, short_id : TextType]
TlsType ==
  [enabled : BOOLEAN, server_name : MaybeText, insecure : BOOLEAN,
   alpn : PiecesType, fingerprint : GivenText,
   reality : RealityType \cup {None}]

TransportType ==
  [type : {"ws", "httpupgrade"}, path : TextType, host : MaybeText]
  \cup [type : {"grpc"}, service_name : TextType, idle_timeout : MaybeText,
        permit_without_stream : BOOLEAN \cup {None}]
  \cup [type : {"http"}, path : TextType, hosts : Seq(TextType)]

U16 == 0 .. 65535
OutboundType(p) ==
  [protocol : {p}, server : TextType, port : U16,
   alter_id : IF p = "vmess" THEN Nat ELSE {0},
   fields : {v \in [Fields(p) -> MaybeText] :
               \A f \in Required[p] : v[f] # None},
   tls : {None} \cup (IF p \in TlsAlways \cup TlsIn THEN TlsType ELSE {}),
   transport : {None} \cup (IF p \in StreamIn THEN TransportType ELSE {})]
RawType == [protocol : {"raw"}, server : TextType, port : U16, value : Nat]

IsOutbound(o) == o \in RawType \/ \E p \in Protocols : o \in OutboundType(p)

ASSUME PiecesAssumption == "/" \in Pieces
ASSUME NoneAssumption ==
  /\ None \notin TextType \cup TlsType \cup TransportType \cup RealityType
                   \cup BOOLEAN \cup Nat \cup Protocols
  /\ ~IsOutbound(None)

-----------------------------------------------------------------------------
(* Rendering *)

TlsJson(tls) == [k \in DOMAIN tls \ {"enabled"} |-> tls[k]]

PathJson(path) == IF path = Empty THEN Slash ELSE path

TransportJson(t) ==
  IF t.type = "grpc" THEN t ELSE [t EXCEPT !.path = PathJson(@)]

FieldJson(o, f) ==
  CASE f = "flow" -> opt(unwrap_or_default(o.fields.flow))
    [] f = "packet_encoding" -> unwrap_or(o.fields[f], <<"xudp">>)
    [] f = "security" -> unwrap_or(o.fields[f], <<"auto">>)
    [] f = "obfs_password" -> IF o.fields.obfs = None THEN None
                              ELSE unwrap_or_default(o.fields[f])
    [] OTHER -> o.fields[f]

\* Without the tag, which is the caller's.  A raw outbound is rendered as it
\* was imported: its only known part is the port in it.
to_singbox(o) ==
  IF o.protocol = "raw" THEN [server |-> o.server, server_port |-> o.value]
  ELSE [type        |-> o.protocol,
        server      |-> o.server,
        server_port |-> o.port,
        alter_id    |-> o.alter_id,
        fields      |-> [f \in Fields(o.protocol) |-> FieldJson(o, f)],
        tls         |-> CASE o.protocol \in TlsAlways ->
                               TlsJson(unwrap_or(o.tls, DefaultTls))
                          [] /\ o.protocol \in TlsIn
                             /\ o.tls # None /\ o.tls.enabled -> TlsJson(o.tls)
                          [] OTHER -> None,
        transport   |-> IF o.transport = None THEN None
                        ELSE TransportJson(o.transport)]

-----------------------------------------------------------------------------
(* The draft: every text field of every protocol, TLS and transport. *)

TlsTexts == {"sni", "alpn", "fingerprint", "reality_public_key",
             "reality_short_id"}
TransportTexts ==
  [ws |-> {"ws_path", "ws_host"}, grpc |-> {"grpc_service_name"},
   http |-> {"http_host", "http_path"},
   httpupgrade |-> {"httpupgrade_path", "httpupgrade_host"}]
DraftTexts ==
  (UNION {Fields(p) : p \in Protocols}) \cup TlsTexts
    \cup (UNION {TransportTexts[t] : t \in DOMAIN TransportTexts})

\* The transport type of a draft without one.
NoName == ""

\* OutboundDraft::default, but for what every outbound has.
NoTexts == [f \in DraftTexts |-> Empty]
BlankDraft(protocol, server, port) ==
  [protocol |-> protocol, server |-> server, port |-> port, alter_id |-> 0,
   tls_enabled |-> FALSE, insecure |-> FALSE, transport_type |-> NoName,
   text |-> NoTexts]

\* Mutant: the ALPN text is taken for one protocol.
tls_from_draftOneAlpn(d) ==
  [enabled     |-> TRUE,
   server_name |-> opt(d.text.sni),
   insecure    |-> d.insecure,
   alpn        |-> <<d.text.alpn>>,
   fingerprint |-> opt(d.text.fingerprint),
   reality     |-> IF d.text.reality_public_key = Empty THEN None
                   ELSE [public_key |-> d.text.reality_public_key,
                         short_id   |-> d.text.reality_short_id]]

tls_from_draft(d) ==
  [enabled     |-> TRUE,
   server_name |-> opt(d.text.sni),
   insecure    |-> d.insecure,
   alpn        |-> split_csv(d.text.alpn),
   fingerprint |-> opt(d.text.fingerprint),
   reality     |-> IF d.text.reality_public_key = Empty THEN None
                   ELSE [public_key |-> d.text.reality_public_key,
                         short_id   |-> d.text.reality_short_id]]

tls_to_draft(tls) ==
  [sni |-> unwrap_or_default(tls.server_name), alpn |-> join(tls.alpn),
   fingerprint |-> unwrap_or_default(tls.fingerprint),
   reality_public_key |->
     IF tls.reality = None THEN Empty ELSE tls.reality.public_key,
   reality_short_id |->
     IF tls.reality = None THEN Empty ELSE tls.reality.short_id]

transport_from_draft(d) ==
  CASE d.transport_type = "ws" ->
         [type |-> "ws", path |-> d.text.ws_path, host |-> opt(d.text.ws_host)]
    [] d.transport_type = "grpc" ->
         [type |-> "grpc", service_name |-> d.text.grpc_service_name,
          idle_timeout |-> None, permit_without_stream |-> None]
    [] d.transport_type = "http" ->
         [type |-> "http", path |-> d.text.http_path,
          hosts |-> split_csv(d.text.http_host)]
    [] d.transport_type = "httpupgrade" ->
         [type |-> "httpupgrade", path |-> d.text.httpupgrade_path,
          host |-> opt(d.text.httpupgrade_host)]
    [] OTHER -> None

\* Mutant: path and host of ws swapped.
transport_to_draftSwapped(t) ==
  CASE t.type = "ws" ->
         [ws_path |-> unwrap_or_default(t.host), ws_host |-> t.path]
    [] t.type = "grpc" -> [grpc_service_name |-> t.service_name]
    [] t.type = "http" -> [http_host |-> join(t.hosts), http_path |-> t.path]
    [] t.type = "httpupgrade" ->
         [httpupgrade_path |-> t.path,
          httpupgrade_host |-> unwrap_or_default(t.host)]

transport_to_draft(t) ==
  CASE t.type = "ws" ->
         [ws_path |-> t.path, ws_host |-> unwrap_or_default(t.host)]
    [] t.type = "grpc" -> [grpc_service_name |-> t.service_name]
    [] t.type = "http" -> [http_host |-> join(t.hosts), http_path |-> t.path]
    [] t.type = "httpupgrade" ->
         [httpupgrade_path |-> t.path,
          httpupgrade_host |-> unwrap_or_default(t.host)]

\* The TLS a draft shows: hysteria2 and tuic show the default one if absent.
ShownTls(o) ==
  IF o.protocol \in TlsAlways THEN unwrap_or(o.tls, DefaultTls) ELSE o.tls

outbound_to_draft(o) ==
  IF o.protocol = "raw"
  THEN BlankDraft("raw", o.server, o.port)
  ELSE LET tls == ShownTls(o)
       IN  [protocol       |-> o.protocol,
            server         |-> o.server,
            port           |-> o.port,
            alter_id       |-> o.alter_id,
            tls_enabled    |-> tls # None /\ tls.enabled,
            insecure       |-> tls # None /\ tls.insecure,
            transport_type |-> IF o.transport = None THEN NoName
                               ELSE o.transport.type,
            text |-> [f \in DraftTexts |->
              CASE f \in Fields(o.protocol) -> unwrap_or_default(o.fields[f])
                [] tls # None /\ f \in TlsTexts -> tls_to_draft(tls)[f]
                [] /\ o.transport # None
                   /\ f \in TransportTexts[o.transport.type] ->
                     transport_to_draft(o.transport)[f]
                [] OTHER -> Empty]]

\* What draft_to_outbound accepts; it answers an error for the rest.
Complete(d) ==
  /\ d.server # Empty
  /\ d.port # 0
  /\ d.protocol \in Protocols
  /\ \A f \in Required[d.protocol] : d.text[f] # Empty

draft_to_outbound(d) ==
  [protocol  |-> d.protocol,
   server    |-> d.server,
   port      |-> d.port,
   alter_id  |-> IF d.protocol = "vmess" THEN d.alter_id ELSE 0,
   fields    |-> [f \in Fields(d.protocol) |->
                    IF f \in Required[d.protocol] THEN d.text[f]
                                                  ELSE opt(d.text[f])],
   tls       |-> IF \/ d.protocol \in TlsAlways
                    \/ d.protocol \in TlsIn /\ d.tls_enabled
                 THEN tls_from_draft(d) ELSE None,
   transport |-> IF d.protocol \in StreamIn THEN transport_from_draft(d)
                                            ELSE None]
=============================================================================
