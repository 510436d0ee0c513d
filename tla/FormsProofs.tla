----------------------------- MODULE FormsProofs -----------------------------
(***************************************************************************)
(* Theorems about Forms, for any settings, entries, links and connections. *)
(***************************************************************************)
EXTENDS Forms, RoutingProofs, LinksProofs

-----------------------------------------------------------------------------
(* Types *)

\* u32::MAX does not fit the i32 of the window: neither clamp has a range.
LEMMA NothingIsClamped ==
  AsI32(U32Max) = -1 /\ ClampPanics(576, AsI32(U32Max)) /\ NodeDraftPanics
  BY HalfAssumption DEF AsI32, U32Max, ClampPanics, NodeDraftPanics

LEMMA SavingDies ==
  on_save_advanced_settings \/ on_save_node_editor => Die
  BY NothingIsClamped DEF on_save_advanced_settings, on_save_node_editor

LEMMA SettingsWith ==
  ASSUME NEW s \in SettingsType
  PROVE  /\ \A mode \in Modes : [s EXCEPT !.routing = mode] \in SettingsType
         /\ \A on \in BOOLEAN :
              /\ [s EXCEPT !.tun = on] \in SettingsType
              /\ [s EXCEPT !.system_proxy = on] \in SettingsType
              /\ [s EXCEPT !.preference = on] \in SettingsType
         /\ \A rules \in [Buckets -> RuleListType] :
              [s EXCEPT !.user_rules = rules] \in SettingsType
  BY DEF SettingsType

LEMMA SettingsWithRules ==
  ASSUME NEW s \in SettingsType, NEW b \in Buckets, NEW list \in RuleListType
  PROVE  /\ [s EXCEPT !.user_rules[b] = list] \in SettingsType
         /\ s.user_rules[b] \in RuleListType
<1>1. s.user_rules \in [Buckets -> RuleListType]
  BY DEF SettingsType
<1>. DEFINE rules == [s.user_rules EXCEPT ![b] = list]
<1>2. rules \in [Buckets -> RuleListType]
  BY <1>1
<1>3. [s EXCEPT !.user_rules[b] = list] = [s EXCEPT !.user_rules = rules]
  OBVIOUS
<1>. HIDE DEF rules
<1>4. QED
  BY <1>1, <1>2, <1>3, SettingsWith

\* The lists of a rule list by name; an item of the list of processes is the
\* name alone.
LEMMA ListWith ==
  ASSUME NEW rules \in RuleListType, NEW list \in Lists, NEW e \in EntryType
  PROVE  /\ [rules EXCEPT ![list] = Append(@, Item(list, e))] \in RuleListType
         /\ [rules EXCEPT ![list] = filter(@, ToSet(@) \ {Item(list, e)})]
              \in RuleListType
<1>. DEFINE T == IF list = "processes" THEN Seq(STRING) ELSE EntryType
<1>1. /\ rules[list] \in Seq(T) /\ Item(list, e) \in T
  BY DEF RuleListType, EntryType, Lists, Item
<1>2. /\ Append(rules[list], Item(list, e)) \in Seq(T)
      /\ filter(rules[list], ToSet(rules[list]) \ {Item(list, e)}) \in Seq(T)
  <2>. HIDE DEF T
  <2>1. QED
    BY <1>1, FilterSelects
<1>3. ASSUME NEW items \in Seq(T)
      PROVE  [rules EXCEPT ![list] = items] \in RuleListType
  <2>1. CASE list = "domains"
    BY <1>3, <2>1 DEF RuleListType
  <2>2. CASE list = "ips"
    BY <1>3, <2>2 DEF RuleListType
  <2>3. CASE list = "processes"
    BY <1>3, <2>3 DEF RuleListType
  <2>4. QED
    BY <2>1, <2>2, <2>3 DEF Lists
<1>4. QED
  BY <1>2, <1>3

LEMMA NoRulesType == NoRules \in RuleListType
  BY DEF NoRules, RuleListType

\* What the window shows of settings.
LEMMA ShownWith ==
  ASSUME NEW s \in SettingsType
  PROVE  /\ ChipsOf(s) \in [Buckets -> Seq(EntryType)]
         /\ Window(s) \in ShownType
         /\ \A view \in ShownType : refresh_rules_view(view, s) \in ShownType
         /\ refresh_advanced_settings(s) \in FormType
<1>1. /\ s.routing \in Modes /\ s.tun \in BOOLEAN /\ s.system_proxy \in BOOLEAN
      /\ s.block_ads \in BOOLEAN /\ s.tun_mtu \in 0 .. U32Max
      /\ s.direct_dns \in DnsAddresses /\ s.remote_dns \in DnsAddresses
  BY DEF SettingsType
<1>2. ChipsOf(s) \in [Buckets -> Seq(EntryType)]
  <2>1. \A b \in Buckets : to_lines(s.user_rules[b]) \in Seq(EntryType)
    BY LinesOf, SettingsWithRules, NoRulesType
  <2>2. QED
    BY <2>1 DEF ChipsOf
<1>3. Window(s) \in ShownType
  BY <1>1, <1>2 DEF Window, Toggles, ShownType
<1>4. ASSUME NEW view \in ShownType
      PROVE  refresh_rules_view(view, s) \in ShownType
  BY <1>1, <1>2 DEF refresh_rules_view, ShownType
<1>5. AsI32(s.tun_mtu) \in I32
  BY <1>1, HalfAssumption DEF AsI32, I32, U32Max
<1>6. refresh_advanced_settings(s) \in FormType
  BY <1>1, <1>5 DEF refresh_advanced_settings, FormType
<1>7. QED
  BY <1>2, <1>3, <1>4, <1>6

LEMMA ShownTlsIs ==
  ASSUME NEW p \in Protocols, NEW o \in OutboundType(p)
  PROVE  /\ ShownTls(o) # None => /\ ShownTls(o) \in TlsType
                                 /\ p \in TlsAlways \cup TlsIn
         /\ p \in TlsAlways => ShownTls(o) # None
<1>1. /\ o.protocol = p
      /\ o.tls # None => o.tls \in TlsType /\ p \in TlsAlways \cup TlsIn
  BY DEF OutboundType
<1>2. DefaultTls = TlsTo(None, FALSE, <<>>, None, None)
  BY DEF DefaultTls, TlsTo
<1>3. DefaultTls \in TlsType
  BY <1>2, NoneIsAbsent, TlsToType
<1>4. DefaultTls # None
  BY <1>3, NoneIsAbsent
<1>5. QED
  BY <1>1, <1>3, <1>4 DEF ShownTls, unwrap_or

\* The texts of a draft, by what they are about.
LEMMA DraftTextsAre ==
  ASSUME NEW p \in Protocols
  PROVE  /\ Fields(p) \subseteq DraftTexts /\ TlsTexts \subseteq DraftTexts
         /\ Fields(p) \cap TlsTexts = {}
         /\ \A t \in DOMAIN TransportTexts :
              /\ TransportTexts[t] \subseteq DraftTexts
              /\ TransportTexts[t] \cap (Fields(p) \cup TlsTexts) = {}
  BY DEF Protocols, DraftTexts, Fields, Required, Optional, TlsTexts,
         TransportTexts

\* The texts the editor is given for the TLS and the transport of a node.
LEMMA TlsTextsType ==
  ASSUME NEW tls \in TlsType
  PROVE  \A f \in TlsTexts : tls_to_draft(tls)[f] \in TextType
<1>1. /\ tls.server_name \in MaybeText /\ tls.alpn \in PiecesType
      /\ tls.fingerprint \in MaybeText
      /\ tls.reality # None => /\ tls.reality.public_key \in TextType
                              /\ tls.reality.short_id \in TextType
  BY DEF TlsType, GivenText, RealityType
<1>2. join(tls.alpn) \in TextType
  BY <1>1, PiecesAreTexts, JoinType DEF join, TextType
<1>3. /\ unwrap_or_default(tls.server_name) \in TextType
      /\ unwrap_or_default(tls.fingerprint) \in TextType
  BY <1>1, OptionTypes
<1>4. QED
  BY <1>1, <1>2, <1>3, EmptyIsText DEF tls_to_draft, TlsTexts

LEMMA TransportTextsType ==
  ASSUME NEW t \in TransportType
  PROVE  /\ t.type \in DOMAIN TransportTexts
         /\ \A f \in TransportTexts[t.type] : transport_to_draft(t)[f] \in TextType
<1>1. CASE t.type \in {"ws", "httpupgrade"}
  <2>1. t.path \in TextType /\ unwrap_or_default(t.host) \in TextType
    BY <1>1, OptionTypes DEF TransportType
  <2>2. QED
    BY <1>1, <2>1 DEF transport_to_draft, TransportTexts
<1>2. CASE t.type = "grpc"
  <2>1. t.service_name \in TextType
    BY <1>2 DEF TransportType
  <2>2. QED
    BY <1>2, <2>1 DEF transport_to_draft, TransportTexts
<1>3. CASE t.type = "http"
  <2>1. t.path \in TextType /\ t.hosts \in Seq(TextType)
    BY <1>3 DEF TransportType
  <2>2. join(t.hosts) \in TextType
    BY <2>1, JoinType DEF join, TextType
  <2>3. QED
    BY <1>3, <2>1, <2>2 DEF transport_to_draft, TransportTexts
<1>4. QED
  BY <1>1, <1>2, <1>3 DEF TransportType

\* A draft with nothing but a protocol, a server and a port.
LEMMA BlankDraftType ==
  ASSUME NEW p \in Protocols \cup {"raw"}, NEW server \in TextType, NEW port \in U16
  PROVE  BlankDraft(p, server, port) \in EditorType
<1>1. NoTexts \in [DraftTexts -> TextType]
  BY EmptyIsText DEF NoTexts
<1>2. 0 \in Int
  OBVIOUS
<1>3. QED
  BY <1>1, <1>2 DEF BlankDraft, EditorType

\* The draft of an outbound.
LEMMA DraftType ==
  ASSUME NEW o, IsOutbound(o)
  PROVE  outbound_to_draft(o) \in EditorType
<1>1. CASE o \in RawType
  <2>1. o.protocol = "raw" /\ o.server \in TextType /\ o.port \in U16
    BY <1>1 DEF RawType
  <2>2. QED
    BY <2>1, BlankDraftType DEF outbound_to_draft
<1>2. ASSUME NEW p \in Protocols, o \in OutboundType(p)
      PROVE  outbound_to_draft(o) \in EditorType
  <2>1. /\ o.protocol = p /\ p # "raw" /\ o.server \in TextType /\ o.port \in U16
        /\ o.alter_id \in Int /\ o.fields \in [Fields(p) -> MaybeText]
        /\ o.transport # None => o.transport \in TransportType
    BY <1>2 DEF OutboundType, Protocols
  <2>. DEFINE tls == ShownTls(o)
              text == [f \in DraftTexts |->
                CASE f \in Fields(p) -> unwrap_or_default(o.fields[f])
                  [] tls # None /\ f \in TlsTexts -> tls_to_draft(tls)[f]
                  [] /\ o.transport # None
                     /\ f \in TransportTexts[o.transport.type] ->
                       transport_to_draft(o.transport)[f]
                  [] OTHER -> Empty]
              enabled == tls # None /\ tls.enabled
              insecure == tls # None /\ tls.insecure
              type == IF o.transport = None THEN NoName ELSE o.transport.type
  <2>2. tls # None => tls \in TlsType
    BY <1>2, ShownTlsIs
  <2>3. outbound_to_draft(o) =
          [protocol |-> p, server |-> o.server, port |-> o.port,
           alter_id |-> o.alter_id, tls_enabled |-> enabled, insecure |-> insecure,
           transport_type |-> type, text |-> text]
    BY <2>1 DEF outbound_to_draft
  <2>4. text \in [DraftTexts -> TextType]
    <3>1. \A f \in Fields(p) : unwrap_or_default(o.fields[f]) \in TextType
      BY <2>1, OptionTypes
    <3>2. tls # None => \A f \in TlsTexts : tls_to_draft(tls)[f] \in TextType
      BY <2>2, TlsTextsType
    <3>3. o.transport # None =>
            \A f \in TransportTexts[o.transport.type] :
              transport_to_draft(o.transport)[f] \in TextType
      BY <2>1, TransportTextsType
    <3>. HIDE DEF tls
    <3>4. ASSUME NEW f \in DraftTexts
          PROVE  text[f] \in TextType
      <4>1. CASE f \in Fields(p)
        BY <2>1, <3>1, <4>1, TransportTextsType, DraftTextsAre
      <4>2. CASE f \notin Fields(p) /\ tls # None /\ f \in TlsTexts
        BY <2>1, <3>2, <3>3, <4>2, TransportTextsType, DraftTextsAre
      <4>3. CASE /\ f \notin Fields(p) /\ ~(tls # None /\ f \in TlsTexts)
                 /\ o.transport # None /\ f \in TransportTexts[o.transport.type]
        BY <3>3, <4>3
      <4>4. CASE /\ f \notin Fields(p) /\ ~(tls # None /\ f \in TlsTexts)
                 /\ ~(o.transport # None /\ f \in TransportTexts[o.transport.type])
        BY <4>4, EmptyIsText
      <4>5. QED
        BY <4>1, <4>2, <4>3, <4>4
    <3>5. QED
      BY <3>4
  <2>5. enabled \in BOOLEAN /\ insecure \in BOOLEAN
    BY <2>2 DEF TlsType
  <2>6. type \in DOMAIN TransportTexts \cup {NoName}
    BY <2>1, TransportTextsType
  <2>. HIDE DEF text, enabled, insecure, type
  <2>7. QED
    BY <2>1, <2>3, <2>4, <2>5, <2>6 DEF EditorType
<1>3. QED
  BY <1>1, <1>2 DEF IsOutbound

\* The window's draft, as it is opened and as it is typed into.
LEMMA EditorWith ==
  ASSUME NEW d \in EditorType
  PROVE  /\ core_draft_to_node(d) \in EditorType
         /\ \A f \in DraftTexts, text \in TextType :
              [d EXCEPT !.text[f] = text] \in EditorType
<1>1. d.alter_id \in Int /\ d.text \in [DraftTexts -> TextType]
  BY DEF EditorType
<1>2. AsI32(d.alter_id) \in Int
  BY <1>1, HalfAssumption DEF AsI32
<1>3. core_draft_to_node(d) \in EditorType
  BY <1>2 DEF core_draft_to_node, EditorType
<1>4. ASSUME NEW f \in DraftTexts, NEW text \in TextType
      PROVE  [d EXCEPT !.text[f] = text] \in EditorType
  <2>. DEFINE texts == [d.text EXCEPT ![f] = text]
  <2>1. texts \in [DraftTexts -> TextType]
    BY <1>1
  <2>2. [d EXCEPT !.text[f] = text] = [d EXCEPT !.text = texts]
    OBVIOUS
  <2>. HIDE DEF texts
  <2>3. QED
    BY <2>1, <2>2 DEF EditorType
<1>5. QED
  BY <1>3, <1>4

\* A handler that is given settings and a window of the right shape.
LEMMA HandleType ==
  ASSUME TypeOK, NEW new, NEW view, NEW refreshed,
         Handle(new, view, refreshed), new \in SettingsType, view \in ShownType
  PROVE  TypeOK'
<1>1. /\ alive /\ alive' = alive /\ node' = node /\ shown' = view
      /\ form' = None /\ editor' = None /\ cache' = new /\ (disk' = new \/ disk' = disk) /\ stale' \in BOOLEAN
      /\ unseen' = unseen \ refreshed /\ edits < MaxEdits /\ edits' = edits + 1
  BY DEF Handle, Elsewhere, Edit, save_settings, nodeVars
<1>2. edits' \in 0 .. MaxEdits
  BY <1>1, EditsAssumption DEF TypeOK
<1>3. QED
  BY <1>1, <1>2 DEF TypeOK

LEMMA DieType ==
  ASSUME TypeOK, Die
  PROVE  TypeOK'
  BY DEF Die, TypeOK

LEMMA RulesViewType ==
  ASSUME TypeOK, RulesView
  PROVE  TypeOK'
<1>1. ASSUME NEW b \in Buckets, NEW lines \in Seq(EntryType), EditRules(b, lines)
      PROVE  TypeOK'
  <2>. DEFINE new == [cache EXCEPT !.user_rules[b] = from_lines(lines)]
  <2>1. Handle(new, refresh_rules_view(shown, new), {"rules"}) /\ alive
    BY <1>1 DEF EditRules, Handle, Elsewhere
  <2>2. new \in SettingsType
    BY <2>1, SettingsWithRules, FromLinesKeeps DEF TypeOK
  <2>. HIDE DEF new
  <2>3. refresh_rules_view(shown, new) \in ShownType
    BY <2>1, <2>2, ShownWith DEF TypeOK
  <2>4. QED
    BY <2>1, <2>2, <2>3, HandleType
<1>2. ASSUME NEW b \in Buckets, NEW e \in RuleEntries,
             on_rule_add(b, e) \/ on_rule_remove(b, e)
      PROVE  TypeOK'
  <2>. DEFINE lines == to_lines(cache.user_rules[b])
  <2>1. alive
    BY <1>2 DEF on_rule_add, on_rule_remove, EditRules, Handle, Elsewhere
  <2>2. lines \in Seq(EntryType)
    BY <2>1, SettingsWithRules, NoRulesType, LinesOf DEF TypeOK
  <2>3. on_rule_add(b, e) => EditRules(b, Append(lines, e))
    BY DEF on_rule_add
  <2>4. on_rule_remove(b, e) => EditRules(b, filter(lines, ToSet(lines) \ {e}))
    BY DEF on_rule_remove
  <2>. HIDE DEF lines
  <2>5. /\ Append(lines, e) \in Seq(EntryType)
        /\ filter(lines, ToSet(lines) \ {e}) \in Seq(EntryType)
    BY <2>2, EntriesAssumption, FilterSelects
  <2>6. QED
    BY <1>1, <1>2, <2>3, <2>4, <2>5
<1>3. ASSUME NEW mode \in Modes, on_set_routing_mode(mode)
      PROVE  TypeOK'
  <2>. DEFINE new == [cache EXCEPT !.routing = mode]
              view == [refresh_rules_view(shown, new)
                         EXCEPT !.cn = mode = "cn-direct"]
  <2>1. Handle(new, view, {"rules"}) /\ alive
    BY <1>3 DEF on_set_routing_mode, Handle, Elsewhere
  <2>2. new \in SettingsType
    BY <2>1, SettingsWith DEF TypeOK
  <2>. HIDE DEF new
  <2>3. refresh_rules_view(shown, new) \in ShownType
    BY <2>1, <2>2, ShownWith DEF TypeOK
  <2>4. view \in ShownType
    BY <2>3 DEF ShownType
  <2>. HIDE DEF view
  <2>5. QED
    BY <2>1, <2>2, <2>4, HandleType
<1>4. QED
  BY <1>2, <1>3 DEF RulesView

LEMMA SwitchesType ==
  ASSUME TypeOK, Switches
  PROVE  TypeOK'
<1>1. /\ alive /\ editor = None
      /\ disk \in SettingsType /\ cache \in SettingsType /\ shown \in ShownType
  BY DEF Switches, on_toggle_cn, on_toggle_tun, on_toggle_sysproxy,
         on_preference, Handle, Elsewhere, TypeOK
<1>2. ASSUME NEW on \in BOOLEAN, on_toggle_cn(on)
      PROVE  TypeOK'
  <2>. DEFINE mode == IF on THEN "cn-direct" ELSE "global"
  <2>1. mode \in Modes
    BY DEF Modes
  <2>2. [cache EXCEPT !.routing = mode] \in SettingsType
    BY <1>1, <2>1, SettingsWith
  <2>3. [shown EXCEPT !.cn = on] \in ShownType
    BY <1>1 DEF ShownType
  <2>4. QED
    BY <1>2, <2>2, <2>3, HandleType DEF on_toggle_cn
<1>3. ASSUME NEW on \in BOOLEAN, on_toggle_tun(on)
      PROVE  TypeOK'
  <2>1. [cache EXCEPT !.tun = on] \in SettingsType
    BY <1>1, SettingsWith
  <2>2. [shown EXCEPT !.tun = on] \in ShownType
    BY <1>1 DEF ShownType
  <2>3. QED
    BY <1>3, <2>1, <2>2, HandleType DEF on_toggle_tun
<1>4. ASSUME NEW on \in BOOLEAN, on_preference(on)
      PROVE  TypeOK'
  BY <1>1, <1>4, SettingsWith, HandleType DEF on_preference
<1>5. ASSUME NEW on \in BOOLEAN, on_toggle_sysproxy(on)
      PROVE  TypeOK'
  <2>. DEFINE ondisk == [disk EXCEPT !.system_proxy = on]
              incache == [cache EXCEPT !.system_proxy = on]
              view == [shown EXCEPT !.sysproxy = on]
  <2>1. /\ ondisk \in SettingsType /\ incache \in SettingsType
        /\ view \in ShownType
    BY <1>1, SettingsWith DEF ShownType
  <2>2. /\ disk' \in {disk, ondisk} /\ cache' \in {cache, incache}
        /\ shown' = view /\ stale' \in {stale, TRUE}
        /\ unseen' \in {unseen, unseen \cup {"toggles"}}
        /\ alive' = alive /\ node' = node /\ form' = None /\ editor' = None
        /\ edits < MaxEdits /\ edits' = edits + 1
    BY <1>1, <1>5 DEF on_toggle_sysproxy, Elsewhere, Edit, settingsVars, nodeVars
  <2>. HIDE DEF ondisk, incache, view
  <2>3. edits' \in 0 .. MaxEdits
    BY <2>2, EditsAssumption DEF TypeOK
  <2>4. QED
    BY <1>1, <2>1, <2>2, <2>3 DEF TypeOK
<1>6. QED
  BY <1>2, <1>3, <1>4, <1>5 DEF Switches

LEMMA SettingsPageType ==
  ASSUME TypeOK, SettingsPage
  PROVE  TypeOK'
<1>1. ASSUME on_open_settings
      PROVE  TypeOK'
  <2>1. refresh_advanced_settings(cache) \in FormType
    BY <1>1, ShownWith DEF on_open_settings, TypeOK
  <2>2. QED
    BY <1>1, <2>1 DEF on_open_settings, settingsVars, windowVars, nodeVars, TypeOK
<1>2. ASSUME TypeIntoForm
      PROVE  TypeOK'
  <2>1. /\ alive /\ UNCHANGED <<settingsVars, windowVars, nodeVars, alive>>
        /\ edits < MaxEdits /\ edits' = edits + 1
    BY <1>2 DEF TypeIntoForm, Edit
  <2>2. edits' \in 0 .. MaxEdits
    BY <2>1, EditsAssumption DEF TypeOK
  <2>3. form \in FormType
    BY <1>2 DEF TypeIntoForm, TypeOK
  <2>4. form' \in FormType
    BY <1>2, <2>3, TypingAssumption DEF TypeIntoForm, FormType
  <2>5. QED
    BY <2>1, <2>2, <2>4 DEF settingsVars, windowVars, nodeVars, TypeOK
<1>3. ASSUME on_save_advanced_settings
      PROVE  TypeOK'
  BY <1>3, SavingDies, DieType
<1>4. QED
  BY <1>1, <1>2, <1>3 DEF SettingsPage

LEMMA NodesType ==
  ASSUME TypeOK, Nodes
  PROVE  TypeOK'
<1>1. ASSUME NEW o, IsOutbound(o), NewNode(o)
      PROVE  TypeOK'
  <2>1. /\ UNCHANGED <<settingsVars, windowVars, editor, form, alive>>
        /\ node' = o /\ edits < MaxEdits /\ edits' = edits + 1
    BY <1>1 DEF NewNode, Edit
  <2>2. edits' \in 0 .. MaxEdits
    BY <2>1, EditsAssumption DEF TypeOK
  <2>3. QED
    BY <1>1, <2>1, <2>2 DEF settingsVars, windowVars, TypeOK
<1>2. ASSUME NEW l \in ShareLinks, import_link(l)
      PROVE  TypeOK'
  BY <1>1, <1>2, LinksAssumption, ParsedLink DEF import_link
<1>3. ASSUME NEW body \in Bodies, import_body(body)
      PROVE  TypeOK'
  BY <1>1, <1>3, BodiesAssumption, ParsedBody DEF import_body
<1>4. ASSUME NEW d \in EditorType, Open(d)
      PROVE  TypeOK'
  <2>1. core_draft_to_node(d) \in EditorType
    BY EditorWith
  <2>2. QED
    BY <1>4, <2>1 DEF Open, Elsewhere, settingsVars, windowVars, TypeOK
<1>5. ASSUME on_open_node_editor
      PROVE  TypeOK'
  <2>1. outbound_to_draft(node) \in EditorType
    BY <1>5, DraftType DEF on_open_node_editor, TypeOK
  <2>2. QED
    BY <1>4, <1>5, <2>1 DEF on_open_node_editor
<1>6. ASSUME on_add_node
      PROVE  TypeOK'
  <2>1. "vless" \in Protocols \cup {"raw"} /\ 0 \in U16
    BY DEF Protocols, U16
  <2>2. BlankDraft("vless", Empty, 0) \in EditorType
    BY <2>1, EmptyIsText, BlankDraftType
  <2>3. QED
    BY <1>4, <1>6, <2>2 DEF on_add_node
<1>7. ASSUME TypeIntoEditor
      PROVE  TypeOK'
  <2>1. /\ alive /\ UNCHANGED <<settingsVars, windowVars, node, form, alive>>
        /\ edits < MaxEdits /\ edits' = edits + 1
    BY <1>7 DEF TypeIntoEditor, Edit
  <2>2. edits' \in 0 .. MaxEdits
    BY <2>1, EditsAssumption DEF TypeOK
  <2>3. editor \in EditorType
    BY <1>7 DEF TypeIntoEditor, TypeOK
  <2>4. {"uuid", "alpn", "ws_path"} \subseteq DraftTexts
    BY DEF DraftTexts, Protocols, Fields, Required, TlsTexts, TransportTexts
  <2>5. PICK f \in {"uuid", "alpn", "ws_path"}, text \in Typed :
          editor' = [editor EXCEPT !.text[f] = text]
    BY <1>7 DEF TypeIntoEditor
  <2>6. editor' \in EditorType
    BY <2>3, <2>4, <2>5, TypingAssumption, EditorWith
  <2>7. QED
    BY <2>1, <2>2, <2>6 DEF settingsVars, windowVars, TypeOK
<1>8. ASSUME on_close_node_editor
      PROVE  TypeOK'
  BY <1>8 DEF on_close_node_editor, settingsVars, windowVars, TypeOK
<1>9. ASSUME on_save_node_editor
      PROVE  TypeOK'
  BY <1>9, SavingDies, DieType
<1>10. QED
  BY <1>2, <1>3, <1>5, <1>6, <1>7, <1>8, <1>9 DEF Nodes

LEMMA CommandLineType ==
  ASSUME TypeOK, CommandLine
  PROVE  TypeOK'
<1>1. ASSUME NEW new \in SettingsType, Cli(new)
      PROVE  TypeOK'
  <2>1. /\ UNCHANGED <<cache, windowVars, nodeVars, form, alive>>
        /\ disk' = new /\ stale' = alive
        /\ edits < MaxEdits /\ edits' = edits + 1
    BY <1>1 DEF Cli, Edit
  <2>2. edits' \in 0 .. MaxEdits
    BY <2>1, EditsAssumption DEF TypeOK
  <2>3. QED
    BY <1>1, <2>1, <2>2 DEF windowVars, nodeVars, TypeOK
<1>2. disk \in SettingsType
  BY DEF TypeOK
<1>3. ASSUME NEW mode \in Modes, run_routing_set(mode)
      PROVE  TypeOK'
  BY <1>1, <1>2, <1>3, SettingsWith DEF run_routing_set
<1>4. ASSUME NEW on \in BOOLEAN, run_tun(on) \/ run_sysproxy(on)
      PROVE  TypeOK'
  BY <1>1, <1>2, <1>4, SettingsWith DEF run_tun, run_sysproxy
<1>5. ASSUME NEW b \in Buckets, run_routing_rule_clear(b)
      PROVE  TypeOK'
  BY <1>1, <1>2, <1>5, SettingsWithRules, NoRulesType DEF run_routing_rule_clear
<1>6. ASSUME NEW b \in Buckets, NEW list \in Lists, NEW e \in RuleEntries,
             run_routing_rule_add(b, list, e)
      PROVE  TypeOK'
  <2>. DEFINE rules == disk.user_rules[b]
              edited == [rules EXCEPT ![list] = Append(@, Item(list, e))]
  <2>1. rules \in RuleListType
    BY <1>2, SettingsWithRules, NoRulesType
  <2>2. edited \in RuleListType
    BY <2>1, EntriesAssumption, ListWith
  <2>3. Cli([disk EXCEPT !.user_rules[b] = edited])
    BY <1>6 DEF run_routing_rule_add
  <2>. HIDE DEF edited
  <2>4. QED
    BY <1>1, <1>2, <2>2, <2>3, SettingsWithRules
<1>7. ASSUME NEW b \in Buckets, NEW list \in Lists, NEW e \in RuleEntries,
             run_routing_rule_remove(b, list, e)
      PROVE  TypeOK'
  <2>. DEFINE rules == disk.user_rules[b]
              edited == [rules EXCEPT ![list] =
                           filter(@, ToSet(@) \ {Item(list, e)})]
  <2>1. rules \in RuleListType
    BY <1>2, SettingsWithRules, NoRulesType
  <2>2. edited \in RuleListType
    BY <2>1, EntriesAssumption, ListWith
  <2>3. Cli([disk EXCEPT !.user_rules[b] = edited])
    BY <1>7 DEF run_routing_rule_remove
  <2>. HIDE DEF edited
  <2>4. QED
    BY <1>1, <1>2, <2>2, <2>3, SettingsWithRules
<1>8. QED
  BY <1>3, <1>4, <1>5, <1>6, <1>7 DEF CommandLine

LEMMA TypeStep == TypeOK /\ [Next]_vars => TypeOK'
<1>. SUFFICES ASSUME TypeOK, [Next]_vars
              PROVE  TypeOK'
  OBVIOUS
<1>1. CASE on_refresh \/ reload_posted
  BY <1>1 DEF on_refresh, reload_posted, reload, Elsewhere, nodeVars, TypeOK
<1>2. CASE launch
  <2>1. Window(disk) \in ShownType
    BY ShownWith DEF TypeOK
  <2>2. QED
    BY <1>2, <2>1 DEF launch, TypeOK
<1>3. CASE UNCHANGED vars
  BY <1>3 DEF vars, settingsVars, windowVars, nodeVars, TypeOK
<1>4. QED
  BY <1>1, <1>2, <1>3, RulesViewType, SwitchesType, SettingsPageType, NodesType,
     CommandLineType DEF Next

\* What a run holds keeps its shape: the settings on disk and in the cache are
\* a Settings, the node is an outbound whatever it was imported from, and the
\* window shows modes, drafts and i32 numbers that its types have.
THEOREM TypeIsCorrect == Spec => []TypeOK
<1>1. Init => TypeOK
  <2>. SUFFICES ASSUME Init
                PROVE  TypeOK
    OBVIOUS
  <2>1. disk \in SettingsType /\ cache = disk /\ edits \in 0 .. MaxEdits
    BY SettingsAssumption, EditsAssumption DEF Init
  <2>2. shown \in ShownType
    BY <2>1, ShownWith DEF Init
  <2>3. QED
    BY <2>1, <2>2 DEF Init, TypeOK
<1>2. QED
  BY <1>1, TypeStep, PTL DEF Spec

-----------------------------------------------------------------------------
(* Chips *)

\* An edit gives bucket b the rules of its lines, and touches no other.
LEMMA EditRulesIs ==
  ASSUME TypeOK, NEW b \in Buckets, NEW lines \in Seq(EntryType),
         EditRules(b, lines)
  PROVE  /\ \A c \in Buckets \ {b} :
              cache'.user_rules[c] = cache.user_rules[c]
         /\ EntriesOf(cache', b) = {e \in ToSet(lines) : ~Skipped(e)}
<1>. DEFINE edited == from_lines(lines)
<1>1. /\ alive /\ cache' = [cache EXCEPT !.user_rules[b] = edited]
  BY DEF EditRules, Handle, Elsewhere, save_settings
<1>2. ToSet(to_lines(edited)) = {e \in ToSet(lines) : ~Skipped(e)}
  BY FromLinesKeeps
<1>. HIDE DEF edited
<1>3. cache.user_rules \in [Buckets -> RuleListType] /\ "user_rules" \in DOMAIN cache
  BY <1>1 DEF TypeOK, SettingsType
<1>4. /\ cache'.user_rules[b] = edited
      /\ \A c \in Buckets \ {b} : cache'.user_rules[c] = cache.user_rules[c]
  BY <1>1, <1>3
<1>5. QED
  BY <1>2, <1>4 DEF EntriesOf

LEMMA ChipStep ==
  ASSUME TypeOK, NEW b \in Buckets, NEW e \in RuleEntries
  PROVE  LET others == \A c \in Buckets \ {b} :
                         cache'.user_rules[c] = cache.user_rules[c]
             added == IF Skipped(e) THEN {} ELSE {e}
         IN  /\ on_rule_add(b, e) =>
                  others /\ EntriesOf(cache', b) = EntriesOf(cache, b) \cup added
             /\ on_rule_remove(b, e) =>
                  others /\ EntriesOf(cache', b) = EntriesOf(cache, b) \ {e}
<1>. DEFINE lines == to_lines(cache.user_rules[b])
<1>1. e \in EntryType
  BY EntriesAssumption
<1>2. EntriesOf(cache, b) = {x \in ToSet(lines) : ~Skipped(x)}
  BY DEF EntriesOf
<1>3. alive => lines \in Seq(EntryType)
  BY SettingsWithRules, NoRulesType, LinesOf DEF TypeOK
<1>4. on_rule_add(b, e) => alive /\ EditRules(b, Append(lines, e))
  BY DEF on_rule_add, EditRules, Handle, Elsewhere
<1>5. on_rule_remove(b, e) =>
        alive /\ EditRules(b, filter(lines, ToSet(lines) \ {e}))
  BY DEF on_rule_remove
<1>. HIDE DEF lines
<1>6. ASSUME on_rule_add(b, e)
      PROVE  /\ \A c \in Buckets \ {b} :
                  cache'.user_rules[c] = cache.user_rules[c]
             /\ EntriesOf(cache', b) =
                  EntriesOf(cache, b) \cup (IF Skipped(e) THEN {} ELSE {e})
  <2>. DEFINE more == Append(lines, e)
  <2>1. more \in Seq(EntryType) /\ ToSet(more) = ToSet(lines) \cup {e}
    BY <1>1, <1>3, <1>4, <1>6, ToSetAppend
  <2>2. EditRules(b, more)
    BY <1>4, <1>6
  <2>. HIDE DEF more
  <2>3. /\ \A c \in Buckets \ {b} : cache'.user_rules[c] = cache.user_rules[c]
        /\ EntriesOf(cache', b) = {x \in ToSet(more) : ~Skipped(x)}
    BY <2>1, <2>2, EditRulesIs
  <2>4. QED
    BY <1>2, <2>1, <2>3
<1>7. ASSUME on_rule_remove(b, e)
      PROVE  /\ \A c \in Buckets \ {b} :
                  cache'.user_rules[c] = cache.user_rules[c]
             /\ EntriesOf(cache', b) = EntriesOf(cache, b) \ {e}
  <2>. DEFINE fewer == filter(lines, ToSet(lines) \ {e})
  <2>1. /\ fewer \in Seq(EntryType)
        /\ ToSet(fewer) = ToSet(lines) \cap (ToSet(lines) \ {e})
    BY <1>3, <1>5, <1>7, FilterSelects
  <2>2. EditRules(b, fewer)
    BY <1>5, <1>7
  <2>. HIDE DEF fewer
  <2>3. /\ \A c \in Buckets \ {b} : cache'.user_rules[c] = cache.user_rules[c]
        /\ EntriesOf(cache', b) = {x \in ToSet(fewer) : ~Skipped(x)}
    BY <2>1, <2>2, EditRulesIs
  <2>4. QED
    BY <1>2, <2>1, <2>3
<1>8. QED
  BY <1>6, <1>7

\* Adding or removing one chip leaves every other entry of its bucket, whatever
\* list the entry was in, and the other buckets as they were.
THEOREM ChipEditsKeepTheRest == Spec => ChipEditKeepsTheRest
<1>1. TypeOK =>
        [\A b \in Buckets, e \in RuleEntries :
           LET others == \A c \in Buckets \ {b} :
                           cache'.user_rules[c] = cache.user_rules[c]
               added == IF Skipped(e) THEN {} ELSE {e}
           IN  /\ on_rule_add(b, e) =>
                    others /\ EntriesOf(cache', b) = EntriesOf(cache, b) \cup added
               /\ on_rule_remove(b, e) =>
                    others /\ EntriesOf(cache', b) = EntriesOf(cache, b) \ {e}
        ]_vars
  BY ChipStep
<1>2. QED
  BY <1>1, TypeIsCorrect, PTL DEF ChipEditKeepsTheRest

-----------------------------------------------------------------------------
(* The cache *)

LEMMA CacheStep == CacheCurrent /\ [Next]_vars => CacheCurrent'
<1>. SUFFICES ASSUME CacheCurrent, [Next]_vars
              PROVE  CacheCurrent'
  OBVIOUS
<1>1. ASSUME NEW new, NEW view, NEW refreshed, Handle(new, view, refreshed)
      PROVE  CacheCurrent'
  BY <1>1 DEF Handle, save_settings, CacheCurrent
<1>2. ASSUME RulesView
      PROVE  CacheCurrent'
  BY <1>1, <1>2 DEF RulesView, on_rule_add, on_rule_remove, EditRules,
                    on_set_routing_mode
<1>3. ASSUME NEW on \in BOOLEAN, on_toggle_sysproxy(on)
      PROVE  CacheCurrent'
  BY <1>3 DEF on_toggle_sysproxy, CacheCurrent, settingsVars, nodeVars
<1>4. ASSUME Switches
      PROVE  CacheCurrent'
  BY <1>1, <1>3, <1>4 DEF Switches, on_toggle_cn, on_toggle_tun, on_preference
<1>5. ASSUME Die
      PROVE  CacheCurrent'
  BY <1>5 DEF Die, CacheCurrent
<1>6. ASSUME on_save_advanced_settings
      PROVE  CacheCurrent'
  BY <1>5, <1>6 DEF on_save_advanced_settings, save_settings, CacheCurrent
<1>7. ASSUME SettingsPage
      PROVE  CacheCurrent'
  BY <1>6, <1>7 DEF SettingsPage, on_open_settings, TypeIntoForm, settingsVars,
                    CacheCurrent
<1>8. ASSUME on_save_node_editor
      PROVE  CacheCurrent'
  BY <1>5, <1>8 DEF on_save_node_editor, settingsVars, CacheCurrent
<1>9. ASSUME Nodes
      PROVE  CacheCurrent'
  BY <1>8, <1>9 DEF Nodes, import_link, import_body, NewNode, Open,
       on_open_node_editor, on_add_node, TypeIntoEditor, on_close_node_editor,
       settingsVars, CacheCurrent
<1>10. ASSUME on_refresh \/ reload_posted \/ launch
       PROVE  CacheCurrent'
  BY <1>10 DEF on_refresh, reload_posted, reload, launch, CacheCurrent
<1>11. ASSUME NEW new, Cli(new)
       PROVE  CacheCurrent'
  BY <1>11 DEF Cli, CacheCurrent
<1>12. ASSUME CommandLine
       PROVE  CacheCurrent'
  BY <1>11, <1>12 DEF CommandLine, run_routing_set, run_routing_rule_add,
       run_routing_rule_remove, run_routing_rule_clear, run_tun, run_sysproxy
<1>13. ASSUME UNCHANGED vars
       PROVE  CacheCurrent'
  BY <1>13 DEF vars, settingsVars, CacheCurrent
<1>14. QED
  BY <1>2, <1>4, <1>7, <1>9, <1>10, <1>12, <1>13 DEF Next

\* No handler changes one of settings.json and the cache alone, unless a save
\* or the operating system fails it.
THEOREM CacheIsCurrent == Spec => []CacheCurrent
<1>1. Init => CacheCurrent
  BY DEF Init, CacheCurrent
<1>2. QED
  BY <1>1, CacheStep, PTL DEF Spec

-----------------------------------------------------------------------------
(* The rules, whatever is in settings.json *)

\* What the DNS rules answer with NXDOMAIN, the route rules reject.
THEOREM BlockedNamesAreRejected == Spec => []NxdomainOnlyForBlocked
<1>1. NxdomainOnlyForBlocked
  BY NxdomainIsRejected DEF NxdomainOnlyForBlocked
<1>2. QED
  BY <1>1, PTL

\* What goes direct by its name was resolved by the direct server.
THEOREM DirectNamesAreResolvedDirectly == Spec => []DirectNamesResolvedDirectly
<1>1. DirectNamesResolvedDirectly
  BY DirectIsResolvedDirectly DEF DirectNamesResolvedDirectly, ByName
<1>2. QED
  BY <1>1, PTL

\* The rules name the rule-sets that are declared, and no others.
THEOREM RuleSetsAreDeclared == Spec => []RuleSetsDeclared
<1>1. RuleSetsDeclared
  BY NamedAreDeclared DEF RuleSetsDeclared, Named
<1>2. QED
  BY <1>1, PTL

\* The servers, the proxy and the rule-sets can be started in some order.
THEOREM NeedsAreLoopFree == Spec => []LoopFree
<1>1. LoopFree
  BY NeedsAreOrdered DEF LoopFree
<1>2. QED
  BY <1>1, PTL

\* The preview reads the cache, the core was given settings.json: while the
\* two are in step, the preview of a name is its route.
THEOREM PreviewIsTheRoute == Spec => []PreviewAgrees
<1>1. CacheCurrent => PreviewAgrees
  <2>1. SUFFICES ASSUME CacheCurrent, alive, ~stale,
                        \A b \in Buckets :
                          GeositeCn \notin
                            compile_domains(disk.user_rules[b].domains),
                        NEW dest \in Destinations, Plain(dest)
                 PROVE  LET preview == classify_domain(cache.user_rules,
                                                       cache.routing, dest.host)
                        IN  Route(disk, dest) =
                              IF preview = "block" THEN "reject" ELSE preview
    BY DEF PreviewAgrees, Plain
  <2>2. cache = disk
    BY <2>1 DEF CacheCurrent
  <2>3. QED
    BY <2>1, <2>2, PreviewIsRoute
<1>2. QED
  BY <1>1, CacheIsCurrent, PTL

-----------------------------------------------------------------------------
(* The window.  WindowCurrent is not inductive by itself: that a change of  *)
(* one field leaves the others alone needs the fields to be there.          *)

Shown == {"cn", "tun", "sysproxy", "mode", "chips"}

WindowInv ==
  /\ DOMAIN disk = SettingsFields
  /\ alive => DOMAIN cache = SettingsFields /\ DOMAIN shown = Shown
  /\ WindowCurrent

\* Of a window view that shows settings s where it is not out of step.
ShowsToggles(view, s) ==
  \A t \in {"cn", "tun", "sysproxy"} : view[t] = Toggles(s)[t]
ShowsRules(view, s) == view.chips = ChipsOf(s)

LEMMA SettingsFieldNames ==
  SettingsFields = {"routing", "user_rules", "block_ads", "tun",
                    "system_proxy", "direct_dns", "remote_dns", "tun_mtu",
                    "preference"}
  BY DEF SettingsFields, DefaultSettings

LEMMA TogglesOf ==
  ASSUME NEW s
  PROVE  /\ Toggles(s)["cn"] = (s.routing = "cn-direct")
         /\ Toggles(s)["tun"] = s.tun
         /\ Toggles(s)["sysproxy"] = s.system_proxy
  BY DEF Toggles

\* A handler keeps the invariant if what it shows is what it saves.
LEMMA HandleStep ==
  ASSUME WindowInv, NEW new, NEW view, NEW refreshed,
         Handle(new, view, refreshed),
         DOMAIN new = SettingsFields, DOMAIN view = Shown,
         "toggles" \notin unseen => ShowsToggles(view, new),
         "rules" \notin unseen \/ "rules" \in refreshed => ShowsRules(view, new),
         "toggles" \notin refreshed
  PROVE  WindowInv'
<1>1. /\ cache' = new /\ shown' = view /\ unseen' = unseen \ refreshed
      /\ alive' = alive /\ (disk' = new \/ disk' = disk)
  BY DEF Handle, save_settings
<1>2. QED
  BY <1>1 DEF WindowInv, WindowCurrent, ShowsToggles, ShowsRules

\* A field that the window does not show.
LEMMA Unshown ==
  ASSUME NEW s, NEW t, NEW view,
         t.routing = s.routing, t.tun = s.tun, t.system_proxy = s.system_proxy,
         t.user_rules = s.user_rules
  PROVE  /\ ShowsToggles(view, s) => ShowsToggles(view, t)
         /\ ShowsRules(view, s) => ShowsRules(view, t)
  BY TogglesOf DEF ShowsToggles, ShowsRules, ChipsOf

LEMMA RulesViewStep == WindowInv /\ RulesView => WindowInv'
<1>. SUFFICES ASSUME WindowInv, RulesView
              PROVE  WindowInv'
  OBVIOUS
<1>. USE SettingsFieldNames
<1>1. ASSUME NEW b \in Buckets, NEW lines, EditRules(b, lines)
      PROVE  WindowInv'
  <2>. DEFINE new == [cache EXCEPT !.user_rules[b] = from_lines(lines)]
              view == refresh_rules_view(shown, new)
  <2>1. Handle(new, view, {"rules"}) /\ alive
    BY <1>1 DEF EditRules, Handle, Elsewhere
  <2>2. /\ DOMAIN cache = SettingsFields /\ DOMAIN shown = Shown
        /\ "toggles" \notin unseen => ShowsToggles(shown, cache)
    BY <2>1 DEF WindowInv, WindowCurrent, ShowsToggles
  <2>3. /\ DOMAIN new = SettingsFields
        /\ new.routing = cache.routing /\ new.tun = cache.tun
        /\ new.system_proxy = cache.system_proxy
    BY <2>2
  <2>. HIDE DEF new
  <2>4. /\ DOMAIN view = Shown /\ view.chips = ChipsOf(new)
        /\ view.cn = shown.cn /\ view.tun = shown.tun
        /\ view.sysproxy = shown.sysproxy
    BY <2>2 DEF refresh_rules_view, Shown
  <2>. HIDE DEF view
  <2>5. "toggles" \notin unseen => ShowsToggles(view, new)
    BY <2>2, <2>3, <2>4, TogglesOf DEF ShowsToggles
  <2>6. ShowsRules(view, new)
    BY <2>4 DEF ShowsRules
  <2>7. QED
    BY <2>1, <2>3, <2>4, <2>5, <2>6, HandleStep
<1>2. ASSUME NEW mode, on_set_routing_mode(mode)
      PROVE  WindowInv'
  <2>. DEFINE new == [cache EXCEPT !.routing = mode]
              view == [refresh_rules_view(shown, new)
                         EXCEPT !.cn = mode = "cn-direct"]
  <2>1. Handle(new, view, {"rules"}) /\ alive
    BY <1>2 DEF on_set_routing_mode, Handle, Elsewhere
  <2>2. /\ DOMAIN cache = SettingsFields /\ DOMAIN shown = Shown
        /\ "toggles" \notin unseen => ShowsToggles(shown, cache)
    BY <2>1 DEF WindowInv, WindowCurrent, ShowsToggles
  <2>3. /\ DOMAIN new = SettingsFields
        /\ new.routing = mode /\ new.tun = cache.tun
        /\ new.system_proxy = cache.system_proxy
    BY <2>2
  <2>. HIDE DEF new
  <2>4. /\ DOMAIN view = Shown /\ view.chips = ChipsOf(new)
        /\ view.cn = (mode = "cn-direct") /\ view.tun = shown.tun
        /\ view.sysproxy = shown.sysproxy
    BY <2>2 DEF refresh_rules_view, Shown
  <2>. HIDE DEF view
  <2>5. "toggles" \notin unseen => ShowsToggles(view, new)
    <3>1. view["cn"] = Toggles(new)["cn"]
      BY <2>3, <2>4, TogglesOf
    <3>2. "toggles" \notin unseen =>
            \A t \in {"tun", "sysproxy"} : view[t] = Toggles(new)[t]
      BY <2>2, <2>3, <2>4, TogglesOf DEF ShowsToggles
    <3>3. QED
      BY <3>1, <3>2 DEF ShowsToggles
  <2>6. ShowsRules(view, new)
    BY <2>4 DEF ShowsRules
  <2>7. QED
    BY <2>1, <2>3, <2>4, <2>5, <2>6, HandleStep
<1>3. QED
  BY <1>1, <1>2 DEF RulesView, on_rule_add, on_rule_remove

LEMMA SwitchesStep == WindowInv /\ Switches => WindowInv'
<1>. SUFFICES ASSUME WindowInv, Switches
              PROVE  WindowInv'
  OBVIOUS
<1>. USE SettingsFieldNames
<1>0. alive
  BY DEF Switches, on_toggle_cn, on_toggle_tun, on_toggle_sysproxy,
         on_preference, Handle, Elsewhere
<1>1. /\ DOMAIN cache = SettingsFields /\ DOMAIN shown = Shown
      /\ "toggles" \notin unseen => ShowsToggles(shown, cache)
      /\ "rules" \notin unseen => ShowsRules(shown, cache)
  BY <1>0 DEF WindowInv, WindowCurrent, ShowsToggles, ShowsRules
<1>2. ASSUME NEW on \in BOOLEAN, on_toggle_cn(on)
      PROVE  WindowInv'
  <2>. DEFINE new == [cache EXCEPT !.routing =
                        IF on THEN "cn-direct" ELSE "global"]
              view == [shown EXCEPT !.cn = on]
  <2>1. Handle(new, view, {})
    BY <1>2 DEF on_toggle_cn
  <2>2. /\ DOMAIN new = SettingsFields /\ DOMAIN view = Shown
        /\ new.tun = cache.tun /\ new.system_proxy = cache.system_proxy
        /\ new.user_rules = cache.user_rules
        /\ (new.routing = "cn-direct") = on
        /\ view.cn = on /\ view.tun = shown.tun
        /\ view.sysproxy = shown.sysproxy /\ view.chips = shown.chips
    BY <1>1 DEF Shown
  <2>. HIDE DEF new, view
  <2>3. "toggles" \notin unseen => ShowsToggles(view, new)
    BY <1>1, <2>2, TogglesOf DEF ShowsToggles
  <2>4. "rules" \notin unseen => ShowsRules(view, new)
    BY <1>1, <2>2 DEF ShowsRules, ChipsOf
  <2>5. QED
    BY <2>1, <2>2, <2>3, <2>4, HandleStep
<1>3. ASSUME NEW on \in BOOLEAN, on_toggle_tun(on)
      PROVE  WindowInv'
  <2>. DEFINE new == [cache EXCEPT !.tun = on]
              view == [shown EXCEPT !.tun = on]
  <2>1. Handle(new, view, {})
    BY <1>3 DEF on_toggle_tun
  <2>2. /\ DOMAIN new = SettingsFields /\ DOMAIN view = Shown
        /\ new.tun = on /\ new.system_proxy = cache.system_proxy
        /\ new.user_rules = cache.user_rules /\ new.routing = cache.routing
        /\ view.cn = shown.cn /\ view.tun = on
        /\ view.sysproxy = shown.sysproxy /\ view.chips = shown.chips
    BY <1>1 DEF Shown
  <2>. HIDE DEF new, view
  <2>3. "toggles" \notin unseen => ShowsToggles(view, new)
    BY <1>1, <2>2, TogglesOf DEF ShowsToggles
  <2>4. "rules" \notin unseen => ShowsRules(view, new)
    BY <1>1, <2>2 DEF ShowsRules, ChipsOf
  <2>5. QED
    BY <2>1, <2>2, <2>3, <2>4, HandleStep
<1>4. ASSUME NEW value, on_preference(value)
      PROVE  WindowInv'
  <2>. DEFINE new == [cache EXCEPT !.preference = value]
  <2>1. Handle(new, shown, {})
    BY <1>4 DEF on_preference
  <2>2. /\ DOMAIN new = SettingsFields
        /\ new.tun = cache.tun /\ new.system_proxy = cache.system_proxy
        /\ new.user_rules = cache.user_rules /\ new.routing = cache.routing
    BY <1>1
  <2>. HIDE DEF new
  <2>3. /\ "toggles" \notin unseen => ShowsToggles(shown, new)
        /\ "rules" \notin unseen => ShowsRules(shown, new)
    BY <1>1, <2>2, Unshown
  <2>4. QED
    BY <1>1, <2>1, <2>2, <2>3, HandleStep
<1>5. ASSUME NEW on \in BOOLEAN, on_toggle_sysproxy(on)
      PROVE  WindowInv'
  <2>. DEFINE view == [shown EXCEPT !.sysproxy = on]
              new == [cache EXCEPT !.system_proxy = on]
  <2>1. /\ shown' = view /\ alive' = alive
        /\ DOMAIN disk' = SettingsFields
        /\ \/ cache' = new /\ unseen' = unseen
           \/ cache' = cache /\ unseen' = unseen \cup {"toggles"}
    BY <1>5 DEF on_toggle_sysproxy, settingsVars, WindowInv
  <2>2. /\ DOMAIN new = SettingsFields /\ DOMAIN view = Shown
        /\ new.tun = cache.tun /\ new.system_proxy = on
        /\ new.user_rules = cache.user_rules /\ new.routing = cache.routing
        /\ view.cn = shown.cn /\ view.tun = shown.tun
        /\ view.sysproxy = on /\ view.chips = shown.chips
    BY <1>1 DEF Shown
  <2>. HIDE DEF view, new
  <2>3. "toggles" \notin unseen => ShowsToggles(view, new)
    BY <1>1, <2>2, TogglesOf DEF ShowsToggles
  <2>4. "rules" \notin unseen => ShowsRules(view, new) /\ ShowsRules(view, cache)
    BY <1>1, <2>2 DEF ShowsRules, ChipsOf
  <2>5. DOMAIN cache' = SettingsFields /\ DOMAIN shown' = Shown
    BY <1>1, <2>1, <2>2
  <2>6. WindowCurrent'
    BY <2>1, <2>3, <2>4 DEF WindowCurrent, ShowsToggles, ShowsRules
  <2>7. QED
    BY <2>1, <2>5, <2>6 DEF WindowInv
<1>6. QED
  BY <1>2, <1>3, <1>4, <1>5 DEF Switches

LEMMA SettingsPageStep == WindowInv /\ SettingsPage => WindowInv'
<1>. SUFFICES ASSUME WindowInv, SettingsPage
              PROVE  WindowInv'
  OBVIOUS
<1>. USE SettingsFieldNames
<1>1. ASSUME on_open_settings \/ TypeIntoForm
      PROVE  WindowInv'
  BY <1>1 DEF on_open_settings, TypeIntoForm, settingsVars, windowVars,
              WindowInv, WindowCurrent
<1>2. ASSUME on_save_advanced_settings
      PROVE  WindowInv'
  <2>1. CASE ClampPanics(576, AsI32(U32Max))
    BY <1>2, <2>1 DEF on_save_advanced_settings, Die, WindowInv, WindowCurrent
  <2>2. CASE ~ClampPanics(576, AsI32(U32Max))
    <3>. DEFINE new == [cache EXCEPT
               !.direct_dns = form.direct_dns, !.remote_dns = form.remote_dns,
               !.tun_mtu = clamp(form.tun_mtu, 576, AsI32(U32Max)),
               !.block_ads = form.block_ads]
    <3>1. /\ alive /\ alive' = alive /\ shown' = shown /\ unseen' = unseen
          /\ cache' = new /\ (disk' = new \/ disk' = disk)
      BY <1>2, <2>2 DEF on_save_advanced_settings, save_settings, windowVars
    <3>2. /\ DOMAIN cache = SettingsFields /\ DOMAIN shown = Shown
          /\ "toggles" \notin unseen => ShowsToggles(shown, cache)
          /\ "rules" \notin unseen => ShowsRules(shown, cache)
      BY <3>1 DEF WindowInv, WindowCurrent, ShowsToggles, ShowsRules
    <3>3. /\ DOMAIN new = SettingsFields
          /\ new.tun = cache.tun /\ new.system_proxy = cache.system_proxy
          /\ new.user_rules = cache.user_rules /\ new.routing = cache.routing
      BY <3>2
    <3>. HIDE DEF new
    <3>4. /\ "toggles" \notin unseen => ShowsToggles(shown, new)
          /\ "rules" \notin unseen => ShowsRules(shown, new)
      BY <3>2, <3>3, Unshown
    <3>5. QED
      BY <3>1, <3>2, <3>3, <3>4
         DEF WindowInv, WindowCurrent, ShowsToggles, ShowsRules
  <2>3. QED
    BY <2>1, <2>2
<1>3. QED
  BY <1>1, <1>2 DEF SettingsPage

LEMMA NodesStep == WindowInv /\ Nodes => WindowInv'
<1>. SUFFICES ASSUME WindowInv, Nodes
              PROVE  WindowInv'
  OBVIOUS
<1>1. \/ Die
      \/ UNCHANGED <<settingsVars, windowVars, alive>>
  BY DEF Nodes, import_link, import_body, NewNode, on_open_node_editor,
         on_add_node, Open, TypeIntoEditor, on_close_node_editor,
         on_save_node_editor
<1>2. CASE Die
  BY <1>2 DEF Die, WindowInv, WindowCurrent
<1>3. CASE UNCHANGED <<settingsVars, windowVars, alive>>
  BY <1>3 DEF settingsVars, windowVars, WindowInv, WindowCurrent
<1>4. QED
  BY <1>1, <1>2, <1>3

LEMMA CommandLineStep == WindowInv /\ CommandLine => WindowInv'
<1>. SUFFICES ASSUME WindowInv, CommandLine
              PROVE  WindowInv'
  OBVIOUS
<1>. USE SettingsFieldNames
<1>1. ASSUME NEW new, Cli(new), DOMAIN new = SettingsFields
      PROVE  WindowInv'
  BY <1>1 DEF Cli, windowVars, WindowInv, WindowCurrent
<1>2. DOMAIN disk = SettingsFields
  BY DEF WindowInv
<1>3. QED
  BY <1>1, <1>2 DEF CommandLine, run_routing_set, run_routing_rule_add,
     run_routing_rule_remove, run_routing_rule_clear, run_tun, run_sysproxy

LEMMA WindowOf ==
  ASSUME NEW s
  PROVE  /\ DOMAIN Window(s) = Shown
         /\ ShowsToggles(Window(s), s) /\ ShowsRules(Window(s), s)
<1>1. DOMAIN Window(s) = Shown /\ ShowsRules(Window(s), s)
  BY DEF Window, Shown, ShowsRules
<1>2. ShowsToggles(Window(s), s)
  BY DEF Window, Toggles, ShowsToggles
<1>3. QED
  BY <1>1, <1>2

\* Start runs what the window shows, unless a reload or a toggle that failed
\* came between.
THEOREM WindowIsCurrent == Spec => []WindowCurrent
<1>1. Init => WindowInv
  <2>1. \A s \in SettingsType : DOMAIN s = SettingsFields
    BY DEF SettingsType, SettingsFields, DefaultSettings
  <2>2. QED
    BY <2>1, SettingsAssumption, WindowOf
       DEF Init, WindowInv, WindowCurrent, ShowsToggles, ShowsRules
<1>2. WindowInv /\ [Next]_vars => WindowInv'
  <2>. SUFFICES ASSUME WindowInv, [Next]_vars
                PROVE  WindowInv'
    OBVIOUS
  <2>1. CASE on_refresh \/ reload_posted
    BY <2>1 DEF on_refresh, reload_posted, reload, WindowInv, WindowCurrent
  <2>2. CASE launch
    BY <2>2, WindowOf
       DEF launch, WindowInv, WindowCurrent, ShowsToggles, ShowsRules
  <2>3. CASE UNCHANGED vars
    BY <2>3 DEF vars, settingsVars, windowVars, WindowInv, WindowCurrent
  <2>4. QED
    BY <2>1, <2>2, <2>3, RulesViewStep, SwitchesStep, SettingsPageStep,
       NodesStep, CommandLineStep DEF Next
<1>3. WindowInv => WindowCurrent
  BY DEF WindowInv
<1>4. QED
  BY <1>1, <1>2, <1>3, PTL DEF Spec

-----------------------------------------------------------------------------
(* What comes of an outbound that goes through the draft and back      *)

\* An option that is shown as a text and read back.
Reread(o) == opt(unwrap_or_default(o))

TlsTrip(tls) ==
  [enabled |-> TRUE, server_name |-> Reread(tls.server_name),
   insecure |-> tls.insecure, alpn |-> tls.alpn,
   fingerprint |-> tls.fingerprint, reality |-> tls.reality]

HostsTrip(hosts) == split_csv(join(hosts))

TransportTrip(t) ==
  CASE t.type = "ws" ->
         [type |-> "ws", path |-> t.path, host |-> Reread(t.host)]
    [] t.type = "grpc" ->
         [type |-> "grpc", service_name |-> t.service_name,
          idle_timeout |-> None, permit_without_stream |-> None]
    [] t.type = "http" ->
         [type |-> "http", path |-> t.path, hosts |-> HostsTrip(t.hosts)]
    [] t.type = "httpupgrade" ->
         [type |-> "httpupgrade", path |-> t.path, host |-> Reread(t.host)]

TripTls(o) ==
  LET tls == ShownTls(o)
  IN  IF \/ tls = None
         \/ o.protocol \notin TlsAlways /\ ~tls.enabled
      THEN None ELSE TlsTrip(tls)

Trip(o) ==
  [protocol  |-> o.protocol, server |-> o.server, port |-> o.port,
   alter_id  |-> o.alter_id,
   fields    |-> [f \in Fields(o.protocol) |->
                    IF f \in Required[o.protocol] THEN o.fields[f]
                                                  ELSE Reread(o.fields[f])],
   tls       |-> TripTls(o),
   transport |-> IF o.transport = None THEN None ELSE TransportTrip(o.transport)]

LEMMA RereadIs ==
  ASSUME NEW o \in MaybeText
  PROVE  /\ Reread(o) = IF o = Empty THEN None ELSE o
         /\ Reread(o) \in GivenText
         /\ Reread(Reread(o)) = Reread(o)
  BY NoneIsAbsent, EmptyIsText
     DEF Reread, opt, unwrap_or_default, unwrap_or, MaybeText, GivenText

LEMMA PiecesTrip ==
  ASSUME NEW list \in PiecesType
  PROVE  HostsTrip(list) = list
<1>1. /\ DOMAIN list = 1 .. Len(list) /\ Len(list) \in Nat
      /\ \A i \in 1 .. Len(list) : list[i] \in [1 .. 1 -> Pieces]
  BY DEF PiecesType
<1>2. ASSUME NEW piece \in [1 .. 1 -> Pieces]
      PROVE  piece = <<piece[1]>> /\ Len(piece) = 1
  <2>1. piece = [i \in 1 .. 1 |-> piece[i]]
    OBVIOUS
  <2>2. [i \in 1 .. 1 |-> piece[i]] = <<piece[1]>>
    OBVIOUS
  <2>3. QED
    BY <2>1, <2>2
<1>3. list \in Seq(Seq(Pieces))
  BY PiecesAreTexts DEF TextType
<1>4. join(list) = [i \in 1 .. Len(list) |-> list[i][1]]
  <2>1. \A i \in 1 .. Len(list) : Len(list[i]) = 1
    BY <1>1, <1>2
  <2>2. QED
    BY <1>3, <2>1, JoinSingles DEF join
<1>5. split_csv(join(list)) = [i \in 1 .. Len(list) |-> <<list[i][1]>>]
  BY <1>4 DEF split_csv
<1>6. list = [i \in 1 .. Len(list) |-> list[i]]
  BY DEF PiecesType
<1>7. ASSUME NEW i \in 1 .. Len(list)
      PROVE  list[i] = <<list[i][1]>>
  <2>1. list[i] \in [1 .. 1 -> Pieces]
    BY <1>1
  <2>2. QED
    BY <1>2, <2>1
<1>8. QED
  BY <1>5, <1>6, <1>7 DEF HostsTrip

\* Hosts of one name each are shown and read back.
LEMMA HostsAre ==
  ASSUME NEW hosts \in Seq(TextType)
  PROVE  /\ HostsTrip(hosts) \in PiecesType
         /\ (\A i \in DOMAIN hosts : Len(hosts[i]) = 1) => HostsTrip(hosts) = hosts
<1>1. join(hosts) \in TextType
  BY JoinType DEF join, TextType
<1>2. HostsTrip(hosts) \in PiecesType
  BY <1>1, PiecesTypes DEF HostsTrip
<1>3. ASSUME \A i \in DOMAIN hosts : Len(hosts[i]) = 1
      PROVE  hosts \in PiecesType
  <2>1. /\ DOMAIN hosts = 1 .. Len(hosts) /\ Len(hosts) \in Nat
        /\ \A i \in 1 .. Len(hosts) : hosts[i] \in Seq(Pieces)
    BY DEF TextType
  <2>2. ASSUME NEW text \in Seq(Pieces), Len(text) = 1
        PROVE  text \in [1 .. 1 -> Pieces]
    BY <2>2
  <2>3. \A i \in 1 .. Len(hosts) : hosts[i] \in [1 .. 1 -> Pieces]
    BY <1>3, <2>1, <2>2
  <2>4. QED
    BY <2>1, <2>3 DEF PiecesType
<1>4. QED
  BY <1>2, <1>3, PiecesTrip

LEMMA TlsTripIs ==
  ASSUME NEW tls \in TlsType
  PROVE  /\ TlsTrip(tls) \in TlsType
         /\ TlsTrip(TlsTrip(tls)) = TlsTrip(tls)
         /\ tls.server_name # Empty => TlsJson(TlsTrip(tls)) = TlsJson(tls)
<1>. DEFINE trip == TlsTrip(tls)
<1>1. /\ tls.server_name \in MaybeText /\ tls.insecure \in BOOLEAN
      /\ tls.alpn \in PiecesType /\ tls.fingerprint \in GivenText
      /\ tls.reality \in RealityType \cup {None}
      /\ tls.enabled \in BOOLEAN
  BY DEF TlsType
<1>2. /\ Reread(tls.server_name) \in MaybeText
      /\ Reread(Reread(tls.server_name)) = Reread(tls.server_name)
      /\ tls.server_name # Empty => Reread(tls.server_name) = tls.server_name
  BY <1>1, RereadIs DEF GivenText
<1>3. trip \in TlsType
  BY <1>1, <1>2 DEF TlsType, TlsTrip
<1>4. TlsTrip(trip) = trip
  BY <1>2 DEF TlsTrip
<1>5. ASSUME tls.server_name # Empty
      PROVE  TlsJson(trip) = TlsJson(tls)
  <2>1. /\ DOMAIN trip = DOMAIN tls
        /\ \A k \in DOMAIN tls \ {"enabled"} : trip[k] = tls[k]
    BY <1>2, <1>5 DEF TlsTrip, TlsType
  <2>. HIDE DEF trip
  <2>2. QED
    BY <2>1 DEF TlsJson
<1>6. QED
  BY <1>3, <1>4, <1>5

LEMMA TransportTripIs ==
  ASSUME NEW t \in TransportType
  PROVE  /\ TransportTrip(t) \in TransportType
         /\ TransportTrip(TransportTrip(t)) = TransportTrip(t)
<1>1. CASE t.type \in {"ws", "httpupgrade"}
  <2>1. t.path \in TextType /\ t.host \in MaybeText
    BY <1>1 DEF TransportType
  <2>2. TransportTrip(t) =
          [type |-> t.type, path |-> t.path, host |-> Reread(t.host)]
    BY <1>1 DEF TransportTrip
  <2>3. Reread(t.host) \in MaybeText /\ Reread(Reread(t.host)) = Reread(t.host)
    BY <2>1, RereadIs DEF GivenText
  <2>4. TransportTrip(t) \in TransportType
    BY <1>1, <2>1, <2>2, <2>3, WsIs
  <2>5. TransportTrip(TransportTrip(t)) = TransportTrip(t)
    BY <1>1, <2>2, <2>3 DEF TransportTrip
  <2>6. QED
    BY <2>4, <2>5
<1>2. CASE t.type = "grpc"
  <2>1. t.service_name \in TextType
    BY <1>2 DEF TransportType
  <2>2. TransportTrip(t) =
          [type |-> "grpc", service_name |-> t.service_name,
           idle_timeout |-> None, permit_without_stream |-> None]
    BY <1>2 DEF TransportTrip
  <2>3. TransportTrip(t) \in TransportType
    BY <2>1, <2>2, NoneIsAbsent, GrpcIs
  <2>. DEFINE trip == TransportTrip(t)
  <2>4. trip.type = "grpc" /\ trip.service_name = t.service_name
    BY <2>2
  <2>. HIDE DEF trip
  <2>5. TransportTrip(trip) =
          [type |-> "grpc", service_name |-> t.service_name,
           idle_timeout |-> None, permit_without_stream |-> None]
    BY <2>4 DEF TransportTrip
  <2>6. QED
    BY <2>2, <2>3, <2>5 DEF trip
<1>3. CASE t.type = "http"
  <2>1. t.path \in TextType /\ t.hosts \in Seq(TextType)
    BY <1>3 DEF TransportType
  <2>. DEFINE hosts == HostsTrip(t.hosts)
  <2>2. TransportTrip(t) = [type |-> "http", path |-> t.path, hosts |-> hosts]
    BY <1>3 DEF TransportTrip
  <2>3. hosts \in PiecesType /\ HostsTrip(hosts) = hosts
    BY <2>1, HostsAre, PiecesTrip
  <2>. HIDE DEF hosts
  <2>4. TransportTrip(t) \in TransportType
    BY <2>1, <2>2, <2>3, PiecesAreTexts, HttpIs
  <2>. DEFINE trip == TransportTrip(t)
  <2>5. trip.type = "http" /\ trip.path = t.path /\ trip.hosts = hosts
    BY <2>2
  <2>. HIDE DEF trip
  <2>6. TransportTrip(trip) = [type |-> "http", path |-> t.path, hosts |-> hosts]
    BY <2>3, <2>5 DEF TransportTrip
  <2>7. QED
    BY <2>2, <2>4, <2>6 DEF trip
<1>4. QED
  BY <1>1, <1>2, <1>3 DEF TransportType

LEMMA DraftIs ==
  ASSUME NEW p \in Protocols, NEW o \in OutboundType(p)
  PROVE  LET d == outbound_to_draft(o)
             tls == ShownTls(o)
         IN  /\ d.protocol = p /\ d.server = o.server /\ d.port = o.port
             /\ d.alter_id = o.alter_id
             /\ d.tls_enabled = (tls # None /\ tls.enabled)
             /\ d.insecure = (tls # None /\ tls.insecure)
             /\ d.transport_type = IF o.transport = None THEN NoName
                                   ELSE o.transport.type
             /\ \A f \in Fields(p) : d.text[f] = unwrap_or_default(o.fields[f])
             /\ tls # None => \A f \in TlsTexts : d.text[f] = tls_to_draft(tls)[f]
             /\ o.transport # None =>
                  \A f \in TransportTexts[o.transport.type] :
                    d.text[f] = transport_to_draft(o.transport)[f]
<1>1. /\ o.protocol = p /\ p # "raw"
      /\ o.transport # None => o.transport.type \in DOMAIN TransportTexts
  BY DEF OutboundType, Protocols, TransportType, TransportTexts
<1>. DEFINE d == outbound_to_draft(o)
            tls == ShownTls(o)
            text == [f \in DraftTexts |->
              CASE f \in Fields(p) -> unwrap_or_default(o.fields[f])
                [] tls # None /\ f \in TlsTexts -> tls_to_draft(tls)[f]
                [] /\ o.transport # None
                   /\ f \in TransportTexts[o.transport.type] ->
                     transport_to_draft(o.transport)[f]
                [] OTHER -> Empty]
<1>2. d = [protocol       |-> p,
           server         |-> o.server,
           port           |-> o.port,
           alter_id       |-> o.alter_id,
           tls_enabled    |-> tls # None /\ tls.enabled,
           insecure       |-> tls # None /\ tls.insecure,
           transport_type |-> IF o.transport = None THEN NoName
                              ELSE o.transport.type,
           text           |-> text]
  BY <1>1 DEF outbound_to_draft
<1>3. \A f \in Fields(p) :
        f \in DraftTexts /\ f \notin TlsTexts
        /\ (o.transport # None => f \notin TransportTexts[o.transport.type])
  BY <1>1, DraftTextsAre
<1>4. \A f \in TlsTexts :
        f \in DraftTexts /\ f \notin Fields(p)
        /\ (o.transport # None => f \notin TransportTexts[o.transport.type])
  BY <1>1, DraftTextsAre
<1>5. o.transport # None =>
        \A f \in TransportTexts[o.transport.type] :
          f \in DraftTexts /\ f \notin Fields(p) /\ f \notin TlsTexts
  BY <1>1, DraftTextsAre
<1>. HIDE DEF tls
<1>6. \A f \in Fields(p) : text[f] = unwrap_or_default(o.fields[f])
  BY <1>3
<1>7. tls # None => \A f \in TlsTexts : text[f] = tls_to_draft(tls)[f]
  BY <1>4
<1>8. o.transport # None =>
        \A f \in TransportTexts[o.transport.type] :
          text[f] = transport_to_draft(o.transport)[f]
  BY <1>5
<1>. HIDE DEF d, text
<1>9. /\ d.protocol = p /\ d.server = o.server /\ d.port = o.port
      /\ d.alter_id = o.alter_id
      /\ d.tls_enabled = (tls # None /\ tls.enabled)
      /\ d.insecure = (tls # None /\ tls.insecure)
      /\ d.transport_type = IF o.transport = None THEN NoName
                            ELSE o.transport.type
      /\ d.text = text
  BY <1>2
<1>10. QED
  BY <1>6, <1>7, <1>8, <1>9 DEF d, tls

LEMMA TlsIsReread ==
  ASSUME NEW tls \in TlsType, NEW d, d.insecure = tls.insecure,
         \A f \in TlsTexts : d.text[f] = tls_to_draft(tls)[f]
  PROVE  tls_from_draft(d) = TlsTrip(tls)
<1>1. /\ d.text["sni"] = unwrap_or_default(tls.server_name)
      /\ d.text["alpn"] = join(tls.alpn)
      /\ d.text["fingerprint"] = unwrap_or_default(tls.fingerprint)
      /\ d.text["reality_public_key"] =
           IF tls.reality = None THEN Empty ELSE tls.reality.public_key
      /\ d.text["reality_short_id"] =
           IF tls.reality = None THEN Empty ELSE tls.reality.short_id
  BY DEF TlsTexts, tls_to_draft
<1>2. /\ tls.alpn \in PiecesType /\ tls.fingerprint \in GivenText
      /\ tls.reality \in RealityType \cup {None}
  BY DEF TlsType
<1>3. split_csv(join(tls.alpn)) = tls.alpn
  BY <1>2, PiecesTrip DEF HostsTrip
<1>4. opt(unwrap_or_default(tls.fingerprint)) = tls.fingerprint
  BY <1>2, RereadIs DEF Reread, GivenText
<1>5. tls.reality # None =>
        /\ tls.reality.public_key # Empty
        /\ tls.reality = [public_key |-> tls.reality.public_key,
                          short_id   |-> tls.reality.short_id]
  BY <1>2 DEF RealityType
<1>6. QED
  BY <1>1, <1>3, <1>4, <1>5 DEF tls_from_draft, TlsTrip, Reread

LEMMA TransportIsReread ==
  ASSUME NEW t \in TransportType, NEW d, d.transport_type = t.type,
         \A f \in TransportTexts[t.type] : d.text[f] = transport_to_draft(t)[f]
  PROVE  transport_from_draft(d) = TransportTrip(t)
<1>1. CASE t.type = "ws"
  <2>1. /\ d.text["ws_path"] = t.path
        /\ d.text["ws_host"] = unwrap_or_default(t.host)
    BY <1>1 DEF TransportTexts, transport_to_draft
  <2>2. QED
    BY <1>1, <2>1 DEF transport_from_draft, TransportTrip, Reread
<1>2. CASE t.type = "grpc"
  <2>1. d.text["grpc_service_name"] = t.service_name
    BY <1>2 DEF TransportTexts, transport_to_draft
  <2>2. QED
    BY <1>2, <2>1 DEF transport_from_draft, TransportTrip
<1>3. CASE t.type = "http"
  <2>1. d.text["http_path"] = t.path /\ d.text["http_host"] = join(t.hosts)
    BY <1>3 DEF TransportTexts, transport_to_draft
  <2>2. QED
    BY <1>3, <2>1 DEF transport_from_draft, TransportTrip, HostsTrip
<1>4. CASE t.type = "httpupgrade"
  <2>1. /\ d.text["httpupgrade_path"] = t.path
        /\ d.text["httpupgrade_host"] = unwrap_or_default(t.host)
    BY <1>4 DEF TransportTexts, transport_to_draft
  <2>2. QED
    BY <1>4, <2>1 DEF transport_from_draft, TransportTrip, Reread
<1>5. QED
  BY <1>1, <1>2, <1>3, <1>4 DEF TransportType

\* A draft without a transport.
LEMMA NoNameIsNone ==
  NoName \notin {"ws", "grpc", "http", "httpupgrade"}
  BY Zenon DEF NoName

\* What an outbound becomes that goes through the draft as it is.
LEMMA ThroughDraftIsTrip ==
  ASSUME NEW p \in Protocols, NEW o \in OutboundType(p)
  PROVE  ThroughDraft(o) = Trip(o)
<1>. DEFINE d == outbound_to_draft(o)
            tls == ShownTls(o)
<1>1. /\ d.protocol = p /\ d.server = o.server /\ d.port = o.port
      /\ d.alter_id = o.alter_id
      /\ d.tls_enabled = (tls # None /\ tls.enabled)
      /\ d.insecure = (tls # None /\ tls.insecure)
      /\ d.transport_type = IF o.transport = None THEN NoName
                            ELSE o.transport.type
      /\ \A f \in Fields(p) : d.text[f] = unwrap_or_default(o.fields[f])
      /\ tls # None => \A f \in TlsTexts : d.text[f] = tls_to_draft(tls)[f]
      /\ o.transport # None =>
           \A f \in TransportTexts[o.transport.type] :
             d.text[f] = transport_to_draft(o.transport)[f]
  BY DraftIs
<1>2. /\ o.protocol = p /\ (p # "vmess" => o.alter_id = 0)
      /\ o.fields \in [Fields(p) -> MaybeText]
      /\ \A f \in Required[p] : o.fields[f] # None
      /\ o.transport # None => p \in StreamIn /\ o.transport \in TransportType
  BY DEF OutboundType
<1>3. /\ tls # None => tls \in TlsType /\ p \in TlsAlways \cup TlsIn
      /\ p \in TlsAlways => tls # None
  BY ShownTlsIs
<1>. HIDE DEF d, tls
<1>4. tls # None => tls_from_draft(d) = TlsTrip(tls) /\ tls.enabled \in BOOLEAN
  <2>1. tls # None => d.insecure = tls.insecure
    BY <1>1, <1>3 DEF TlsType
  <2>2. QED
    BY <1>1, <1>3, <2>1, TlsIsReread DEF TlsType
<1>. DEFINE q == d.protocol
            v == [f \in Fields(q) |-> IF f \in Required[q] THEN d.text[f]
                                     ELSE opt(d.text[f])]
            dtls == IF \/ q \in TlsAlways
                       \/ q \in TlsIn /\ d.tls_enabled
                    THEN tls_from_draft(d) ELSE None
            dtransport == IF q \in StreamIn THEN transport_from_draft(d) ELSE None
            alter_id == IF q = "vmess" THEN d.alter_id ELSE 0
            u == [f \in Fields(p) |-> IF f \in Required[p] THEN o.fields[f]
                                     ELSE Reread(o.fields[f])]
            transport == IF o.transport = None THEN None
                         ELSE TransportTrip(o.transport)
<1>5. dtls = TripTls(o)
  <2>1. TlsAlways \cap TlsIn = {}
    BY DEF TlsAlways, TlsIn, StreamIn
  <2>2. TripTls(o) = IF \/ tls = None
                        \/ p \notin TlsAlways /\ ~tls.enabled
                     THEN None ELSE TlsTrip(tls)
    BY <1>2 DEF TripTls, tls
  <2>3. CASE tls = None
    BY <1>1, <1>3, <2>2, <2>3
  <2>4. CASE tls # None /\ p \in TlsAlways
    BY <1>1, <1>4, <2>2, <2>4
  <2>5. CASE tls # None /\ p \notin TlsAlways /\ tls.enabled
    BY <1>1, <1>3, <1>4, <2>2, <2>5
  <2>6. CASE tls # None /\ p \notin TlsAlways /\ ~tls.enabled
    BY <1>1, <2>2, <2>6
  <2>7. QED
    BY <2>3, <2>4, <2>5, <2>6
<1>6. dtransport = transport
  <2>1. CASE o.transport = None
    BY <1>1, <2>1, NoNameIsNone DEF transport_from_draft
  <2>2. CASE o.transport # None
    BY <1>1, <1>2, <2>2, TransportIsReread
  <2>3. QED
    BY <2>1, <2>2
<1>7. v = u
  <2>1. \A f \in Fields(p) :
          (IF f \in Required[p] THEN d.text[f] ELSE opt(d.text[f]))
            = IF f \in Required[p] THEN o.fields[f] ELSE Reread(o.fields[f])
    BY <1>1, <1>2 DEF Reread, unwrap_or_default, unwrap_or
  <2>2. QED
    BY <1>1, <2>1
<1>8. alter_id = o.alter_id
  BY <1>1, <1>2
<1>9. draft_to_outbound(d) =
        [protocol |-> q, server |-> d.server, port |-> d.port,
         alter_id |-> alter_id, fields |-> v, tls |-> dtls,
         transport |-> dtransport]
  BY Zenon DEF draft_to_outbound
<1>10. Trip(o) = [protocol |-> o.protocol, server |-> o.server, port |-> o.port,
                  alter_id |-> o.alter_id, fields |-> u, tls |-> TripTls(o),
                  transport |-> transport]
  BY <1>2, Zenon DEF Trip
<1>. HIDE DEF q, v, dtls, dtransport, alter_id, u, transport
<1>11. QED
  BY <1>1, <1>2, <1>5, <1>6, <1>7, <1>8, <1>9, <1>10 DEF ThroughDraft, d, q

LEMMA TripType ==
  ASSUME NEW p \in Protocols, NEW o \in OutboundType(p)
  PROVE  Trip(o) \in OutboundType(p)
<1>1. /\ o.protocol = p /\ o.server \in TextType /\ o.port \in U16
      /\ o.alter_id \in IF p = "vmess" THEN Nat ELSE {0}
      /\ o.fields \in [Fields(p) -> MaybeText]
      /\ \A f \in Required[p] : o.fields[f] # None
      /\ o.transport # None => p \in StreamIn /\ o.transport \in TransportType
  BY DEF OutboundType
<1>. DEFINE v == [f \in Fields(p) |-> IF f \in Required[p] THEN o.fields[f]
                                     ELSE Reread(o.fields[f])]
            tls == TripTls(o)
            transport == IF o.transport = None THEN None
                         ELSE TransportTrip(o.transport)
<1>2. v \in {u \in [Fields(p) -> MaybeText] : \A f \in Required[p] : u[f] # None}
  <2>1. \A f \in Fields(p) : Reread(o.fields[f]) \in MaybeText
    BY <1>1, RereadIs DEF GivenText
  <2>2. QED
    BY <1>1, <2>1, FieldNames
<1>3. tls \in {None} \cup (IF p \in TlsAlways \cup TlsIn THEN TlsType ELSE {})
  BY ShownTlsIs, TlsTripIs DEF TripTls
<1>4. transport \in {None} \cup (IF p \in StreamIn THEN TransportType ELSE {})
  BY <1>1, TransportTripIs
<1>5. Trip(o) = [protocol |-> p, server |-> o.server, port |-> o.port,
                 alter_id |-> o.alter_id, fields |-> v, tls |-> tls,
                 transport |-> transport]
  BY <1>1 DEF Trip
<1>. HIDE DEF v, tls, transport
<1>6. QED
  BY <1>1, <1>2, <1>3, <1>4, <1>5 DEF OutboundType

LEMMA TripIsStable ==
  ASSUME NEW p \in Protocols, NEW o \in OutboundType(p)
  PROVE  Trip(Trip(o)) = Trip(o)
<1>. DEFINE s == Trip(o)
            v == [f \in Fields(p) |-> IF f \in Required[p] THEN o.fields[f]
                                     ELSE Reread(o.fields[f])]
            transport == IF o.transport = None THEN None
                         ELSE TransportTrip(o.transport)
<1>1. /\ o.protocol = p /\ o.fields \in [Fields(p) -> MaybeText]
      /\ o.transport # None => o.transport \in TransportType
  BY DEF OutboundType
<1>2. s = [protocol |-> p, server |-> o.server, port |-> o.port,
           alter_id |-> o.alter_id, fields |-> v, tls |-> TripTls(o),
           transport |-> transport]
  BY <1>1 DEF Trip
<1>3. [f \in Fields(p) |-> IF f \in Required[p] THEN v[f] ELSE Reread(v[f])] = v
  <2>1. \A f \in Fields(p) : Reread(Reread(o.fields[f])) = Reread(o.fields[f])
    BY <1>1, RereadIs
  <2>2. QED
    BY <2>1
<1>4. (IF transport = None THEN None ELSE TransportTrip(transport)) = transport
  BY <1>1, TransportTripIs, NoneIsAbsent
<1>. HIDE DEF v, transport, s
<1>5. /\ s.protocol = p /\ s.server = o.server /\ s.port = o.port
      /\ s.alter_id = o.alter_id /\ s.fields = v /\ s.tls = TripTls(o)
      /\ s.transport = transport
  BY <1>2
<1>6. TripTls(s) = s.tls
  <2>. DEFINE tls == ShownTls(o)
  <2>1. /\ tls # None => tls \in TlsType
        /\ p \in TlsAlways => tls # None
    BY ShownTlsIs
  <2>2. TripTls(o) = IF \/ tls = None
                        \/ p \notin TlsAlways /\ ~tls.enabled
                     THEN None ELSE TlsTrip(tls)
    BY <1>1 DEF TripTls
  <2>. HIDE DEF tls
  <2>3. CASE s.tls = None
    <3>1. p \notin TlsAlways
      BY <1>5, <2>1, <2>2, <2>3, TlsTripIs, NoneIsAbsent
    <3>2. QED
      BY <1>5, <2>3, <3>1 DEF TripTls, ShownTls
  <2>4. CASE s.tls # None
    <3>1. tls \in TlsType /\ s.tls = TlsTrip(tls)
      BY <1>5, <2>1, <2>2, <2>4
    <3>2. s.tls.enabled = TRUE /\ TlsTrip(s.tls) = s.tls
      BY <3>1, TlsTripIs DEF TlsTrip
    <3>3. ShownTls(s) = s.tls
      BY <2>4 DEF ShownTls, unwrap_or
    <3>4. QED
      BY <2>4, <3>2, <3>3 DEF TripTls
  <2>5. QED
    BY <2>3, <2>4
<1>7. [f \in Fields(s.protocol) |-> IF f \in Required[s.protocol] THEN s.fields[f]
                                                    ELSE Reread(s.fields[f])]
        = v
  BY <1>3, <1>5
<1>8. (IF s.transport = None THEN None ELSE TransportTrip(s.transport)) = transport
  BY <1>4, <1>5
<1>9. Trip(s) = s
  BY <1>2, <1>5, <1>6, <1>7, <1>8 DEF Trip
<1>10. QED
  BY <1>9 DEF s

\* Trip loses no required field.
LEMMA TripIsComplete ==
  ASSUME NEW p \in Protocols, NEW o \in OutboundType(p),
         Complete(outbound_to_draft(o))
  PROVE  Complete(outbound_to_draft(Trip(o)))
<1>. DEFINE s == Trip(o)
            d == outbound_to_draft(o)
            e == outbound_to_draft(s)
<1>1. s \in OutboundType(p)
  BY TripType
<1>2. /\ d.protocol = p /\ d.server = o.server /\ d.port = o.port
      /\ \A f \in Fields(p) : d.text[f] = unwrap_or_default(o.fields[f])
  BY DraftIs
<1>. HIDE DEF s
<1>3. /\ e.protocol = p /\ e.server = s.server /\ e.port = s.port
      /\ \A f \in Fields(p) : e.text[f] = unwrap_or_default(s.fields[f])
  BY <1>1, DraftIs
<1>4. o.protocol = p
  BY DEF OutboundType
<1>5. /\ s.server = o.server /\ s.port = o.port
      /\ \A f \in Required[p] : s.fields[f] = o.fields[f]
  BY <1>4, FieldNames DEF Trip, s
<1>6. Complete(d)
  OBVIOUS
<1>. HIDE DEF d, e
<1>7. Complete(e)
  BY <1>2, <1>3, <1>5, <1>6, FieldNames DEF Complete
<1>8. QED
  BY <1>7 DEF e, s

\* sing-box is told the same of an outbound that is Lossless.
LEMMA TripIsRendered ==
  ASSUME NEW p \in Protocols, NEW o \in OutboundType(p), Lossless(o)
  PROVE  to_singbox(Trip(o)) = to_singbox(o)
<1>. DEFINE s == Trip(o)
            tls == ShownTls(o)
<1>1. /\ o.protocol = p /\ p # "raw" /\ o.fields \in [Fields(p) -> MaybeText]
      /\ o.transport # None => o.transport \in TransportType
      /\ o.tls # None => o.tls \in TlsType
  BY DEF OutboundType, Protocols
<1>2. /\ \A f \in Optional[p] : o.fields[f] # Empty
      /\ o.tls # None => o.tls.server_name # Empty
  BY <1>1 DEF Lossless
<1>3. [f \in Fields(p) |-> IF f \in Required[p] THEN o.fields[f]
                                              ELSE Reread(o.fields[f])]
        = o.fields
  <2>1. \A f \in Fields(p) \ Required[p] : Reread(o.fields[f]) = o.fields[f]
    BY <1>1, <1>2, RereadIs DEF Fields
  <2>2. QED
    BY <1>1, <2>1
<1>4. o.transport # None => TransportTrip(o.transport) = o.transport
  <2>. SUFFICES ASSUME o.transport # None
                PROVE  TransportTrip(o.transport) = o.transport
    OBVIOUS
  <2>. DEFINE t == o.transport
  <2>1. t \in TransportType
    BY <1>1
  <2>2. CASE t.type = "grpc"
    <3>1. t.idle_timeout = None /\ t.permit_without_stream = None
      BY <2>2 DEF Lossless
    <3>2. QED
      BY <2>1, <2>2, <3>1 DEF TransportTrip, TransportType
  <2>3. CASE t.type = "http"
    <3>1. t.hosts \in Seq(TextType) /\ \A i \in DOMAIN t.hosts : Len(t.hosts[i]) = 1
      BY <2>1, <2>3 DEF Lossless, TransportType
    <3>2. HostsTrip(t.hosts) = t.hosts
      BY <3>1, HostsAre
    <3>3. QED
      BY <2>1, <2>3, <3>2 DEF TransportTrip, TransportType
  <2>4. CASE t.type \in {"ws", "httpupgrade"}
    <3>1. t.host # Empty /\ t.host \in MaybeText
      BY <2>1, <2>4 DEF Lossless, TransportType
    <3>2. Reread(t.host) = t.host
      BY <3>1, RereadIs
    <3>3. QED
      BY <2>1, <2>4, <3>2 DEF TransportTrip, TransportType
  <2>5. QED
    BY <2>1, <2>2, <2>3, <2>4 DEF TransportType
<1>5. /\ s.protocol = p /\ s.server = o.server /\ s.port = o.port
      /\ s.alter_id = o.alter_id /\ s.fields = o.fields /\ s.tls = TripTls(o)
      /\ s.transport = o.transport
  BY <1>1, <1>3, <1>4 DEF Trip
<1>. HIDE DEF s
<1>6. tls # None => /\ tls \in TlsType /\ tls.server_name # Empty
                    /\ TlsJson(TlsTrip(tls)) = TlsJson(tls)
  <2>1. DefaultTls.server_name # Empty
    BY NoneIsAbsent, EmptyIsText DEF DefaultTls
  <2>2. tls # None => tls.server_name # Empty
    BY <1>2, <2>1 DEF ShownTls, unwrap_or
  <2>3. QED
    BY <2>2, ShownTlsIs, TlsTripIs
<1>. DEFINE json(n) == CASE p \in TlsAlways -> TlsJson(unwrap_or(n.tls, DefaultTls))
                         [] /\ p \in TlsIn
                            /\ n.tls # None /\ n.tls.enabled -> TlsJson(n.tls)
                         [] OTHER -> None
<1>7. json(s) = json(o)
  <2>1. TlsAlways \cap TlsIn = {}
    BY DEF TlsAlways, TlsIn, StreamIn
  <2>2. TripTls(o) = IF \/ tls = None
                        \/ p \notin TlsAlways /\ ~tls.enabled
                     THEN None ELSE TlsTrip(tls)
    BY <1>1 DEF TripTls
  <2>3. CASE p \in TlsAlways
    <3>1. tls = unwrap_or(o.tls, DefaultTls) /\ tls # None
      BY <1>1, <2>3, ShownTlsIs DEF ShownTls
    <3>2. s.tls = TlsTrip(tls) /\ s.tls # None
      BY <1>5, <1>6, <2>2, <2>3, <3>1, TlsTripIs, NoneIsAbsent
    <3>3. unwrap_or(s.tls, DefaultTls) = TlsTrip(tls)
      BY <3>2 DEF unwrap_or
    <3>4. QED
      BY <1>6, <2>1, <2>3, <3>1, <3>3
  <2>4. CASE p \notin TlsAlways
    <3>1. tls = o.tls
      BY <1>1, <2>4 DEF ShownTls
    <3>2. CASE tls = None
      BY <1>5, <2>2, <2>4, <3>1, <3>2
    <3>3. CASE tls # None /\ ~tls.enabled
      BY <1>5, <2>2, <2>4, <3>1, <3>3
    <3>4. CASE tls # None /\ tls.enabled
      <4>1. s.tls = TlsTrip(tls) /\ s.tls # None /\ s.tls.enabled
        <5>1. s.tls = TlsTrip(tls)
          BY <1>5, <2>2, <3>4
        <5>2. TlsTrip(tls) # None
          BY <1>6, <3>4, TlsTripIs, NoneIsAbsent
        <5>3. TlsTrip(tls).enabled
          BY DEF TlsTrip
        <5>4. QED
          BY <5>1, <5>2, <5>3
      <4>2. p \in TlsIn
        BY <2>4, <3>4, ShownTlsIs
      <4>3. json(o) = TlsJson(tls)
        BY <2>4, <3>1, <3>4, <4>2
      <4>4. json(s) = TlsJson(s.tls)
        BY <2>4, <4>1, <4>2
      <4>5. QED
        BY <1>6, <3>4, <4>1, <4>3, <4>4
    <3>5. QED
      BY <3>2, <3>3, <3>4
  <2>5. QED
    BY <2>3, <2>4
<1>8. \A f \in Fields(p) : FieldJson(s, f) = FieldJson(o, f)
  BY <1>5 DEF FieldJson
<1>. DEFINE rendered(n) ==
       [type        |-> p,
        server      |-> n.server,
        server_port |-> n.port,
        alter_id    |-> n.alter_id,
        fields      |-> [f \in Fields(p) |-> FieldJson(n, f)],
        tls         |-> json(n),
        transport   |-> IF n.transport = None THEN None
                        ELSE TransportJson(n.transport)]
<1>9. \A n : n.protocol = p => to_singbox(n) = rendered(n)
  BY <1>1 DEF to_singbox
<1>10. [f \in Fields(p) |-> FieldJson(s, f)] = [f \in Fields(p) |-> FieldJson(o, f)]
  BY <1>8
<1>. HIDE DEF json
<1>11. rendered(s) = rendered(o)
  BY <1>5, <1>7, <1>10
<1>. HIDE DEF rendered
<1>12. to_singbox(s) = to_singbox(o)
  BY <1>1, <1>5, <1>9, <1>11
<1>13. QED
  BY <1>12 DEF s

\* A node whose draft is complete is an outbound of a protocol the draft has:
\* a raw outbound's draft names none of them.
LEMMA DraftableIs ==
  ASSUME NEW o, o = None \/ IsOutbound(o), Draftable(o)
  PROVE  \E p \in Protocols : o \in OutboundType(p)
<1>1. IsOutbound(o) /\ outbound_to_draft(o).protocol \in Protocols
  BY DEF Draftable, Complete
<1>2. CASE o \in RawType
  <2>1. o.protocol = "raw"
    BY <1>2 DEF RawType
  <2>2. outbound_to_draft(o).protocol = "raw"
    BY <2>1 DEF outbound_to_draft, BlankDraft
  <2>3. "raw" \notin Protocols
    BY DEF Protocols
  <2>4. QED
    BY <1>1, <2>2, <2>3
<1>3. QED
  BY <1>1, <1>2 DEF IsOutbound

\* A node that goes through the draft and back (outbound_to_draft, then
\* draft_to_outbound) gives sing-box what it gave before, if it has nothing of
\* what Lossless names.
THEOREM DraftTripIsFaithful == Spec => []RoundTrip
<1>1. TypeOK => RoundTrip
  <2>. SUFFICES ASSUME TypeOK, Draftable(node), Lossless(node)
                PROVE  to_singbox(ThroughDraft(node)) = to_singbox(node)
    BY DEF RoundTrip
  <2>1. PICK p \in Protocols : node \in OutboundType(p)
    BY DraftableIs DEF TypeOK
  <2>2. QED
    BY <2>1, ThroughDraftIsTrip, TripIsRendered
<1>2. QED
  BY <1>1, TypeIsCorrect, PTL

\* What the first save loses is all that is ever lost.
THEOREM SecondTripLosesNothing == Spec => []StableAfterOnce
<1>1. TypeOK => StableAfterOnce
  <2>. SUFFICES ASSUME TypeOK, Draftable(node)
                PROVE  /\ Draftable(ThroughDraft(node))
                       /\ ThroughDraft(ThroughDraft(node)) = ThroughDraft(node)
    BY DEF StableAfterOnce
  <2>1. PICK p \in Protocols : node \in OutboundType(p)
    BY DraftableIs DEF TypeOK
  <2>2. /\ ThroughDraft(node) = Trip(node) /\ Trip(node) \in OutboundType(p)
        /\ Trip(Trip(node)) = Trip(node)
    BY <2>1, ThroughDraftIsTrip, TripType, TripIsStable
  <2>3. ThroughDraft(Trip(node)) = Trip(node)
    BY <2>2, ThroughDraftIsTrip
  <2>4. Complete(outbound_to_draft(Trip(node)))
    BY <2>1, TripIsComplete DEF Draftable
  <2>5. Trip(node) # None
    BY <2>2, NoneAssumption DEF IsOutbound
  <2>6. QED
    BY <2>2, <2>3, <2>4, <2>5 DEF Draftable
<1>2. QED
  BY <1>1, TypeIsCorrect, PTL
=============================================================================
