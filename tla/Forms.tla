-------------------------------- MODULE Forms --------------------------------
(***************************************************************************)
(* The forms of the GUI (main.rs: rules view, toggles, advanced settings,  *)
(* import and node editor) and the CLI commands that edit the same files.  *)
(*                                                                         *)
(* There are up to three copies of the settings: settings.json (disk),     *)
(* AppState.settings (cache) and what the window shows.  A handler changes *)
(* the cache and saves it whole; the CLI loads, changes and saves the      *)
(* file.  stale and unseen remember that somebody else, or a failure, has  *)
(* put two copies out of step, so that the properties can say that nothing *)
(* else does.  node is one profile's outbound, in the file and the cache.  *)
(***************************************************************************)
EXTENDS Integers, Routing, Links

CONSTANTS
  Half,          \* 2^31, half the range of a u32
  InitSettings,  \* the settings.json the system starts with
  RuleEntries,   \* what users type for a rule
  DnsKinds,      \* the DNS addresses users type, of DnsAddresses
  Mtus,          \* the MTUs users type
  ShareLinks,    \* the links users import
  Bodies,        \* the bodies subscriptions answer
  Typed,         \* the texts users type into the node editor
  Destinations,  \* the connections whose route the properties ask for
  MaxEdits       \* bound: imports, changes of settings and texts typed

Lists == {"domains", "ips", "processes"}

\* Settings::default.  preference stands for what only the GUI's look and
\* launch depend on.
DefaultSettings ==
  [routing |-> "cn-direct", user_rules |-> [b \in Buckets |-> NoRules],
   block_ads |-> TRUE, tun |-> FALSE, system_proxy |-> FALSE,
   direct_dns |-> "ip", remote_dns |-> "ip", tun_mtu |-> 9000,
   preference |-> FALSE]

\* A Settings, whatever file it was read from: serde fills in what is absent.
SettingsFields == DOMAIN DefaultSettings

VARIABLES
  disk,     \* settings.json
  cache,    \* AppState.settings
  shown,    \* the toggles, the mode selector and the chips
  form,     \* the fields of the advanced settings page; None: closed
  stale,    \* the cache and settings.json are out of step
  unseen,   \* the parts of the window that are out of step with the cache
  node,     \* a profile's outbound, or None
  editor,   \* the node editor's draft; None: closed
  alive,    \* the GUI runs
  edits     \* counts up to MaxEdits

settingsVars == <<disk, cache, stale>>
windowVars == <<shown, unseen>>
nodeVars == <<node, editor>>
vars == <<settingsVars, windowVars, nodeVars, form, alive, edits>>

-----------------------------------------------------------------------------
(* Numbers: Slint has only i32, the files have u16 and u32. *)

U16Max == 65535
U32Max == 2 * Half - 1
AsI32(n) == IF n < Half THEN n ELSE n - 2 * Half
clamp(n, lo, hi) == IF n < lo THEN lo ELSE IF n > hi THEN hi ELSE n
ClampPanics(lo, hi) == lo > hi

-----------------------------------------------------------------------------
(* Types *)

SettingsType ==
  [routing : Modes, user_rules : [Buckets -> RuleListType],
   block_ads : BOOLEAN, tun : BOOLEAN, system_proxy : BOOLEAN,
   direct_dns : DnsAddresses, remote_dns : DnsAddresses,
   tun_mtu : 0 .. U32Max, preference : BOOLEAN]

I32 == -Half .. Half - 1

\* The window's own properties; the fields of the two forms; NodeDraft.
ShownType ==
  [cn : BOOLEAN, tun : BOOLEAN, sysproxy : BOOLEAN, mode : Modes,
   chips : [Buckets -> Seq(EntryType)]]
FormType ==
  [direct_dns : DnsAddresses, remote_dns : DnsAddresses, tun_mtu : I32,
   block_ads : BOOLEAN]
EditorType ==
  [protocol : Protocols \cup {"raw"}, server : TextType, port : U16,
   alter_id : Int, tls_enabled : BOOLEAN, insecure : BOOLEAN,
   transport_type : DOMAIN TransportTexts \cup {NoName},
   text : [DraftTexts -> TextType]]

ASSUME HalfAssumption == Half \in Nat \ {0}
ASSUME SettingsAssumption == \A s \in InitSettings : s \in SettingsType
ASSUME EntriesAssumption == RuleEntries \subseteq EntryType
ASSUME TypingAssumption ==
  DnsKinds \subseteq DnsAddresses /\ Mtus \subseteq I32 /\ Typed \subseteq TextType
ASSUME LinksAssumption == \A l \in ShareLinks : IsLink(l)
ASSUME BodiesAssumption == \A body \in Bodies : IsBody(body)
ASSUME EditsAssumption == MaxEdits \in Nat

-----------------------------------------------------------------------------
(* What the window shows of the settings *)

ChipsOf(s) == [b \in Buckets |-> to_lines(s.user_rules[b])]
\* Mutant: the window is told of a mode under a name that is none.
refresh_rules_viewMisspelt(view, s) ==
  [view EXCEPT !.chips = ChipsOf(s),
               !.mode = IF s.routing = "cn-direct" THEN "cn_direct" ELSE s.routing]
refresh_rules_view(view, s) ==
  [view EXCEPT !.chips = ChipsOf(s), !.mode = s.routing]
Toggles(s) ==
  [cn |-> s.routing = "cn-direct", tun |-> s.tun, sysproxy |-> s.system_proxy]
Window(s) ==
  [cn |-> Toggles(s).cn, tun |-> Toggles(s).tun,
   sysproxy |-> Toggles(s).sysproxy, mode |-> s.routing, chips |-> ChipsOf(s)]

refresh_advanced_settings(s) ==
  [direct_dns |-> s.direct_dns, remote_dns |-> s.remote_dns,
   tun_mtu |-> AsI32(s.tun_mtu), block_ads |-> s.block_ads]

Edit == edits < MaxEdits /\ edits' = edits + 1

\* AppState::save_settings, whose failure the handlers ignore.
save_settings(new) ==
  /\ cache' = new
  /\ \/ disk' = new /\ stale' = FALSE
     \/ disk' = disk /\ stale' = TRUE

\* The node editor covers the window; to reach what is not on the settings
\* page the user leaves it, and its fields are read again at the next visit.
Elsewhere == alive /\ editor = None /\ form' = None

\* A handler that saves new settings and leaves the window showing view.
Handle(new, view, refreshed) ==
  /\ Elsewhere /\ Edit
  /\ save_settings(new)
  /\ shown' = view
  /\ unseen' = unseen \ refreshed
  /\ UNCHANGED <<nodeVars, alive>>

-----------------------------------------------------------------------------
(* Rules view and toggles *)

\* Mutant: the chips are not shown again after an edit.
EditRulesUnseen(b, lines) ==
  LET new == [cache EXCEPT !.user_rules[b] = from_lines(lines)]
  IN  Handle(new, shown, {"rules"})

EditRules(b, lines) ==
  LET new == [cache EXCEPT !.user_rules[b] = from_lines(lines)]
  IN  Handle(new, refresh_rules_view(shown, new), {"rules"})

on_rule_add(b, e) ==
  ~Blank(e) /\ EditRules(b, Append(to_lines(cache.user_rules[b]), e))

on_rule_remove(b, e) ==
  /\ alive /\ e \in ToSet(shown.chips[b])
  /\ LET lines == to_lines(cache.user_rules[b])
     IN  EditRules(b, filter(lines, ToSet(lines) \ {e}))

on_set_routing_mode(mode) ==
  LET new == [cache EXCEPT !.routing = mode]
  IN  Handle(new,
             [refresh_rules_view(shown, new) EXCEPT !.cn = mode = "cn-direct"],
             {"rules"})

\* The Slint toggle has changed itself; the mode selector is left as it is.
on_toggle_cn(on) ==
  Handle([cache EXCEPT !.routing = IF on THEN "cn-direct" ELSE "global"],
         [shown EXCEPT !.cn = on], {})

on_toggle_tun(on) ==
  Handle([cache EXCEPT !.tun = on], [shown EXCEPT !.tun = on], {})

\* The preferences with a handler of their own: theme, language, selection...
on_preference(value) == Handle([cache EXCEPT !.preference = value], shown, {})

\* Mutant: the cache is not told what the engine has saved.
on_toggle_sysproxyNoMirror(on) ==
  /\ Elsewhere /\ Edit
  /\ shown' = [shown EXCEPT !.sysproxy = on]
  /\ disk' = [disk EXCEPT !.system_proxy = on]
  /\ UNCHANGED <<cache, stale, unseen, nodeVars, alive>>

\* The engine changes the file's settings, then the OS; the handler mirrors
\* the change in the cache only if both went well.
on_toggle_sysproxy(on) ==
  /\ Elsewhere /\ Edit
  /\ shown' = [shown EXCEPT !.sysproxy = on]
  /\ \/ /\ disk' = [disk EXCEPT !.system_proxy = on]
        /\ cache' = [cache EXCEPT !.system_proxy = on]
        /\ UNCHANGED <<stale, unseen>>
     \/ /\ disk' = [disk EXCEPT !.system_proxy = on]
        /\ stale' = TRUE
        /\ unseen' = unseen \cup {"toggles"}
        /\ UNCHANGED cache
     \/ /\ unseen' = unseen \cup {"toggles"}
        /\ UNCHANGED settingsVars
  /\ UNCHANGED <<nodeVars, alive>>

\* AppState::reload; neither the toggles nor the rules view are set again.
reload ==
  /\ cache' = disk
  /\ stale' = FALSE
  /\ unseen' = IF cache = disk THEN unseen ELSE {"toggles", "rules"}
  /\ UNCHANGED <<disk, shown, nodeVars, alive, edits>>

on_refresh == Elsewhere /\ reload

\* What the thread of a subscription's import or update posts when it is done,
\* wherever the user is by then.
reload_posted == alive /\ reload /\ UNCHANGED form

-----------------------------------------------------------------------------
(* A panic aborts the process (Cargo.toml), and its memory is gone. *)

Die ==
  /\ alive' = FALSE
  /\ cache' = None /\ shown' = None /\ form' = None /\ editor' = None
  /\ stale' = FALSE /\ unseen' = {}
  /\ UNCHANGED <<disk, node, edits>>

-----------------------------------------------------------------------------
(* Advanced settings page *)

on_open_settings ==
  /\ alive /\ editor = None
  /\ form' = refresh_advanced_settings(cache)
  /\ UNCHANGED <<settingsVars, windowVars, nodeVars, alive, edits>>

TypeIntoForm ==
  /\ alive /\ form # None /\ Edit
  /\ \/ \E dns \in DnsKinds : form' = [form EXCEPT !.direct_dns = dns]
     \/ \E dns \in DnsKinds : form' = [form EXCEPT !.remote_dns = dns]
     \/ \E mtu \in Mtus : form' = [form EXCEPT !.tun_mtu = mtu]
     \/ form' = [form EXCEPT !.block_ads = ~@]
  /\ UNCHANGED <<settingsVars, windowVars, nodeVars, alive>>

on_save_advanced_settings ==
  /\ alive /\ form # None
  /\ IF ClampPanics(576, AsI32(U32Max))
     THEN Die
     ELSE /\ Edit
          /\ save_settings([cache EXCEPT
               !.direct_dns = form.direct_dns, !.remote_dns = form.remote_dns,
               !.tun_mtu = clamp(form.tun_mtu, 576, AsI32(U32Max)),
               !.block_ads = form.block_ads])
          /\ UNCHANGED <<windowVars, nodeVars, form, alive>>

-----------------------------------------------------------------------------
(* Import and node editor *)

NewNode(o) ==
  /\ Edit
  /\ node' = o
  /\ UNCHANGED <<settingsVars, windowVars, editor, form, alive>>

\* One link, in the GUI or by `profile add --link` and `profile edit`.
import_link(l) == parse_link(l) # None /\ NewNode(parse_link(l))

\* Several lines, a file or a subscription; one of the nodes it adds.
import_body(body) ==
  \E o \in ToSet(parse_subscription_report(body).nodes) : NewNode(o)

\* The draft of the window: OutboundDraft with every number an i32.
core_draft_to_node(d) == [d EXCEPT !.alter_id = AsI32(@)]

NodeDraftPanics == ClampPanics(0, AsI32(U32Max))
node_draft_to_core(d) ==
  [d EXCEPT !.port = clamp(@, 0, U16Max),
            !.alter_id = clamp(@, 0, AsI32(U32Max))]

Open(d) ==
  /\ Elsewhere
  /\ editor' = core_draft_to_node(d)
  /\ UNCHANGED <<settingsVars, windowVars, node, alive, edits>>

on_open_node_editor == node # None /\ Open(outbound_to_draft(node))
on_add_node == Open(BlankDraft("vless", Empty, 0))

TypeIntoEditor ==
  /\ alive /\ editor # None /\ Edit
  /\ \E f \in {"uuid", "alpn", "ws_path"}, text \in Typed :
       editor' = [editor EXCEPT !.text[f] = text]
  /\ UNCHANGED <<settingsVars, windowVars, node, form, alive>>

on_close_node_editor ==
  /\ alive /\ editor # None
  /\ editor' = None
  /\ UNCHANGED <<settingsVars, windowVars, node, form, alive, edits>>

\* What is not complete is answered with an error in the editor.
on_save_node_editor ==
  /\ alive /\ editor # None
  /\ IF NodeDraftPanics
     THEN Die
     ELSE /\ Complete(node_draft_to_core(editor))
          /\ Edit
          /\ node' = draft_to_outbound(node_draft_to_core(editor))
          /\ editor' = None
          /\ UNCHANGED <<settingsVars, windowVars, form, alive>>

-----------------------------------------------------------------------------
(* Launch, after a panic or a quit from the tray.  While no GUI runs only   *)
(* the CLI writes, as it may before the quit.                               *)

launch ==
  /\ alive' = TRUE
  /\ cache' = disk
  /\ stale' = FALSE
  /\ shown' = Window(disk)
  /\ unseen' = {}
  /\ form' = None
  /\ editor' = None
  /\ UNCHANGED <<disk, node, edits>>

-----------------------------------------------------------------------------
(* CLI *)

Cli(new) ==
  /\ Edit
  /\ disk' = new
  /\ stale' = alive
  /\ UNCHANGED <<cache, windowVars, nodeVars, form, alive>>

run_routing_set(mode) == Cli([disk EXCEPT !.routing = mode])

Item(list, e) == IF list = "processes" THEN e.value ELSE e

run_routing_rule_add(b, list, e) ==
  /\ list = "processes" => e.prefix = "process"
  /\ Cli([disk EXCEPT !.user_rules[b][list] = Append(@, Item(list, e))])

\* Of what is there: a remove of anything else saves what it has loaded.
run_routing_rule_remove(b, list, e) ==
  /\ Item(list, e) \in ToSet(disk.user_rules[b][list])
  /\ Cli([disk EXCEPT !.user_rules[b][list] =
         filter(@, ToSet(@) \ {Item(list, e)})])

run_routing_rule_clear(b) == Cli([disk EXCEPT !.user_rules[b] = NoRules])

run_tun(on) == Cli([disk EXCEPT !.tun = on])

\* Through the engine, as the GUI's toggle.
run_sysproxy(on) == Cli([disk EXCEPT !.system_proxy = on])

-----------------------------------------------------------------------------
Init ==
  /\ disk \in InitSettings
  /\ cache = disk
  /\ shown = Window(disk)
  /\ form = None
  /\ stale = FALSE
  /\ unseen = {}
  /\ node = None
  /\ editor = None
  /\ alive = TRUE
  /\ edits = 0

RulesView ==
  \/ \E b \in Buckets, e \in RuleEntries :
       on_rule_add(b, e) \/ on_rule_remove(b, e)
  \/ \E mode \in Modes : on_set_routing_mode(mode)

Switches ==
  \/ \E on \in BOOLEAN :
       on_toggle_cn(on) \/ on_toggle_tun(on) \/ on_toggle_sysproxy(on)
  \/ \E value \in BOOLEAN : on_preference(value)

SettingsPage == on_open_settings \/ TypeIntoForm \/ on_save_advanced_settings

Nodes ==
  \/ \E l \in ShareLinks : import_link(l)
  \/ \E body \in Bodies : import_body(body)
  \/ on_open_node_editor \/ on_add_node \/ TypeIntoEditor
  \/ on_close_node_editor \/ on_save_node_editor

CommandLine ==
  \/ \E mode \in Modes : run_routing_set(mode)
  \/ \E b \in Buckets, list \in Lists, e \in RuleEntries :
       run_routing_rule_add(b, list, e) \/ run_routing_rule_remove(b, list, e)
  \/ \E b \in Buckets : run_routing_rule_clear(b)
  \/ \E on \in BOOLEAN : run_tun(on) \/ run_sysproxy(on)

Next == RulesView \/ Switches \/ on_refresh \/ reload_posted \/ SettingsPage
          \/ Nodes \/ launch \/ CommandLine

Spec == Init /\ [][Next]_vars

-----------------------------------------------------------------------------
(* Properties *)

TypeOK ==
  /\ disk \in SettingsType
  /\ alive => /\ cache \in SettingsType
              /\ shown \in ShownType
              /\ form = None \/ form \in FormType
              /\ editor = None \/ editor \in EditorType
  /\ ~alive => cache = None /\ shown = None /\ form = None /\ editor = None
  /\ stale \in BOOLEAN
  /\ unseen \subseteq {"toggles", "rules"}
  /\ node = None \/ IsOutbound(node)
  /\ alive \in BOOLEAN
  /\ edits \in 0 .. MaxEdits

\* The GUI saves its cache whole, so the cache must be settings.json: it is,
\* unless the CLI has written or a save has failed since the last reload or
\* save.  (No handler changes one of the two alone, state.rs:41-50.)
CacheCurrent == alive /\ ~stale => cache = disk

\* What Start would run is what the window shows: the toggles and the chips
\* are those of the cache, unless a reload or a failed toggle came between.
\* (Not the mode selector: on_toggle_cn changes the mode and leaves the selector
\* as it was, although main.rs:563-566 has it refreshed after every change.)
WindowCurrent ==
  alive =>
    /\ "toggles" \notin unseen =>
         \A t \in {"cn", "tun", "sysproxy"} : shown[t] = Toggles(cache)[t]
    /\ "rules" \notin unseen => shown.chips = ChipsOf(cache)

\* Adding or removing a chip sends a whole list through its text and back
\* (main.rs:1055-1057, 1076-1078): the other entries of the list come out
\* of it, whatever list the CLI had put them in, and the other buckets are
\* left alone.  (Comments and empty lines are dropped.)
EntriesOf(s, b) == {e \in ToSet(to_lines(s.user_rules[b])) : ~Skipped(e)}

ChipEditKeepsTheRest ==
  [][\A b \in Buckets, e \in RuleEntries :
       LET others == \A c \in Buckets \ {b} :
                       cache'.user_rules[c] = cache.user_rules[c]
           added == IF Skipped(e) THEN {} ELSE {e}
       IN  /\ on_rule_add(b, e) =>
                others /\ EntriesOf(cache', b) = EntriesOf(cache, b) \cup added
           /\ on_rule_remove(b, e) =>
                others /\ EntriesOf(cache', b) = EntriesOf(cache, b) \ {e}
    ]_vars

\* The preview of a name's route (classify.rs) is what the generated rules do
\* with it (config.rs) where the preview can know: every name under cn and no
\* other is taken to be in geosite-cn, and of what the preview does not look at
\* (other rule-sets, regexps, addresses, processes, private and DNS traffic)
\* nothing holds of the connection; users have no rule for geosite-cn.
PreviewAgrees ==
  alive /\ ~stale /\ (\A b \in Buckets :
      GeositeCn \notin compile_domains(disk.user_rules[b].domains)) =>
    \A dest \in Destinations :
      dest.holds = (IF EndsWith(dest.host, <<"cn">>) THEN {GeositeCn} ELSE {}) =>
        LET preview ==
              classify_domain(cache.user_rules, cache.routing, dest.host)
        IN  Route(disk, dest) = IF preview = "block" THEN "reject" ELSE preview

\* A name is answered with NXDOMAIN only if a connection to it would be
\* rejected: the DNS rules never block what the route rules let through.
NxdomainOnlyForBlocked ==
  \A dest \in Destinations :
    /\ dest.holds \cap {Private, DnsProtocol} = {}
    /\ Resolver(disk, dest) = "NXDOMAIN"
    => Route(disk, dest) = "reject"

\* A connection that goes direct because of its name has had the name resolved
\* by the direct server, so that it gets the address near the user: both lists
\* of rules agree on every name but those of geosite-geolocation-cn.
ByName(m) == m.field \in {"domain_regex", "geosite"} /\ m # GeolocationCn

DirectNamesResolvedDirectly ==
  \A dest \in Destinations :
    (\A m \in dest.holds : ByName(m)) /\ Route(disk, dest) = "direct" =>
      Resolver(disk, dest) = "dns-direct"

\* sing-box refuses a configuration with a rule for a rule-set that is not
\* declared: what the route and DNS rules name is registered, and no more.
RuleSetsDeclared ==
  UNION {RuleSetsOf(rule.match) :
           rule \in ToSet(route_rules(disk) \o dns_rules(disk))}
    = rule_set(disk)

\* "loop-free (no proxy detour)", config.rs:339: among the servers, the proxy
\* and the rule-sets, some member of every set can start without the others.
LoopFree ==
  LET needs == Needs(disk)
  IN  \A T \in (SUBSET DOMAIN needs) \ {{}} : \E t \in T : needs[t] \cap T = {}

\* guderray-core's two conversions, one after the other (what the window does
\* to the draft in between is core_draft_to_node and node_draft_to_core).
ThroughDraft(o) == draft_to_outbound(outbound_to_draft(o))
Draftable(o) == o # None /\ Complete(outbound_to_draft(o))

\* What the draft keeps.  The README's "editing a node can't silently drop or
\* leak fields" (README.md:151) is more than this.
Lossless(o) ==
  /\ \A f \in Optional[o.protocol] : o.fields[f] # Empty
  /\ o.tls # None => o.tls.server_name # Empty
  /\ o.transport # None =>
       CASE o.transport.type = "grpc" ->
              /\ o.transport.idle_timeout = None
              /\ o.transport.permit_without_stream = None
         [] o.transport.type = "http" ->
              \A i \in DOMAIN o.transport.hosts : Len(o.transport.hosts[i]) = 1
         [] OTHER -> o.transport.host # Empty

\* draft_to_outbound undoes outbound_to_draft (draft.rs): sing-box is given the
\* same outbound, but for what the draft has no place for (Lossless).
RoundTrip ==
  Draftable(node) /\ Lossless(node) => to_singbox(ThroughDraft(node)) = to_singbox(node)

\* Whatever the first trip through the draft loses, the second loses no more:
\* what comes out has a complete draft again and stays as it is.
StableAfterOnce ==
  Draftable(node) =>
    LET once == ThroughDraft(node)
    IN  Draftable(once) /\ ThroughDraft(once) = once

\* "Errors (not panics) on missing required fields so the GUI can show a
\* validation message instead of crashing on a half-filled form",
\* draft.rs:230-231: pressing Save leaves the GUI running.
SavingKeepsTheGuiAlive ==
  [][on_save_node_editor \/ on_save_advanced_settings => alive']_vars
=============================================================================
