------------------------------- MODULE Routing -------------------------------
(***************************************************************************)
(* Routing rules: the user's lists and their lines of text (routing.rs),   *)
(* what config generation compiles them to (config.rs), and the preview    *)
(* of a domain's route (classify.rs), as pure operators.                   *)
(*                                                                         *)
(* A name is the sequence of its labels, so that a suffix match is one on  *)
(* sequences, and an empty suffix matches nothing; lower-casing and        *)
(* trimming are left out. An entry is its prefix ("" for none, "#" for a   *)
(* comment line) and the name that follows. A rule of the configuration is *)
(* the set of its matchers and what it does; sing-box applies the first    *)
(* rule one of whose matchers holds.                                       *)
(***************************************************************************)
EXTENDS Naturals, Sequences, SequencesExt, Filter

CONSTANT IpLiterals    \* the names that are an address or a CIDR

Modes == {"global", "cn-direct", "custom"}
Buckets == {"direct", "proxy", "block"}
DomainPrefixes == {"geosite", "full", "domain", "keyword", "regexp"}
EntryPrefixes == DomainPrefixes \cup {"", "geoip", "process", "#"}

EntryType == [prefix : EntryPrefixes, value : Seq(STRING)]
RuleListType == [domains : Seq(EntryType), ips : Seq(EntryType),
                 processes : Seq(Seq(STRING))]

\* RuleList::default
NoRules == [domains |-> <<>>, ips |-> <<>>, processes |-> <<>>]

-----------------------------------------------------------------------------
(* Lists and lines *)

to_lines(list) ==
  list.domains \o list.ips \o
    [i \in DOMAIN list.processes |->
       [prefix |-> "process", value |-> list.processes[i]]]

looks_like_ip_or_cidr(name) == name \in IpLiterals

\* The lines and entries every reader of a list passes over.
Blank(e) == e.prefix = "" /\ e.value = <<>>
Skipped(e) == e.prefix = "#" \/ Blank(e)

\* The branches of from_lines.
IpLine(e) ==
  \/ e.prefix = "geoip"
  \/ e.prefix = "" /\ ~Blank(e) /\ looks_like_ip_or_cidr(e.value)
\* Mutant: a prefix from_lines does not know.
DomainLineNoGeosite(e) ==
  \/ e.prefix \in DomainPrefixes \ {"geosite"}
  \/ e.prefix = "" /\ ~Blank(e) /\ ~looks_like_ip_or_cidr(e.value)
DomainLine(e) ==
  \/ e.prefix \in DomainPrefixes
  \/ e.prefix = "" /\ ~Blank(e) /\ ~looks_like_ip_or_cidr(e.value)
ProcessLine(e) == e.prefix = "process"

from_lines(lines) ==
  LET all == ToSet(lines)
      processes == filter(lines, {e \in all : ProcessLine(e)})
  IN  [domains   |-> filter(lines, {e \in all : DomainLine(e)}),
       ips       |-> filter(lines, {e \in all : IpLine(e)}),
       processes |-> [i \in DOMAIN processes |-> processes[i].value]]

-----------------------------------------------------------------------------
(* Compilation to matchers *)

Entries(list) == {e \in ToSet(list) : ~Skipped(e)}

\* An entry under a prefix the compiler of its list does not know is taken
\* whole, as one name.
Whole(e) == IF e.prefix = "" THEN e.value ELSE <<e.prefix>> \o e.value

\* A rule-set: the tag "geosite-cn" is the name "cn" of the family "geosite".
Families == {"geosite", "geoip"}
RuleSet(family, name) == [field |-> family, value |-> name]

DomainField == [full |-> "domain", domain |-> "domain_suffix",
                keyword |-> "domain_keyword", regexp |-> "domain_regex"]

compile_domains(list) ==
  {CASE e.prefix = "geosite" -> RuleSet("geosite", e.value)
     [] e.prefix \in DOMAIN DomainField ->
          [field |-> DomainField[e.prefix], value |-> e.value]
     [] OTHER -> [field |-> "domain_suffix", value |-> Whole(e)]
   : e \in Entries(list)}

compile_ips(list) ==
  {IF e.prefix = "geoip" THEN RuleSet("geoip", e.value)
                         ELSE [field |-> "ip_cidr", value |-> Whole(e)]
   : e \in Entries(list)}

RuleSetsOf(matchers) == {m \in matchers : m.field \in Families}
Local(matchers) == {m \in matchers : m.field \notin Families}

-----------------------------------------------------------------------------
(* The rules of a configuration.  s is the part of the settings that        *)
(* config generation reads: routing, user_rules, block_ads, direct_dns and  *)
(* remote_dns.                                                              *)

\* One rule, or none when nothing was compiled for it.
Rule(matchers, do) ==
  IF matchers = {} THEN <<>> ELSE <<[match |-> matchers, do |-> do]>>

emit_rules(do, list) ==
  LET domains == compile_domains(list.domains)
      ips == compile_ips(list.ips)
  IN  Rule(Local(domains), do) \o Rule(RuleSetsOf(domains), do)
        \o Rule(Local(ips), do) \o Rule(RuleSetsOf(ips), do)
        \o Rule({[field |-> "process_name", value |-> p] :
                   p \in ToSet(list.processes)}, do)

GeositeCn == RuleSet("geosite", <<"cn">>)
GeolocationCn == RuleSet("geosite", <<"geolocation-cn">>)
GeoipCn == RuleSet("geoip", <<"cn">>)
GeositeAds == RuleSet("geosite", <<"category-ads-all">>)

Private == [field |-> "ip_is_private", value |-> <<>>]
DnsProtocol == [field |-> "protocol", value |-> <<"dns">>]

\* The sniff rule has no matcher and decides nothing.
BasicRules ==
  <<[match |-> {}, do |-> "sniff"],
    [match |-> {DnsProtocol}, do |-> "hijack-dns"],
    [match |-> {Private}, do |-> "direct"]>>

CnRules(s) ==
  IF s.routing # "cn-direct" THEN <<>>
  ELSE <<[match |-> {GeositeCn, GeolocationCn}, do |-> "direct"],
         [match |-> {GeoipCn}, do |-> "direct"]>>
       \o Rule(IF s.block_ads THEN {GeositeAds} ELSE {}, "reject")

\* Mutant: the user's direct rules before the others.
route_rulesDirectFirst(s) ==
  BasicRules
    \o emit_rules("direct", s.user_rules.direct)
    \o emit_rules("reject", s.user_rules.block)
    \o emit_rules("proxy", s.user_rules.proxy)
    \o CnRules(s)

route_rules(s) ==
  BasicRules
    \o emit_rules("reject", s.user_rules.block)
    \o emit_rules("proxy", s.user_rules.proxy)
    \o emit_rules("direct", s.user_rules.direct)
    \o CnRules(s)

\* Mutant: no DNS rule for the rule-sets the user sends direct.
dns_rulesNoRuleSets(s) ==
  Rule(IF s.routing = "cn-direct" THEN {GeositeCn} ELSE {}, "dns-direct")
    \o Rule(Local(compile_domains(s.user_rules.direct.domains)), "dns-direct")
    \o Rule(Local(compile_domains(s.user_rules.block.domains)), "NXDOMAIN")

dns_rules(s) ==
  LET direct == compile_domains(s.user_rules.direct.domains)
      block == compile_domains(s.user_rules.block.domains)
  IN  Rule(IF s.routing = "cn-direct" THEN {GeositeCn} ELSE {}, "dns-direct")
        \o Rule(Local(direct), "dns-direct")
        \o Rule(RuleSetsOf(direct), "dns-direct")
        \o Rule(Local(block), "NXDOMAIN")

\* Mutant: the ads rule-set is not registered.
rule_setNoAds(s) ==
  (UNION {RuleSetsOf(compile_domains(s.user_rules[b].domains))
            \cup RuleSetsOf(compile_ips(s.user_rules[b].ips)) : b \in Buckets})
    \cup (IF s.routing # "cn-direct" THEN {}
          ELSE {GeositeCn, GeolocationCn, GeoipCn})

\* The tags emit_rules, the cn rules and the DNS rules register.
rule_set(s) ==
  (UNION {RuleSetsOf(compile_domains(s.user_rules[b].domains))
            \cup RuleSetsOf(compile_ips(s.user_rules[b].ips)) : b \in Buckets})
    \cup (IF s.routing # "cn-direct" THEN {}
          ELSE {GeositeCn, GeolocationCn, GeoipCn}
                 \cup (IF s.block_ads THEN {GeositeAds} ELSE {}))

-----------------------------------------------------------------------------
(* Who needs whom.  An address is "local", "ip" (its host is an address) or *)
(* "name" (its host must be resolved first).                                *)

DnsAddresses == {"local", "ip", "name"}

\* What a DNS server depends on: its detour and its resolver.
dns_server(addr, detour) ==
  IF addr = "local" THEN {}
  ELSE detour \cup (IF addr = "name" THEN {"dns-local"} ELSE {})

\* Mutant: servers are resolved behind the proxy they are needed for.
DefaultResolverRemote == "dns-remote"
DefaultResolver == "dns-direct"

\* A rule-set that is not on disk is downloaded through the proxy.
ruleset_entry == {"proxy"}

\* The proxy outbound resolves its own server through default_domain_resolver.
Needs(s) ==
  [t \in {"dns-remote", "dns-direct", "dns-local", "proxy", "rule_set"} |->
     CASE t = "dns-remote" -> dns_server(s.remote_dns, {"proxy"})
       [] t = "dns-direct" -> dns_server(s.direct_dns, {})
       [] t = "dns-local" -> {}
       [] t = "proxy" -> {DefaultResolver}
       [] t = "rule_set" -> ruleset_entry]

-----------------------------------------------------------------------------
(* How sing-box reads the rules.  A destination is its host and the set of  *)
(* the other matchers (rule-sets, addresses, processes, expressions) that   *)
(* hold of it.                                                              *)

EndsWith(host, name) ==
  /\ name # <<>> /\ Len(name) <= Len(host)
  /\ SubSeq(host, Len(host) - Len(name) + 1, Len(host)) = name
HasWithin(host, name) ==
  \E i \in 1 .. (Len(host) - Len(name) + 1) :
    SubSeq(host, i, i + Len(name) - 1) = name

Matches(m, dest) ==
  CASE m.field = "domain" -> dest.host = m.value
    [] m.field = "domain_suffix" -> EndsWith(dest.host, m.value)
    [] m.field = "domain_keyword" -> HasWithin(dest.host, m.value)
    [] OTHER -> m \in dest.holds

AnyMatches(matchers, dest) == \E m \in matchers : Matches(m, dest)

Hits(rules, dest) == {i \in DOMAIN rules : AnyMatches(rules[i].match, dest)}

Verdict(rules, final, dest) ==
  LET hits == Hits(rules, dest)
  IN  IF hits = {} THEN final
      ELSE rules[CHOOSE i \in hits : \A j \in hits : i <= j].do

Route(s, dest) == Verdict(route_rules(s), "proxy", dest)
Resolver(s, dest) == Verdict(dns_rules(s), "dns-remote", dest)

-----------------------------------------------------------------------------
(* The preview *)

domain_matches(list, host) ==
  \E e \in Entries(list) :
    CASE e.prefix = "full" -> host = e.value
      [] e.prefix = "domain" -> EndsWith(host, e.value)
      [] e.prefix = "keyword" -> HasWithin(host, e.value)
      [] e.prefix \in {"regexp", "geosite"} -> FALSE
      [] OTHER -> EndsWith(host, Whole(e))

\* Mutant: the preview asks the proxy list first.
classify_domainProxyFirst(rules, routing, host) ==
  LET listed(b) == domain_matches(rules[b].domains, host)
  IN  IF listed("proxy") THEN "proxy"
      ELSE IF listed("block") THEN "block"
      ELSE IF listed("direct")
              \/ (routing = "cn-direct" /\ EndsWith(host, <<"cn">>))
           THEN "direct" ELSE "proxy"

classify_domain(rules, routing, host) ==
  LET listed(b) == domain_matches(rules[b].domains, host)
  IN  IF listed("block") THEN "block"
      ELSE IF listed("proxy") THEN "proxy"
      ELSE IF listed("direct")
              \/ (routing = "cn-direct" /\ EndsWith(host, <<"cn">>))
           THEN "direct" ELSE "proxy"
=============================================================================
