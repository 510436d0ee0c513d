---------------------------- MODULE RoutingProofs ----------------------------
(***************************************************************************)
(* What the rules of a configuration decide, for any lists of the user and *)
(* any connection.  A list of rules says of a connection what the first    *)
(* rule that matches it does, and Nothing if none does.  The lemmas carry  *)
(* this through Rule, \o and emit_rules, and so give route_rules and       *)
(* dns_rules a closed form: which of the user's lists the connection is    *)
(* asked of first.                                                         *)
(***************************************************************************)
EXTENDS Routing, ListProofs

IsSeq(rules) == \E S : rules \in Seq(S)
Silent(rules, dest) == Hits(rules, dest) = {}
Decides(rules, dest, do) ==
  \E i \in Hits(rules, dest) :
    /\ rules[i].do = do
    /\ \A j \in Hits(rules, dest) : i <= j

Nothing == "nothing"
Says(rules, dest, v) ==
  /\ IsSeq(rules)
  /\ IF v = Nothing THEN Silent(rules, dest) ELSE Decides(rules, dest, v)
\* What a rule with these matchers says, and two lists one after the other.
IfMatched(matchers, dest, do) == IF AnyMatches(matchers, dest) THEN do ELSE Nothing
Or(v, w) == IF v = Nothing THEN w ELSE v

\* The matchers of a list of the user's.
ProcessMatchers(list) ==
  {[field |-> "process_name", value |-> p] : p \in ToSet(list.processes)}
Matchers(list) ==
  compile_domains(list.domains) \cup compile_ips(list.ips)
    \cup ProcessMatchers(list)

-----------------------------------------------------------------------------
(* Lists of rules *)

LEMMA ConcatIsSeq ==
  ASSUME NEW A, NEW B, IsSeq(A), IsSeq(B)
  PROVE  /\ IsSeq(A \o B)
         /\ Len(A) \in Nat /\ Len(B) \in Nat
         /\ DOMAIN A = 1 .. Len(A) /\ DOMAIN B = 1 .. Len(B)
         /\ DOMAIN (A \o B) = 1 .. (Len(A) + Len(B))
         /\ \A i \in 1 .. Len(A) : (A \o B)[i] = A[i]
         /\ \A i \in 1 .. Len(B) : (A \o B)[Len(A) + i] = B[i]
<1>1. PICK S : A \in Seq(S)
  BY DEF IsSeq
<1>2. PICK T : B \in Seq(T)
  BY DEF IsSeq
<1>3. A \in Seq(S \cup T) /\ B \in Seq(S \cup T)
  BY <1>1, <1>2
<1>4. (A \o B) \in Seq(S \cup T)
  BY <1>3
<1>5. IsSeq(A \o B)
  BY <1>4 DEF IsSeq
<1>6. QED
  BY <1>3, <1>5

LEMMA ConcatHits ==
  ASSUME NEW A, NEW B, NEW dest, IsSeq(A), IsSeq(B)
  PROVE  /\ \A i \in 1 .. Len(A) :
               i \in Hits(A \o B, dest) <=> i \in Hits(A, dest)
         /\ \A i \in 1 .. Len(B) :
               Len(A) + i \in Hits(A \o B, dest) <=> i \in Hits(B, dest)
         /\ Hits(A, dest) \subseteq 1 .. Len(A)
         /\ Hits(B, dest) \subseteq 1 .. Len(B)
         /\ Hits(A \o B, dest) \subseteq 1 .. (Len(A) + Len(B))
<1>. DEFINE hit(rule) == AnyMatches(rule.match, dest)
<1>1. \A i \in 1 .. Len(A) : i \in Hits(A \o B, dest) <=> hit(A[i])
  <2>1. \A i \in 1 .. Len(A) : i \in DOMAIN (A \o B) /\ (A \o B)[i] = A[i]
    BY ConcatIsSeq
  <2>2. QED
    BY <2>1 DEF Hits
<1>2. \A i \in 1 .. Len(B) : Len(A) + i \in Hits(A \o B, dest) <=> hit(B[i])
  <2>1. \A i \in 1 .. Len(B) :
          Len(A) + i \in DOMAIN (A \o B) /\ (A \o B)[Len(A) + i] = B[i]
    BY ConcatIsSeq
  <2>2. QED
    BY <2>1 DEF Hits
<1>3. /\ \A i \in 1 .. Len(A) : i \in Hits(A, dest) <=> hit(A[i])
      /\ \A i \in 1 .. Len(B) : i \in Hits(B, dest) <=> hit(B[i])
      /\ Hits(A, dest) \subseteq 1 .. Len(A)
      /\ Hits(B, dest) \subseteq 1 .. Len(B)
      /\ Hits(A \o B, dest) \subseteq 1 .. (Len(A) + Len(B))
  <2>1. /\ DOMAIN A = 1 .. Len(A) /\ DOMAIN B = 1 .. Len(B)
        /\ DOMAIN (A \o B) = 1 .. (Len(A) + Len(B))
    BY ConcatIsSeq
  <2>2. QED
    BY <2>1 DEF Hits
<1>4. QED
  BY <1>1, <1>2, <1>3

LEMMA ConcatDecides ==
  ASSUME NEW A, NEW B, NEW dest, NEW do, IsSeq(A), IsSeq(B)
  PROVE  /\ Silent(A, dest) /\ Silent(B, dest) => Silent(A \o B, dest)
         /\ Decides(A, dest, do) => Decides(A \o B, dest, do)
         /\ Silent(A, dest) /\ Decides(B, dest, do)
              => Decides(A \o B, dest, do)
<1>. USE ConcatIsSeq, ConcatHits
<1>a. \A k \in 1 .. (Len(A) + Len(B)) :
        k \in 1 .. Len(A) \/ \E i \in 1 .. Len(B) : k = Len(A) + i
  <2>1. SUFFICES ASSUME NEW k \in 1 .. (Len(A) + Len(B)), k \notin 1 .. Len(A)
                 PROVE  k - Len(A) \in 1 .. Len(B) /\ k = Len(A) + (k - Len(A))
    OBVIOUS
  <2>2. QED
    BY <2>1
<1>1. Silent(A, dest) /\ Silent(B, dest) => Silent(A \o B, dest)
  BY <1>a DEF Silent
<1>2. Decides(A, dest, do) => Decides(A \o B, dest, do)
  <2>1. SUFFICES ASSUME NEW i \in Hits(A, dest), A[i].do = do,
                        \A j \in Hits(A, dest) : i <= j
                 PROVE  Decides(A \o B, dest, do)
    BY DEF Decides
  <2>2. i \in Hits(A \o B, dest) /\ (A \o B)[i].do = do
    BY <2>1
  <2>3. \A j \in Hits(A \o B, dest) : i <= j
    BY <2>1, <1>a
  <2>4. QED
    BY <2>2, <2>3 DEF Decides
<1>3. Silent(A, dest) /\ Decides(B, dest, do) => Decides(A \o B, dest, do)
  <2>1. SUFFICES ASSUME Silent(A, dest), NEW i \in Hits(B, dest), B[i].do = do,
                        \A j \in Hits(B, dest) : i <= j
                 PROVE  Decides(A \o B, dest, do)
    BY DEF Decides
  <2>2. Len(A) + i \in Hits(A \o B, dest) /\ (A \o B)[Len(A) + i].do = do
    BY <2>1
  <2>3. ASSUME NEW j \in Hits(A \o B, dest)
        PROVE  Len(A) + i <= j
    <3>1. j \in 1 .. (Len(A) + Len(B)) /\ j \notin 1 .. Len(A)
      BY <2>1 DEF Silent
    <3>2. PICK k \in 1 .. Len(B) : j = Len(A) + k
      BY <3>1, <1>a
    <3>3. k \in Hits(B, dest)
      BY <3>2
    <3>4. i <= k /\ i \in Nat /\ k \in Nat /\ Len(A) \in Nat
      BY <2>1, <3>3
    <3>5. QED
      BY <3>2, <3>4
  <2>4. QED
    BY <2>2, <2>3 DEF Decides
<1>4. QED
  BY <1>1, <1>2, <1>3

LEMMA ConcatSays ==
  ASSUME NEW A, NEW B, NEW dest, NEW v, NEW w,
         Says(A, dest, v), Says(B, dest, w)
  PROVE  Says(A \o B, dest, Or(v, w))
<1>1. IsSeq(A) /\ IsSeq(B) /\ IsSeq(A \o B)
  BY ConcatIsSeq DEF Says
<1>2. CASE v = Nothing /\ w = Nothing
  BY <1>1, <1>2, ConcatDecides DEF Says, Or
<1>3. CASE v = Nothing /\ w # Nothing
  BY <1>1, <1>3, ConcatDecides DEF Says, Or
<1>4. CASE v # Nothing
  BY <1>1, <1>4, ConcatDecides DEF Says, Or
<1>5. QED
  BY <1>2, <1>3, <1>4

LEMMA VerdictSays ==
  ASSUME NEW A, NEW final, NEW dest, NEW v, Says(A, dest, v)
  PROVE  Verdict(A, final, dest) = Or(v, final)
<1>1. Hits(A, dest) \subseteq 1 .. Len(A)
  BY ConcatHits DEF Says
<1>2. ASSUME NEW i \in Hits(A, dest), A[i].do = v, v # Nothing,
             \A j \in Hits(A, dest) : i <= j
      PROVE  Verdict(A, final, dest) = v
  <2>1. \A k \in Hits(A, dest) :
          (\A j \in Hits(A, dest) : k <= j) => k = i
    BY <1>1, <1>2
  <2>2. (CHOOSE k \in Hits(A, dest) : \A j \in Hits(A, dest) : k <= j) = i
    BY <1>2, <2>1
  <2>3. QED
    BY <1>2, <2>2 DEF Verdict
<1>3. CASE v = Nothing
  BY <1>3 DEF Says, Silent, Verdict, Or
<1>4. CASE v # Nothing
  BY <1>2, <1>4 DEF Says, Decides, Or
<1>5. QED
  BY <1>3, <1>4

LEMMA RuleSays ==
  ASSUME NEW matchers, NEW do, do # Nothing, NEW dest
  PROVE  Says(Rule(matchers, do), dest, IfMatched(matchers, dest, do))
<1>. DEFINE r == [match |-> matchers, do |-> do]
<1>1. CASE matchers = {}
  <2>1. Rule(matchers, do) = <<>> /\ ~AnyMatches(matchers, dest)
    BY <1>1 DEF Rule, AnyMatches
  <2>2. IsSeq(<<>>) /\ Silent(<<>>, dest)
    BY DEF IsSeq, Silent, Hits
  <2>3. QED
    BY <2>1, <2>2 DEF Says, IfMatched
<1>2. CASE matchers # {}
  <2>1. Rule(matchers, do) = <<r>>
    BY <1>2 DEF Rule
  <2>2. <<r>> \in Seq({r}) /\ DOMAIN <<r>> = {1} /\ <<r>>[1] = r
    OBVIOUS
  <2>3. IsSeq(<<r>>)
    BY <2>2 DEF IsSeq
  <2>4. Hits(<<r>>, dest) = IF AnyMatches(matchers, dest) THEN {1} ELSE {}
    BY <2>2 DEF Hits
  <2>5. QED
    BY <2>1, <2>2, <2>3, <2>4 DEF Silent, Decides, Says, IfMatched
<1>3. QED
  BY <1>1, <1>2

\* Lists whose rules all do the same are asked as one.
LEMMA SameSays ==
  ASSUME NEW A, NEW B, NEW M, NEW N, NEW do, do # Nothing, NEW dest,
         Says(A, dest, IfMatched(M, dest, do)),
         Says(B, dest, IfMatched(N, dest, do))
  PROVE  Says(A \o B, dest, IfMatched(M \cup N, dest, do))
<1>1. Says(A \o B, dest, Or(IfMatched(M, dest, do), IfMatched(N, dest, do)))
  BY ConcatSays
<1>2. AnyMatches(M \cup N, dest) <=> AnyMatches(M, dest) \/ AnyMatches(N, dest)
  BY DEF AnyMatches
<1>3. QED
  BY <1>1, <1>2 DEF Or, IfMatched

-----------------------------------------------------------------------------
(* The rules of a configuration *)

\* Whichever of its five rules matches, a list of the user's says do.
LEMMA EmitSays ==
  ASSUME NEW do, do # Nothing, NEW list, NEW dest
  PROVE  Says(emit_rules(do, list), dest, IfMatched(Matchers(list), dest, do))
<1>. DEFINE domains == compile_domains(list.domains)
            ips == compile_ips(list.ips)
            M1 == Local(domains)
            M2 == RuleSetsOf(domains)
            M3 == Local(ips)
            M4 == RuleSetsOf(ips)
            M5 == ProcessMatchers(list)
            R(m) == Rule(m, do)
            says(rules, m) == Says(rules, dest, IfMatched(m, dest, do))
<1>1. emit_rules(do, list) = R(M1) \o R(M2) \o R(M3) \o R(M4) \o R(M5)
  BY DEF emit_rules, ProcessMatchers
<1>2. Matchers(list) = M1 \cup M2 \cup M3 \cup M4 \cup M5
  BY DEF Matchers, Local, RuleSetsOf
<1>3. /\ says(R(M1), M1) /\ says(R(M2), M2) /\ says(R(M3), M3)
      /\ says(R(M4), M4) /\ says(R(M5), M5)
  BY RuleSays
<1>. HIDE DEF domains, ips, M1, M2, M3, M4, M5, R
<1>4. says(R(M1) \o R(M2), M1 \cup M2)
  BY <1>3, SameSays
<1>5. says(R(M1) \o R(M2) \o R(M3), M1 \cup M2 \cup M3)
  BY <1>3, <1>4, SameSays
<1>6. says(R(M1) \o R(M2) \o R(M3) \o R(M4), M1 \cup M2 \cup M3 \cup M4)
  BY <1>3, <1>5, SameSays
<1>7. says(R(M1) \o R(M2) \o R(M3) \o R(M4) \o R(M5),
           M1 \cup M2 \cup M3 \cup M4 \cup M5)
  BY <1>3, <1>6, SameSays
<1>8. QED
  BY <1>1, <1>2, <1>7

LEMMA ConsTuple ==
  ASSUME NEW S, NEW x \in S, NEW t \in Seq(S), NEW u \in Seq(S),
         Len(u) = Len(t) + 1, u[1] = x, \A i \in 1 .. Len(t) : u[i + 1] = t[i]
  PROVE  u = <<x>> \o t
<1>1. /\ <<x>> \in Seq(S) /\ Len(<<x>>) = 1 /\ <<x>>[1] = x
      /\ <<x>> \o t \in Seq(S) /\ Len(<<x>> \o t) = Len(t) + 1
  OBVIOUS
<1>2. ASSUME NEW i \in 1 .. Len(u)
      PROVE  u[i] = (<<x>> \o t)[i]
  <2>1. CASE i = 1
    BY <1>1, <2>1
  <2>2. CASE i # 1
    <3>1. i - 1 \in 1 .. Len(t) /\ i = (i - 1) + 1
      BY <2>2
    <3>2. u[i] = t[i - 1]
      BY <3>1
    <3>3. (<<x>> \o t)[i] = t[i - 1]
      BY <1>1, <3>1
    <3>4. QED
      BY <3>2, <3>3
  <2>3. QED
    BY <2>1, <2>2
<1>3. QED
  BY <1>1, <1>2

LEMMA Pair ==
  ASSUME NEW a, NEW b
  PROVE  <<a, b>> = <<a>> \o <<b>>
<1>1. /\ Len(<<a, b>>) = Len(<<b>>) + 1 /\ <<a, b>>[1] = a
      /\ \A i \in 1 .. Len(<<b>>) : <<a, b>>[i + 1] = <<b>>[i]
      /\ <<b>> \in Seq({a, b}) /\ <<a, b>> \in Seq({a, b})
  OBVIOUS
<1>2. QED
  BY <1>1, ConsTuple

LEMMA Triple ==
  ASSUME NEW a, NEW b, NEW c
  PROVE  <<a, b, c>> = <<a>> \o (<<b>> \o <<c>>)
<1>1. /\ Len(<<a, b, c>>) = Len(<<b, c>>) + 1 /\ <<a, b, c>>[1] = a
      /\ \A i \in 1 .. Len(<<b, c>>) : <<a, b, c>>[i + 1] = <<b, c>>[i]
      /\ <<b, c>> \in Seq({a, b, c}) /\ <<a, b, c>> \in Seq({a, b, c})
  OBVIOUS
<1>2. <<a, b, c>> = <<a>> \o <<b, c>>
  BY <1>1, ConsTuple
<1>3. QED
  BY <1>2, Pair

LEMMA SingleSays ==
  ASSUME NEW r, r.do # Nothing, NEW dest
  PROVE  Says(<<r>>, dest, IfMatched(r.match, dest, r.do))
<1>1. <<r>> \in Seq({r}) /\ DOMAIN <<r>> = {1} /\ <<r>>[1] = r
  OBVIOUS
<1>2. IsSeq(<<r>>)
  BY <1>1 DEF IsSeq
<1>3. Hits(<<r>>, dest) = IF AnyMatches(r.match, dest) THEN {1} ELSE {}
  BY <1>1 DEF Hits
<1>4. QED
  BY <1>1, <1>2, <1>3 DEF Silent, Decides, Says, IfMatched

BasicSays(dest) ==
  Or(IfMatched({DnsProtocol}, dest, "hijack-dns"),
     IfMatched({Private}, dest, "direct"))

LEMMA BasicRulesSay ==
  ASSUME NEW dest
  PROVE  Says(BasicRules, dest, BasicSays(dest))
<1>. DEFINE sniff == [match |-> {}, do |-> "sniff"]
            hijack == [match |-> {DnsProtocol}, do |-> "hijack-dns"]
            private == [match |-> {Private}, do |-> "direct"]
<1>1. Says(<<sniff>>, dest, Nothing)
  <2>1. ~AnyMatches({}, dest)
    BY DEF AnyMatches
  <2>2. Says(<<sniff>>, dest, IfMatched({}, dest, "sniff"))
    BY SingleSays DEF Nothing
  <2>3. QED
    BY <2>1, <2>2 DEF IfMatched
<1>2. /\ Says(<<hijack>>, dest, IfMatched({DnsProtocol}, dest, "hijack-dns"))
      /\ Says(<<private>>, dest, IfMatched({Private}, dest, "direct"))
  BY SingleSays DEF Nothing
<1>3. BasicRules = <<sniff, hijack, private>>
  BY DEF BasicRules
<1>. HIDE DEF sniff, hijack, private
<1>4. Says(<<hijack>> \o <<private>>, dest, BasicSays(dest))
  BY <1>2, ConcatSays DEF BasicSays
<1>5. Says(<<sniff>> \o (<<hijack>> \o <<private>>), dest,
           Or(Nothing, BasicSays(dest)))
  BY <1>1, <1>4, ConcatSays
<1>6. <<sniff, hijack, private>> = <<sniff>> \o (<<hijack>> \o <<private>>)
  BY Triple
<1>7. QED
  BY <1>3, <1>5, <1>6 DEF Or

\* The built-in rules of cn-direct.
CnSays(s, dest) ==
  IF s.routing # "cn-direct" THEN Nothing
  ELSE Or(IfMatched({GeositeCn, GeolocationCn, GeoipCn}, dest, "direct"),
          IfMatched(IF s.block_ads THEN {GeositeAds} ELSE {}, dest, "reject"))

LEMMA CnRulesSay ==
  ASSUME NEW s, NEW dest
  PROVE  Says(CnRules(s), dest, CnSays(s, dest))
<1>1. CASE s.routing # "cn-direct"
  <2>1. CnRules(s) = <<>> /\ CnSays(s, dest) = Nothing
    BY <1>1 DEF CnRules, CnSays
  <2>2. Says(<<>>, dest, Nothing)
    BY DEF Says, IsSeq, Silent, Hits
  <2>3. QED
    BY <2>1, <2>2
<1>2. CASE s.routing = "cn-direct"
  <2>. DEFINE names == [match |-> {GeositeCn, GeolocationCn}, do |-> "direct"]
              ips == [match |-> {GeoipCn}, do |-> "direct"]
              ads == IF s.block_ads THEN {GeositeAds} ELSE {}
  <2>1. CnRules(s) = <<names, ips>> \o Rule(ads, "reject")
    BY <1>2 DEF CnRules
  <2>2. /\ Says(<<names>>, dest,
               IfMatched({GeositeCn, GeolocationCn}, dest, "direct"))
        /\ Says(<<ips>>, dest, IfMatched({GeoipCn}, dest, "direct"))
    BY SingleSays DEF Nothing
  <2>3. Says(Rule(ads, "reject"), dest, IfMatched(ads, dest, "reject"))
    BY RuleSays DEF Nothing
  <2>. HIDE DEF names, ips, ads
  <2>4. {GeositeCn, GeolocationCn, GeoipCn}
          = {GeositeCn, GeolocationCn} \cup {GeoipCn}
    OBVIOUS
  <2>5. Says(<<names>> \o <<ips>>, dest,
             IfMatched({GeositeCn, GeolocationCn, GeoipCn}, dest, "direct"))
    BY <2>2, <2>4, SameSays DEF Nothing
  <2>6. Says((<<names>> \o <<ips>>) \o Rule(ads, "reject"), dest,
             Or(IfMatched({GeositeCn, GeolocationCn, GeoipCn}, dest, "direct"),
                IfMatched(ads, dest, "reject")))
    BY <2>3, <2>5, ConcatSays
  <2>7. QED
    BY <1>2, <2>1, <2>6, Pair DEF CnSays, ads
<1>3. QED
  BY <1>1, <1>2

\* What becomes of a connection (config.rs:258-284): block before proxy before
\* direct before the built-in rules, after DNS and private addresses.
ListSays(s, b, do, dest) == IfMatched(Matchers(s.user_rules[b]), dest, do)

LEMMA RouteIs ==
  ASSUME NEW s, NEW dest
  PROVE  Route(s, dest) =
           Or(BasicSays(dest),
           Or(ListSays(s, "block", "reject", dest),
           Or(ListSays(s, "proxy", "proxy", dest),
           Or(ListSays(s, "direct", "direct", dest),
           Or(CnSays(s, dest), "proxy")))))
<1>. DEFINE v1 == BasicSays(dest)
            v2 == ListSays(s, "block", "reject", dest)
            v3 == ListSays(s, "proxy", "proxy", dest)
            v4 == ListSays(s, "direct", "direct", dest)
            v5 == CnSays(s, dest)
            L2 == emit_rules("reject", s.user_rules.block)
            L3 == emit_rules("proxy", s.user_rules.proxy)
            L4 == emit_rules("direct", s.user_rules.direct)
<1>1. route_rules(s) = BasicRules \o L2 \o L3 \o L4 \o CnRules(s)
  BY DEF route_rules
<1>2. /\ s.user_rules.block = s.user_rules["block"]
      /\ s.user_rules.proxy = s.user_rules["proxy"]
      /\ s.user_rules.direct = s.user_rules["direct"]
  OBVIOUS
<1>3. Says(BasicRules, dest, v1) /\ Says(CnRules(s), dest, v5)
  BY BasicRulesSay, CnRulesSay
<1>4. Says(L2, dest, v2) /\ Says(L3, dest, v3) /\ Says(L4, dest, v4)
  BY <1>2, EmitSays DEF ListSays, Nothing
<1>. HIDE DEF v1, v2, v3, v4, v5, L2, L3, L4
<1>5. Says(BasicRules \o L2, dest, Or(v1, v2))
  BY <1>3, <1>4, ConcatSays
<1>6. Says(BasicRules \o L2 \o L3, dest, Or(Or(v1, v2), v3))
  BY <1>4, <1>5, ConcatSays
<1>7. Says(BasicRules \o L2 \o L3 \o L4, dest, Or(Or(Or(v1, v2), v3), v4))
  BY <1>4, <1>6, ConcatSays
<1>8. Says(route_rules(s), dest, Or(Or(Or(Or(v1, v2), v3), v4), v5))
  BY <1>1, <1>3, <1>7, ConcatSays
<1>9. Route(s, dest) = Or(Or(Or(Or(Or(v1, v2), v3), v4), v5), "proxy")
  BY <1>8, VerdictSays DEF Route
<1>10. Or(Or(Or(Or(Or(v1, v2), v3), v4), v5), "proxy")
         = Or(v1, Or(v2, Or(v3, Or(v4, Or(v5, "proxy")))))
  BY DEF Or
<1>11. QED
  BY <1>9, <1>10 DEF v1, v2, v3, v4, v5

\* Who resolves a name (config.rs:293-326).
LEMMA ResolverIs ==
  ASSUME NEW s, NEW dest
  PROVE  Resolver(s, dest) =
           Or(IfMatched((IF s.routing = "cn-direct" THEN {GeositeCn} ELSE {})
                          \cup compile_domains(s.user_rules.direct.domains),
                        dest, "dns-direct"),
           Or(IfMatched(Local(compile_domains(s.user_rules.block.domains)),
                        dest, "NXDOMAIN"),
              "dns-remote"))
<1>. DEFINE direct == compile_domains(s.user_rules.direct.domains)
            cn == IF s.routing = "cn-direct" THEN {GeositeCn} ELSE {}
            block == Local(compile_domains(s.user_rules.block.domains))
            R(m) == Rule(m, "dns-direct")
            says(rules, m) == Says(rules, dest, IfMatched(m, dest, "dns-direct"))
<1>1. dns_rules(s) = R(cn) \o R(Local(direct)) \o R(RuleSetsOf(direct))
                       \o Rule(block, "NXDOMAIN")
  BY DEF dns_rules
<1>2. says(R(cn), cn) /\ says(R(Local(direct)), Local(direct))
        /\ says(R(RuleSetsOf(direct)), RuleSetsOf(direct))
  BY RuleSays DEF Nothing
<1>3. Says(Rule(block, "NXDOMAIN"), dest, IfMatched(block, dest, "NXDOMAIN"))
  BY RuleSays DEF Nothing
<1>4. cn \cup direct = cn \cup Local(direct) \cup RuleSetsOf(direct)
  BY DEF Local, RuleSetsOf
<1>. HIDE DEF cn, direct, block, R
<1>5. says(R(cn) \o R(Local(direct)), cn \cup Local(direct))
  BY <1>2, SameSays DEF Nothing
<1>6. says(R(cn) \o R(Local(direct)) \o R(RuleSetsOf(direct)), cn \cup direct)
  BY <1>2, <1>4, <1>5, SameSays DEF Nothing
<1>7. Says(dns_rules(s), dest, Or(IfMatched(cn \cup direct, dest, "dns-direct"),
                                  IfMatched(block, dest, "NXDOMAIN")))
  BY <1>1, <1>3, <1>6, ConcatSays
<1>8. Resolver(s, dest) = Or(Or(IfMatched(cn \cup direct, dest, "dns-direct"),
                                IfMatched(block, dest, "NXDOMAIN")),
                             "dns-remote")
  BY <1>7, VerdictSays DEF Resolver
<1>9. QED
  BY <1>8 DEF Or, cn, direct, block

-----------------------------------------------------------------------------
(* What the closed forms give *)

\* What the DNS rules block, the route rules reject.
LEMMA NxdomainIsRejected ==
  ASSUME NEW s, NEW dest, dest.holds \cap {Private, DnsProtocol} = {},
         Resolver(s, dest) = "NXDOMAIN"
  PROVE  Route(s, dest) = "reject"
<1>1. AnyMatches(Local(compile_domains(s.user_rules.block.domains)), dest)
  BY ResolverIs DEF Or, IfMatched
<1>2. AnyMatches(Matchers(s.user_rules["block"]), dest)
  BY <1>1 DEF AnyMatches, Matchers, Local
<1>3. ~AnyMatches({DnsProtocol}, dest) /\ ~AnyMatches({Private}, dest)
  BY DEF AnyMatches, Matches, DnsProtocol, Private
<1>4. QED
  BY <1>2, <1>3, RouteIs DEF Or, IfMatched, ListSays, BasicSays, Nothing

\* A connection that only names and expressions can tell matches a list when
\* one of the list's domains does.
LEMMA OnlyDomainsMatch ==
  ASSUME NEW list, NEW dest,
         \A m \in dest.holds : m.field \in {"domain_regex", "geosite"}
  PROVE  AnyMatches(Matchers(list), dest)
           <=> AnyMatches(compile_domains(list.domains), dest)
<1>1. \A m \in compile_ips(list.ips) : m.field \in {"geoip", "ip_cidr"}
  BY DEF compile_ips, RuleSet
<1>2. \A m \in ProcessMatchers(list) : m.field = "process_name"
  BY DEF ProcessMatchers
<1>3. \A m \in compile_ips(list.ips) \cup ProcessMatchers(list) :
        ~Matches(m, dest)
  BY <1>1, <1>2 DEF Matches
<1>4. QED
  BY <1>3 DEF AnyMatches, Matchers

\* What goes direct because of its name was resolved by the direct server.
LEMMA DirectIsResolvedDirectly ==
  ASSUME NEW s, NEW dest, Route(s, dest) = "direct",
         \A m \in dest.holds : /\ m.field \in {"domain_regex", "geosite"}
                               /\ m # GeolocationCn
  PROVE  Resolver(s, dest) = "dns-direct"
<1>. DEFINE direct == compile_domains(s.user_rules.direct.domains)
            cn == IF s.routing = "cn-direct" THEN {GeositeCn} ELSE {}
<1>1. ~AnyMatches({DnsProtocol}, dest) /\ ~AnyMatches({Private}, dest)
  BY DEF AnyMatches, Matches, DnsProtocol, Private
<1>2. \/ AnyMatches(Matchers(s.user_rules["direct"]), dest)
      \/ CnSays(s, dest) = "direct"
  BY <1>1, RouteIs DEF Or, IfMatched, ListSays, BasicSays, Nothing
<1>3. CASE AnyMatches(Matchers(s.user_rules["direct"]), dest)
  <2>1. AnyMatches(direct, dest)
    BY <1>3, OnlyDomainsMatch
  <2>2. AnyMatches(cn \cup direct, dest)
    BY <2>1 DEF AnyMatches
  <2>3. QED
    BY <2>2, ResolverIs DEF Or, IfMatched, Nothing
<1>4. CASE CnSays(s, dest) = "direct"
  <2>1. /\ s.routing = "cn-direct"
        /\ AnyMatches({GeositeCn, GeolocationCn, GeoipCn}, dest)
    BY <1>4 DEF CnSays, Or, IfMatched, Nothing
  <2>2. ~Matches(GeolocationCn, dest) /\ ~Matches(GeoipCn, dest)
    <3>1. /\ Matches(GeolocationCn, dest) => GeolocationCn \in dest.holds
          /\ Matches(GeoipCn, dest) => GeoipCn \in dest.holds
          /\ GeoipCn.field = "geoip"
      BY DEF Matches, GeolocationCn, GeoipCn, RuleSet
    <3>2. QED
      BY <3>1
  <2>3. AnyMatches(cn \cup direct, dest)
    BY <2>1, <2>2 DEF AnyMatches
  <2>4. QED
    BY <2>3, ResolverIs DEF Or, IfMatched, Nothing
<1>5. QED
  BY <1>2, <1>3, <1>4

\* A name that no rule-set but geosite-cn knows, as the preview takes it.
Plain(dest) ==
  dest.holds = IF EndsWith(dest.host, <<"cn">>) THEN {GeositeCn} ELSE {}

\* Entry by entry, the preview matches what the compiled matchers do.
LEMMA PreviewMatches ==
  ASSUME NEW list, NEW dest, Plain(dest), GeositeCn \notin compile_domains(list)
  PROVE  domain_matches(list, dest.host)
           <=> AnyMatches(compile_domains(list), dest)
<1>. DEFINE compiled(e) ==
              CASE e.prefix = "geosite" -> RuleSet("geosite", e.value)
                [] e.prefix \in DOMAIN DomainField ->
                     [field |-> DomainField[e.prefix], value |-> e.value]
                [] OTHER -> [field |-> "domain_suffix", value |-> Whole(e)]
            matches(e) ==
              CASE e.prefix = "full" -> dest.host = e.value
                [] e.prefix = "domain" -> EndsWith(dest.host, e.value)
                [] e.prefix = "keyword" -> HasWithin(dest.host, e.value)
                [] e.prefix \in {"regexp", "geosite"} -> FALSE
                [] OTHER -> EndsWith(dest.host, Whole(e))
<1>1. compile_domains(list) = {compiled(e) : e \in Entries(list)}
  BY DEF compile_domains
<1>2. domain_matches(list, dest.host) <=> \E e \in Entries(list) : matches(e)
  BY DEF domain_matches
<1>3. /\ DOMAIN DomainField = {"full", "domain", "keyword", "regexp"}
      /\ DomainField["full"] = "domain"
      /\ DomainField["domain"] = "domain_suffix"
      /\ DomainField["keyword"] = "domain_keyword"
      /\ DomainField["regexp"] = "domain_regex"
  BY DEF DomainField
<1>4. ASSUME NEW e \in Entries(list)
      PROVE  matches(e) <=> Matches(compiled(e), dest)
  <2>1. CASE e.prefix = "geosite"
    <3>1. compiled(e) = RuleSet("geosite", e.value)
      BY <1>3, <2>1
    <3>2. Matches(compiled(e), dest) <=> compiled(e) \in dest.holds
      BY <3>1 DEF Matches, RuleSet
    <3>3. compiled(e) # GeositeCn
      BY <1>1
    <3>4. QED
      BY <2>1, <3>2, <3>3 DEF Plain
  <2>2. CASE e.prefix = "regexp"
    <3>1. compiled(e) = [field |-> "domain_regex", value |-> e.value]
      BY <1>3, <2>2
    <3>2. Matches(compiled(e), dest) <=> compiled(e) \in dest.holds
      BY <3>1 DEF Matches
    <3>3. compiled(e) # GeositeCn
      BY <1>1
    <3>4. QED
      BY <2>2, <3>2, <3>3 DEF Plain
  <2>3. CASE e.prefix = "full"
    BY <1>3, <2>3 DEF Matches
  <2>4. CASE e.prefix = "domain"
    BY <1>3, <2>4 DEF Matches
  <2>5. CASE e.prefix = "keyword"
    BY <1>3, <2>5 DEF Matches
  <2>6. CASE e.prefix \notin {"geosite", "full", "domain", "keyword", "regexp"}
    <3>1. compiled(e) = [field |-> "domain_suffix", value |-> Whole(e)]
      BY <1>3, <2>6
    <3>2. Matches(compiled(e), dest) <=> EndsWith(dest.host, Whole(e))
      BY <3>1 DEF Matches
    <3>3. QED
      BY <2>6, <3>2
  <2>7. QED
    BY <2>1, <2>2, <2>3, <2>4, <2>5, <2>6
<1>. HIDE DEF compiled, matches
<1>5. QED
  BY <1>1, <1>2, <1>4 DEF AnyMatches

\* The preview of a name is what the rules do with it.
LEMMA PreviewIsRoute ==
  ASSUME NEW s, NEW dest, Plain(dest),
         \A b \in Buckets :
           GeositeCn \notin compile_domains(s.user_rules[b].domains)
  PROVE  LET preview == classify_domain(s.user_rules, s.routing, dest.host)
         IN  Route(s, dest) = IF preview = "block" THEN "reject" ELSE preview
<1>. DEFINE listed(b) == domain_matches(s.user_rules[b].domains, dest.host)
            cn == EndsWith(dest.host, <<"cn">>)
<1>1. \A m \in dest.holds : m = GeositeCn /\ m.field = "geosite"
  BY DEF Plain, GeositeCn, RuleSet
<1>2. ASSUME NEW b \in Buckets
      PROVE  AnyMatches(Matchers(s.user_rules[b]), dest) <=> listed(b)
  BY <1>1, OnlyDomainsMatch, PreviewMatches
<1>3. /\ AnyMatches(Matchers(s.user_rules["block"]), dest) <=> listed("block")
      /\ AnyMatches(Matchers(s.user_rules["proxy"]), dest) <=> listed("proxy")
      /\ AnyMatches(Matchers(s.user_rules["direct"]), dest) <=> listed("direct")
  BY <1>2 DEF Buckets
<1>4. BasicSays(dest) = Nothing
  BY <1>1 DEF BasicSays, Or, IfMatched, AnyMatches, Matches, DnsProtocol, Private
<1>5. Or(CnSays(s, dest), "proxy")
        = IF s.routing = "cn-direct" /\ cn THEN "direct" ELSE "proxy"
  <2>1. Matches(GeositeCn, dest) <=> cn
    BY DEF Matches, GeositeCn, RuleSet, Plain
  <2>2. ~Matches(GeositeAds, dest) /\ ~Matches(GeoipCn, dest)
          /\ ~Matches(GeolocationCn, dest)
    <3>1. GeositeAds # GeositeCn /\ GeoipCn # GeositeCn /\ GeolocationCn # GeositeCn
      <4>1. /\ GeositeAds.value[1] = "category-ads-all"
            /\ GeositeCn.value[1] = "cn" /\ GeolocationCn.value[1] = "geolocation-cn"
            /\ GeoipCn.field = "geoip" /\ GeositeCn.field = "geosite"
        BY DEF GeositeAds, GeoipCn, GeolocationCn, GeositeCn, RuleSet
      <4>2. QED
        BY <4>1
    <3>2. /\ Matches(GeositeAds, dest) => GeositeAds \in dest.holds
          /\ Matches(GeoipCn, dest) => GeoipCn \in dest.holds
          /\ Matches(GeolocationCn, dest) => GeolocationCn \in dest.holds
      BY DEF Matches, GeositeAds, GeoipCn, GeolocationCn, RuleSet
    <3>3. QED
      BY <1>1, <3>1, <3>2
  <2>3. /\ AnyMatches({GeositeCn, GeolocationCn, GeoipCn}, dest) <=> cn
        /\ ~AnyMatches(IF s.block_ads THEN {GeositeAds} ELSE {}, dest)
    BY <2>1, <2>2 DEF AnyMatches
  <2>4. QED
    BY <2>3 DEF CnSays, Or, IfMatched, Nothing
<1>6. classify_domain(s.user_rules, s.routing, dest.host)
        = IF listed("block") THEN "block"
          ELSE IF listed("proxy") THEN "proxy"
          ELSE IF listed("direct") \/ (s.routing = "cn-direct" /\ cn)
               THEN "direct" ELSE "proxy"
  BY DEF classify_domain
<1>. HIDE DEF listed, cn
<1>7. QED
  BY <1>3, <1>4, <1>5, <1>6, RouteIs DEF Or, IfMatched, ListSays, Nothing

-----------------------------------------------------------------------------
(* Rule-sets *)

\* The rule-sets a list of rules names.
Named(rules) == UNION {RuleSetsOf(rule.match) : rule \in ToSet(rules)}

LEMMA ConcatNamed ==
  ASSUME NEW A, NEW B, IsSeq(A), IsSeq(B)
  PROVE  IsSeq(A \o B) /\ Named(A \o B) = Named(A) \cup Named(B)
<1>. USE ConcatIsSeq
<1>1. \A k \in 1 .. (Len(A) + Len(B)) :
        k \in 1 .. Len(A) \/ \E i \in 1 .. Len(B) : k = Len(A) + i
  <2>1. SUFFICES ASSUME NEW k \in 1 .. (Len(A) + Len(B)), k \notin 1 .. Len(A)
                 PROVE  k - Len(A) \in 1 .. Len(B) /\ k = Len(A) + (k - Len(A))
    OBVIOUS
  <2>2. QED
    BY <2>1
<1>2. ToSet(A \o B) = ToSet(A) \cup ToSet(B)
  <2>1. ASSUME NEW k \in 1 .. (Len(A) + Len(B))
        PROVE  (A \o B)[k] \in ToSet(A) \cup ToSet(B)
    BY <1>1 DEF ToSet
  <2>2. ASSUME NEW i \in 1 .. Len(A)
        PROVE  A[i] \in ToSet(A \o B)
    <3>1. i \in DOMAIN (A \o B) /\ (A \o B)[i] = A[i]
      OBVIOUS
    <3>2. QED
      BY <3>1 DEF ToSet
  <2>3. ASSUME NEW i \in 1 .. Len(B)
        PROVE  B[i] \in ToSet(A \o B)
    <3>1. Len(A) + i \in DOMAIN (A \o B) /\ (A \o B)[Len(A) + i] = B[i]
      OBVIOUS
    <3>2. QED
      BY <3>1 DEF ToSet
  <2>4. /\ ToSet(A) = {A[i] : i \in 1 .. Len(A)}
        /\ ToSet(B) = {B[i] : i \in 1 .. Len(B)}
        /\ ToSet(A \o B) = {(A \o B)[k] : k \in 1 .. (Len(A) + Len(B))}
    BY DEF ToSet
  <2>5. ToSet(A \o B) \subseteq ToSet(A) \cup ToSet(B)
    BY <2>1, <2>4
  <2>6. ToSet(A) \subseteq ToSet(A \o B) /\ ToSet(B) \subseteq ToSet(A \o B)
    BY <2>2, <2>3, <2>4
  <2>7. QED
    BY <2>5, <2>6
<1>3. QED
  BY <1>2 DEF Named

LEMMA SingleNamed ==
  ASSUME NEW r
  PROVE  IsSeq(<<r>>) /\ Named(<<r>>) = RuleSetsOf(r.match)
<1>1. <<r>> \in Seq({r}) /\ DOMAIN <<r>> = {1} /\ <<r>>[1] = r
  OBVIOUS
<1>2. ToSet(<<r>>) = {r}
  BY <1>1 DEF ToSet
<1>3. QED
  BY <1>1, <1>2 DEF IsSeq, Named

LEMMA EmptyNamed == IsSeq(<<>>) /\ Named(<<>>) = {}
  BY DEF IsSeq, Named, ToSet

LEMMA RuleNamed ==
  ASSUME NEW matchers, NEW do
  PROVE  /\ IsSeq(Rule(matchers, do))
         /\ Named(Rule(matchers, do)) = RuleSetsOf(matchers)
<1>1. CASE matchers = {}
  BY <1>1, EmptyNamed DEF Rule, RuleSetsOf
<1>2. CASE matchers # {}
  <2>. DEFINE r == [match |-> matchers, do |-> do]
  <2>1. Rule(matchers, do) = <<r>> /\ r.match = matchers
    BY <1>2 DEF Rule
  <2>. HIDE DEF r
  <2>2. QED
    BY <2>1, SingleNamed
<1>3. QED
  BY <1>1, <1>2

\* Two rules split the matchers of a list; neither drops a rule-set.
LEMMA SplitNamed ==
  ASSUME NEW M
  PROVE  RuleSetsOf(Local(M)) = {} /\ RuleSetsOf(RuleSetsOf(M)) = RuleSetsOf(M)
  BY DEF RuleSetsOf, Local

ListNames(list) ==
  RuleSetsOf(compile_domains(list.domains)) \cup RuleSetsOf(compile_ips(list.ips))

LEMMA EmitNamed ==
  ASSUME NEW do, NEW list
  PROVE  /\ IsSeq(emit_rules(do, list))
         /\ Named(emit_rules(do, list)) = ListNames(list)
<1>. DEFINE domains == compile_domains(list.domains)
            ips == compile_ips(list.ips)
            processes == ProcessMatchers(list)
            R(m) == Rule(m, do)
            R1 == R(Local(domains))
            R2 == R(RuleSetsOf(domains))
            R3 == R(Local(ips))
            R4 == R(RuleSetsOf(ips))
            R5 == R(processes)
<1>1. emit_rules(do, list) = R1 \o R2 \o R3 \o R4 \o R5
  BY DEF emit_rules, ProcessMatchers
<1>2. /\ IsSeq(R1) /\ Named(R1) = {}
      /\ IsSeq(R2) /\ Named(R2) = RuleSetsOf(domains)
      /\ IsSeq(R3) /\ Named(R3) = {}
      /\ IsSeq(R4) /\ Named(R4) = RuleSetsOf(ips)
  BY RuleNamed, SplitNamed
<1>3. IsSeq(R5) /\ Named(R5) = {}
  <2>1. RuleSetsOf(processes) = {}
    BY DEF RuleSetsOf, ProcessMatchers, Families
  <2>2. QED
    BY <2>1, RuleNamed
<1>. HIDE DEF R1, R2, R3, R4, R5
<1>4. IsSeq(R1 \o R2) /\ Named(R1 \o R2) = RuleSetsOf(domains)
  BY <1>2, ConcatNamed
<1>5. IsSeq(R1 \o R2 \o R3) /\ Named(R1 \o R2 \o R3) = RuleSetsOf(domains)
  BY <1>2, <1>4, ConcatNamed
<1>6. /\ IsSeq(R1 \o R2 \o R3 \o R4)
      /\ Named(R1 \o R2 \o R3 \o R4) = RuleSetsOf(domains) \cup RuleSetsOf(ips)
  BY <1>2, <1>5, ConcatNamed
<1>7. QED
  BY <1>1, <1>3, <1>6, ConcatNamed DEF ListNames

CnNames(s) ==
  IF s.routing # "cn-direct" THEN {}
  ELSE {GeositeCn, GeolocationCn, GeoipCn}
         \cup (IF s.block_ads THEN {GeositeAds} ELSE {})

LEMMA RouteNamed ==
  ASSUME NEW s
  PROVE  /\ IsSeq(route_rules(s))
         /\ Named(route_rules(s)) = ListNames(s.user_rules.block)
              \cup ListNames(s.user_rules.proxy)
              \cup ListNames(s.user_rules.direct) \cup CnNames(s)
<1>. DEFINE L2 == emit_rules("reject", s.user_rules.block)
            L3 == emit_rules("proxy", s.user_rules.proxy)
            L4 == emit_rules("direct", s.user_rules.direct)
<1>1. route_rules(s) = BasicRules \o L2 \o L3 \o L4 \o CnRules(s)
  BY DEF route_rules
<1>2. IsSeq(BasicRules) /\ Named(BasicRules) = {}
  <2>. DEFINE sniff == [match |-> {}, do |-> "sniff"]
              hijack == [match |-> {DnsProtocol}, do |-> "hijack-dns"]
              private == [match |-> {Private}, do |-> "direct"]
  <2>1. BasicRules = <<sniff, hijack, private>>
    BY DEF BasicRules
  <2>2. /\ RuleSetsOf(sniff.match) = {} /\ RuleSetsOf(hijack.match) = {}
        /\ RuleSetsOf(private.match) = {}
    BY DEF RuleSetsOf, Families, DnsProtocol, Private
  <2>. HIDE DEF sniff, hijack, private
  <2>3. /\ IsSeq(<<sniff>>) /\ Named(<<sniff>>) = {}
        /\ IsSeq(<<hijack>>) /\ Named(<<hijack>>) = {}
        /\ IsSeq(<<private>>) /\ Named(<<private>>) = {}
    BY <2>2, SingleNamed
  <2>4. /\ IsSeq(<<hijack>> \o <<private>>)
        /\ Named(<<hijack>> \o <<private>>) = {}
    <3>. DEFINE H == <<hijack>>
                P == <<private>>
    <3>1. IsSeq(H) /\ IsSeq(P) /\ Named(H) = {} /\ Named(P) = {}
      BY <2>3
    <3>. HIDE DEF H, P
    <3>2. IsSeq(H \o P) /\ Named(H \o P) = {}
      BY <3>1, ConcatNamed
    <3>3. QED
      BY <3>2 DEF H, P
  <2>5. /\ IsSeq(<<sniff>> \o (<<hijack>> \o <<private>>))
        /\ Named(<<sniff>> \o (<<hijack>> \o <<private>>)) = {}
    BY <2>3, <2>4, ConcatNamed
  <2>6. QED
    BY <2>1, <2>5, Triple
<1>3. IsSeq(CnRules(s)) /\ Named(CnRules(s)) = CnNames(s)
  <2>1. CASE s.routing # "cn-direct"
    BY <2>1, EmptyNamed DEF CnRules, CnNames
  <2>2. CASE s.routing = "cn-direct"
    <3>. DEFINE names == [match |-> {GeositeCn, GeolocationCn}, do |-> "direct"]
                ips == [match |-> {GeoipCn}, do |-> "direct"]
                ads == IF s.block_ads THEN {GeositeAds} ELSE {}
    <3>1. CnRules(s) = <<names, ips>> \o Rule(ads, "reject")
      BY <2>2 DEF CnRules
    <3>2. /\ RuleSetsOf(names.match) = {GeositeCn, GeolocationCn}
          /\ RuleSetsOf(ips.match) = {GeoipCn}
          /\ RuleSetsOf(ads) = ads
      BY DEF RuleSetsOf, Families, RuleSet, GeositeCn, GeolocationCn, GeoipCn,
             GeositeAds
    <3>. HIDE DEF names, ips, ads
    <3>3. /\ IsSeq(<<names>>) /\ Named(<<names>>) = {GeositeCn, GeolocationCn}
          /\ IsSeq(<<ips>>) /\ Named(<<ips>>) = {GeoipCn}
          /\ IsSeq(Rule(ads, "reject")) /\ Named(Rule(ads, "reject")) = ads
      BY <3>2, SingleNamed, RuleNamed
    <3>4. /\ IsSeq(<<names>> \o <<ips>>)
          /\ Named(<<names>> \o <<ips>>)
               = {GeositeCn, GeolocationCn} \cup {GeoipCn}
      BY <3>3, ConcatNamed
    <3>5. /\ IsSeq((<<names>> \o <<ips>>) \o Rule(ads, "reject"))
          /\ Named((<<names>> \o <<ips>>) \o Rule(ads, "reject"))
               = ({GeositeCn, GeolocationCn} \cup {GeoipCn}) \cup ads
      BY <3>3, <3>4, ConcatNamed
    <3>6. CnNames(s) = ({GeositeCn, GeolocationCn} \cup {GeoipCn}) \cup ads
      BY <2>2 DEF CnNames, ads
    <3>7. QED
      BY <3>1, <3>5, <3>6, Pair
  <2>3. QED
    BY <2>1, <2>2
<1>4. /\ IsSeq(L2) /\ Named(L2) = ListNames(s.user_rules.block)
      /\ IsSeq(L3) /\ Named(L3) = ListNames(s.user_rules.proxy)
      /\ IsSeq(L4) /\ Named(L4) = ListNames(s.user_rules.direct)
  BY EmitNamed
<1>. HIDE DEF L2, L3, L4
<1>5. IsSeq(BasicRules \o L2) /\ Named(BasicRules \o L2) = Named(L2)
  BY <1>2, <1>4, ConcatNamed
<1>6. /\ IsSeq(BasicRules \o L2 \o L3)
      /\ Named(BasicRules \o L2 \o L3) = Named(L2) \cup Named(L3)
  BY <1>4, <1>5, ConcatNamed
<1>7. /\ IsSeq(BasicRules \o L2 \o L3 \o L4)
      /\ Named(BasicRules \o L2 \o L3 \o L4)
           = Named(L2) \cup Named(L3) \cup Named(L4)
  BY <1>4, <1>6, ConcatNamed
<1>8. QED
  BY <1>1, <1>3, <1>4, <1>7, ConcatNamed

LEMMA DnsNamed ==
  ASSUME NEW s
  PROVE  /\ IsSeq(dns_rules(s))
         /\ Named(dns_rules(s)) =
              (IF s.routing = "cn-direct" THEN {GeositeCn} ELSE {})
                \cup RuleSetsOf(compile_domains(s.user_rules.direct.domains))
<1>. DEFINE direct == compile_domains(s.user_rules.direct.domains)
            cn == IF s.routing = "cn-direct" THEN {GeositeCn} ELSE {}
            R1 == Rule(cn, "dns-direct")
            R2 == Rule(Local(direct), "dns-direct")
            R3 == Rule(RuleSetsOf(direct), "dns-direct")
            R4 == Rule(Local(compile_domains(s.user_rules.block.domains)),
                       "NXDOMAIN")
<1>1. dns_rules(s) = R1 \o R2 \o R3 \o R4
  BY DEF dns_rules
<1>2. RuleSetsOf(cn) = cn
  BY DEF RuleSetsOf, Families, GeositeCn, RuleSet
<1>3. /\ IsSeq(R1) /\ Named(R1) = cn
      /\ IsSeq(R2) /\ Named(R2) = {}
      /\ IsSeq(R3) /\ Named(R3) = RuleSetsOf(direct)
      /\ IsSeq(R4) /\ Named(R4) = {}
  BY <1>2, RuleNamed, SplitNamed
<1>. HIDE DEF R1, R2, R3, R4
<1>4. IsSeq(R1 \o R2) /\ Named(R1 \o R2) = cn
  BY <1>3, ConcatNamed
<1>5. /\ IsSeq(R1 \o R2 \o R3)
      /\ Named(R1 \o R2 \o R3) = cn \cup RuleSetsOf(direct)
  BY <1>3, <1>4, ConcatNamed
<1>6. QED
  BY <1>1, <1>3, <1>5, ConcatNamed

\* The rules name the rule-sets that are declared, and no others.
LEMMA NamedAreDeclared ==
  ASSUME NEW s
  PROVE  Named(route_rules(s) \o dns_rules(s)) = rule_set(s)
<1>1. Named(route_rules(s) \o dns_rules(s))
        = Named(route_rules(s)) \cup Named(dns_rules(s))
  BY RouteNamed, DnsNamed, ConcatNamed
<1>. DEFINE All == UNION {ListNames(s.user_rules[b]) : b \in Buckets}
<1>2. All
        = ListNames(s.user_rules.block) \cup ListNames(s.user_rules.proxy)
            \cup ListNames(s.user_rules.direct)
  BY DEF Buckets
<1>3. rule_set(s) = All \cup CnNames(s)
  BY DEF rule_set, ListNames, CnNames
<1>. HIDE DEF All
<1>4. Named(dns_rules(s)) \subseteq ListNames(s.user_rules.direct) \cup CnNames(s)
  BY DnsNamed DEF ListNames, CnNames
<1>5. Named(route_rules(s)) = ListNames(s.user_rules.block)
         \cup ListNames(s.user_rules.proxy)
         \cup ListNames(s.user_rules.direct) \cup CnNames(s)
  BY RouteNamed
<1>6. Named(route_rules(s)) = rule_set(s)
  BY <1>2, <1>3, <1>5
<1>7. Named(dns_rules(s)) \subseteq Named(route_rules(s))
  BY <1>4, <1>5
<1>8. QED
  BY <1>1, <1>6, <1>7

\* Whatever the DNS addresses are, what needs what can be put in order:
\* dns-local, dns-direct, proxy, then the rest.
LEMMA NeedsAreOrdered ==
  ASSUME NEW s, NEW T \in SUBSET DOMAIN Needs(s), T # {}
  PROVE  \E t \in T : Needs(s)[t] \cap T = {}
<1>1. /\ DOMAIN Needs(s) =
           {"dns-remote", "dns-direct", "dns-local", "proxy", "rule_set"}
      /\ Needs(s)["dns-local"] = {}
      /\ Needs(s)["proxy"] = {"dns-direct"}
      /\ Needs(s)["rule_set"] = {"proxy"}
      /\ Needs(s)["dns-direct"] \subseteq {"dns-local"}
      /\ Needs(s)["dns-remote"] \subseteq {"proxy", "dns-local"}
  BY DEF Needs, dns_server, DefaultResolver, ruleset_entry
<1>2. CASE "dns-local" \in T
  BY <1>1, <1>2
<1>3. CASE "dns-local" \notin T /\ "dns-direct" \in T
  BY <1>1, <1>3
<1>4. CASE "dns-local" \notin T /\ "dns-direct" \notin T /\ "proxy" \in T
  BY <1>1, <1>4
<1>5. CASE T \subseteq {"dns-remote", "rule_set"}
  BY <1>1, <1>5
<1>6. QED
  BY <1>1, <1>2, <1>3, <1>4, <1>5
-----------------------------------------------------------------------------
(* Lists and lines *)

ProcessEntry(name) == [prefix |-> "process", value |-> name]

LEMMA ProcessEntries ==
  ASSUME NEW names \in Seq(Seq(STRING))
  PROVE  LET entries == [i \in DOMAIN names |-> ProcessEntry(names[i])]
         IN  /\ entries \in Seq(EntryType)
             /\ ToSet(entries) = {ProcessEntry(name) : name \in ToSet(names)}
<1>. DEFINE entries == [i \in DOMAIN names |-> ProcessEntry(names[i])]
<1>1. /\ DOMAIN names = 1 .. Len(names) /\ Len(names) \in Nat
      /\ \A i \in 1 .. Len(names) : ProcessEntry(names[i]) \in EntryType
  BY DEF ProcessEntry, EntryType, EntryPrefixes
<1>2. entries \in Seq(EntryType) /\ DOMAIN entries = DOMAIN names
  BY <1>1
<1>3. ToSet(entries) = {entries[i] : i \in DOMAIN names}
  BY <1>2 DEF ToSet
<1>4. QED
  BY <1>2, <1>3 DEF ToSet

\* The lines of a list are its entries, whichever of its parts they are in.
LEMMA LinesOf ==
  ASSUME NEW list \in RuleListType
  PROVE  /\ to_lines(list) \in Seq(EntryType)
         /\ ToSet(to_lines(list)) =
              ToSet(list.domains) \cup ToSet(list.ips)
                \cup {ProcessEntry(name) : name \in ToSet(list.processes)}
<1>. DEFINE entries == [i \in DOMAIN list.processes |->
                          ProcessEntry(list.processes[i])]
<1>1. /\ list.domains \in Seq(EntryType) /\ list.ips \in Seq(EntryType)
      /\ list.processes \in Seq(Seq(STRING))
  BY DEF RuleListType
<1>2. /\ entries \in Seq(EntryType)
      /\ ToSet(entries) = {ProcessEntry(name) : name \in ToSet(list.processes)}
  BY <1>1, ProcessEntries
<1>. DEFINE names == list.domains \o list.ips
<1>3. to_lines(list) = names \o entries
  BY DEF to_lines, ProcessEntry
<1>4. /\ names \in Seq(EntryType)
      /\ ToSet(names) = ToSet(list.domains) \cup ToSet(list.ips)
  BY <1>1, ToSetConcat
<1>. HIDE DEF entries, names
<1>5. /\ names \o entries \in Seq(EntryType)
      /\ ToSet(names \o entries) = ToSet(names) \cup ToSet(entries)
  BY <1>2, <1>4, ToSetConcat
<1>6. QED
  BY <1>2, <1>3, <1>4, <1>5

\* from_lines loses the comments and the empty lines, and nothing else.
LEMMA FromLinesKeeps ==
  ASSUME NEW lines \in Seq(EntryType)
  PROVE  /\ from_lines(lines) \in RuleListType
         /\ ToSet(to_lines(from_lines(lines))) =
              {e \in ToSet(lines) : ~Skipped(e)}
<1>. DEFINE all == ToSet(lines)
            processes == filter(lines, {e \in all : ProcessLine(e)})
            domains == filter(lines, {e \in all : DomainLine(e)})
            ips == filter(lines, {e \in all : IpLine(e)})
            names == [i \in DOMAIN processes |-> processes[i].value]
<1>1. /\ processes \in Seq(EntryType)
      /\ ToSet(processes) = {e \in all : ProcessLine(e)}
  BY FilterSelects
<1>2. domains \in Seq(EntryType) /\ ToSet(domains) = {e \in all : DomainLine(e)}
  BY FilterSelects
<1>3. ips \in Seq(EntryType) /\ ToSet(ips) = {e \in all : IpLine(e)}
  BY FilterSelects
<1>4. from_lines(lines) = [domains |-> domains, ips |-> ips, processes |-> names]
  BY DEF from_lines
<1>5. all \subseteq EntryType
  BY ToSetIs
<1>. HIDE DEF processes, domains, ips, all
<1>6. names \in Seq(Seq(STRING))
  <2>1. /\ DOMAIN processes = 1 .. Len(processes) /\ Len(processes) \in Nat
        /\ \A i \in 1 .. Len(processes) : processes[i] \in EntryType
    BY <1>1
  <2>2. \A i \in 1 .. Len(processes) : processes[i].value \in Seq(STRING)
    BY <2>1 DEF EntryType
  <2>3. QED
    BY <2>1, <2>2
<1>7. ToSet(names) = {e.value : e \in ToSet(processes)}
  <2>1. /\ DOMAIN names = DOMAIN processes
        /\ \A i \in DOMAIN processes : names[i] = processes[i].value
    OBVIOUS
  <2>. HIDE DEF names
  <2>2. ToSet(names) = {names[i] : i \in DOMAIN processes}
    BY <2>1 DEF ToSet
  <2>3. ToSet(processes) = {processes[i] : i \in DOMAIN processes}
    BY DEF ToSet
  <2>4. QED
    BY <2>1, <2>2, <2>3
<1>8. {ProcessEntry(name) : name \in ToSet(names)} = ToSet(processes)
  <2>1. \A e \in ToSet(processes) : ProcessEntry(e.value) = e
    BY <1>1, <1>5 DEF ProcessEntry, ProcessLine, EntryType
  <2>2. QED
    BY <1>7, <2>1
<1>. HIDE DEF names
<1>9. from_lines(lines) \in RuleListType
  BY <1>2, <1>3, <1>4, <1>6 DEF RuleListType
<1>10. \A e \in EntryType :
         ~Skipped(e) <=> DomainLine(e) \/ IpLine(e) \/ ProcessLine(e)
  BY DEF EntryType, EntryPrefixes, DomainPrefixes, DomainLine, IpLine, ProcessLine,
    Skipped, Blank
<1>11. ToSet(to_lines(from_lines(lines))) =
         ToSet(domains) \cup ToSet(ips) \cup ToSet(processes)
  BY <1>4, <1>8, <1>9, LinesOf
<1>12. QED
  BY <1>1, <1>2, <1>3, <1>5, <1>9, <1>10, <1>11 DEF all
=============================================================================
