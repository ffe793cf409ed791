--------------------------- MODULE LanScanProofs ---------------------------
(***************************************************************************)
(* What holds of every scan of iad-agent, whatever interfaces, networks    *)
(* and answers it meets.                                                   *)
(***************************************************************************)
EXTENDS LanScan, FoldInduction

-----------------------------------------------------------------------------
(* Powers of two. Exponentiation is known from the number of subsets.      *)

LEMMA TwoToThe ==
    ASSUME NEW n \in Nat
    PROVE  2 ^ n \in Nat /\ IsFiniteSet(SUBSET (1..n)) /\ Cardinality(SUBSET (1..n)) = 2 ^ n
<1>1. IsFiniteSet(1..n) /\ Cardinality(1..n) = n
  BY FS_Interval
<1>2. IsFiniteSet(SUBSET (1..n)) /\ Cardinality(SUBSET (1..n)) = 2 ^ n
  BY <1>1, FS_SUBSET
<1> QED
  BY <1>2, FS_CardinalityType

LEMMA TwoStep ==
    ASSUME NEW n \in Nat
    PROVE  2 ^ (n + 1) = 2 * 2 ^ n
<1> DEFINE S == SUBSET (1..n)
           T == {s \cup {n + 1} : s \in S}
           f == [s \in S |-> s \cup {n + 1}]
<1>1. n + 1 \notin 1..n /\ 1..n + 1 = 1..n \cup {n + 1} /\ n + 1 \in Nat
  OBVIOUS
<1>2. SUBSET (1..n + 1) = S \cup T
  <2>1. ASSUME NEW u \in SUBSET (1..n + 1), n + 1 \in u PROVE u \in T
    <3>1. u \ {n + 1} \in S /\ u = (u \ {n + 1}) \cup {n + 1}
      BY <1>1, <2>1
    <3> QED
      BY <3>1
  <2>2. ASSUME NEW u \in SUBSET (1..n + 1), n + 1 \notin u PROVE u \in S
    BY <1>1, <2>2
  <2>3. S \cup T \subseteq SUBSET (1..n + 1)
    BY <1>1
  <2> QED
    BY <2>1, <2>2, <2>3
<1>3. S \cap T = {}
  BY <1>1
<1>4. f \in Bijection(S, T)
  <2>1. \A s, t \in S : f[s] = f[t] => s = t
    <3> SUFFICES ASSUME NEW s \in S, NEW t \in S, s \cup {n + 1} = t \cup {n + 1} PROVE s = t
      OBVIOUS
    <3>1. s = (s \cup {n + 1}) \ {n + 1} /\ t = (t \cup {n + 1}) \ {n + 1}
      BY <1>1
    <3> QED
      BY <3>1
  <2>2. \A t \in T : \E s \in S : f[s] = t
    OBVIOUS
  <2>3. f \in [S -> T]
    OBVIOUS
  <2> HIDE DEF S, T, f
  <2> QED
    BY <2>1, <2>2, <2>3 DEF Bijection, Injection, Surjection, IsInjective
<1>5. IsFiniteSet(S) /\ Cardinality(S) = 2 ^ n /\ 2 ^ n \in Nat
  BY TwoToThe
<1> HIDE DEF S, T, f
<1>6. IsFiniteSet(T) /\ Cardinality(T) = Cardinality(S)
  BY <1>4, <1>5, FS_Bijection DEF ExistsBijection
<1>7. Cardinality(S \cup T) = Cardinality(S) + Cardinality(T)
  <2>1. Cardinality(S \cup T) = Cardinality(S) + Cardinality(T) - Cardinality(S \cap T)
    BY <1>5, <1>6, FS_Union
  <2>2. Cardinality(S \cap T) = 0
    BY <1>3, FS_EmptySet
  <2> QED
    BY <1>5, <1>6, <2>1, <2>2
<1>8. Cardinality(SUBSET (1..n + 1)) = 2 ^ (n + 1)
  BY <1>1, TwoToThe
<1>9. Cardinality(S \cup T) = 2 ^ (n + 1)
  BY <1>2, <1>8
<1>10. Cardinality(S \cup T) = 2 ^ n + 2 ^ n
  BY <1>5, <1>6, <1>7
<1> DEFINE x == 2 ^ n
           y == 2 ^ (n + 1)
<1>11. y = x + x /\ x \in Nat
  BY <1>5, <1>9, <1>10
<1> HIDE DEF x, y
<1>12. y = 2 * x
  BY <1>11
<1> QED
  BY <1>12 DEF x, y

LEMMA TwoToZero == 2 ^ 0 = 1
<1>1. 1..0 = {} /\ SUBSET {} = {{}} /\ 0 \in Nat
  OBVIOUS
<1>2. Cardinality({{}}) = 1
  BY FS_Singleton
<1> QED
  BY <1>1, <1>2, TwoToThe

\* A larger power is a multiple of a smaller one.
LEMMA TwoMultiple ==
    ASSUME NEW m \in Nat, NEW d \in Nat
    PROVE  /\ 2 ^ m \in Nat \ {0} /\ 2 ^ d \in Nat \ {0} /\ 2 ^ (m + d) = 2 ^ m * 2 ^ d
           /\ 2 ^ m <= 2 ^ (m + d) /\ (d # 0 => 2 * 2 ^ m <= 2 ^ (m + d))
<1> DEFINE G == {k \in Nat : 2 ^ k # 0 /\ 2 ^ (m + k) = 2 ^ m * 2 ^ k}
<1>1. 0 \in G
  BY TwoToZero, TwoToThe
<1>2. ASSUME NEW k \in Nat, k \in G PROVE k + 1 \in G
  <2>1. 2 ^ (k + 1) = 2 * 2 ^ k /\ 2 ^ (m + (k + 1)) = 2 * 2 ^ (m + k)
    <3>1. m + k \in Nat /\ m + (k + 1) = (m + k) + 1
      OBVIOUS
    <3> QED
      BY <3>1, TwoStep
  <2>2. 2 ^ k \in Nat /\ 2 ^ m \in Nat /\ 2 ^ (m + k) \in Nat
    <3>1. m + k \in Nat
      OBVIOUS
    <3> QED
      BY <3>1, TwoToThe
  <2>3. 2 ^ (m + k) = 2 ^ m * 2 ^ k /\ 2 ^ k # 0
    BY <1>2
  <2>4. 2 * (2 ^ m * 2 ^ k) = 2 ^ m * (2 * 2 ^ k)
    BY <2>2
  <2> QED
    BY <2>1, <2>2, <2>3, <2>4
<1>3. \A n \in Nat : n \in G
  <2> SUFFICES ASSUME NEW n \in Nat PROVE n \in G
    OBVIOUS
  <2>1. G \in SUBSET Nat
    OBVIOUS
  <2> HIDE DEF G
  <2>2. \A k \in 0..n - 1 : k \in G => k + 1 \in G
    BY <1>2
  <2>3. \A k \in 0..n : k \in G
    BY <1>1, <2>1, <2>2, UpTo
  <2> QED
    BY <2>3
<1>4. 2 ^ (m + d) = 2 ^ m * 2 ^ d /\ 2 ^ d # 0
  BY <1>3
<1>5. 2 ^ m \in Nat /\ 2 ^ d \in Nat
  BY TwoToThe
<1>6. 2 ^ m # 0
  <2>1. m \in G
    BY <1>3
  <2> QED
    BY <2>1
<1>7. 2 ^ m <= 2 ^ m * 2 ^ d
  <2> DEFINE x == 2 ^ m
             y == 2 ^ d
  <2>1. x \in Nat \ {0} /\ y \in Nat \ {0}
    BY <1>4, <1>5, <1>6
  <2> HIDE DEF x, y
  <2>2. x <= x * y
    BY <2>1
  <2> QED
    BY <2>2 DEF x, y
<1>8. ASSUME d # 0 PROVE 2 * 2 ^ m <= 2 ^ m * 2 ^ d
  <2>1. d - 1 \in Nat /\ (d - 1) + 1 = d
    BY <1>8
  <2>2. 2 ^ d = 2 * 2 ^ (d - 1) /\ 2 ^ (d - 1) \in Nat /\ d - 1 \in G
    BY <1>3, <2>1, TwoStep, TwoToThe
  <2> DEFINE x == 2 ^ m
             y == 2 ^ (d - 1)
  <2>3. x \in Nat \ {0} /\ y \in Nat \ {0}
    BY <1>5, <1>6, <2>2
  <2> HIDE DEF x, y
  <2>4. 2 * x <= x * (2 * y)
    BY <2>3
  <2> QED
    BY <2>2, <2>4 DEF x, y
<1> QED
  BY <1>4, <1>5, <1>6, <1>7, <1>8

LEMMA TwoPositive ==
    ASSUME NEW m \in Nat
    PROVE  2 ^ m \in Nat \ {0}
<1>1. 2 ^ (m + m) = 2 ^ m * 2 ^ m /\ 2 ^ m \in Nat \ {0}
  BY TwoMultiple
<1> QED
  BY <1>1

-----------------------------------------------------------------------------
(* Roles. What a target's address and place in the chain of gateways add   *)
(* to its signals leaves it unreachable.                                   *)

LEMMA NoPorts ==
    ASSUME NEW order \in Seq(Nat), NEW ports, ports = {}
    PROVE  InOrder(ports, order) = <<>>
<1> DEFINE kept == Those(order, ports)
<1>1. kept \in Seq(Nat) /\ ToSet(kept) = ToSet(order) \cap ports
  BY ThoseIn
<1> HIDE DEF kept
<1>2. ToSet(kept) = {}
  BY <1>1
<1>3. Len(kept) \in Nat /\ DOMAIN kept = 1..Len(kept)
  BY <1>1
<1>4. DOMAIN kept = {}
  BY <1>2 DEF ToSet
<1>5. Len(kept) = 0
  <2> SUFFICES ASSUME Len(kept) # 0 PROVE FALSE
    OBVIOUS
  <2>1. 1 \in DOMAIN kept
    BY <1>3
  <2> QED
    BY <2>1, <1>4
<1>6. kept = <<>>
  BY <1>1, <1>5
<1> QED
  BY <1>6 DEF kept, InOrder

LEMMA NoPages == \A answer : PagesVendor(answer, <<>>) = NoVendor
<1> TAKE answer
<1> DEFINE q == <<>>
           Sol(g) == g = [s \in SUBSET DOMAIN q |-> IF s = {} THEN NoVendor ELSE WithPage(g[s \ {Max(s)}], answer.pages[q[Max(s)]])]
           f == CHOOSE g : Sol(g)
<1>1. PagesVendor(answer, q) = f[DOMAIN q]
  BY Zenon DEF FoldLeft, MapThenFoldSet, PagesVendor
<1>2. DOMAIN q = {} /\ SUBSET DOMAIN q = {{}}
  OBVIOUS
<1>3. Sol([s \in SUBSET DOMAIN q |-> NoVendor])
  BY <1>2
<1>4. Sol(f)
  BY <1>3, Zenon
<1> HIDE DEF f
<1>5. f[{}] = NoVendor
  BY <1>2, <1>4
<1> QED
  BY <1>1, <1>2, <1>5

LEMMA NoCerts == \A answer, vendor : CertsVendor(answer, <<>>, vendor) = vendor
<1> TAKE answer, vendor
<1> DEFINE q == <<>>
           Sol(g) == g = [s \in SUBSET DOMAIN q |-> IF s = {} THEN vendor ELSE WithCertificate(g[s \ {Max(s)}], answer.certs[q[Max(s)]])]
           f == CHOOSE g : Sol(g)
<1>1. CertsVendor(answer, q, vendor) = f[DOMAIN q]
  BY Zenon DEF FoldLeft, MapThenFoldSet, CertsVendor
<1>2. DOMAIN q = {} /\ SUBSET DOMAIN q = {{}}
  OBVIOUS
<1>3. Sol([s \in SUBSET DOMAIN q |-> vendor])
  BY <1>2
<1>4. Sol(f)
  BY <1>3, Zenon
<1> HIDE DEF f
<1>5. f[{}] = vendor
  BY <1>2, <1>4
<1> QED
  BY <1>1, <1>2, <1>5

\* Who answers nothing has no vendor.
LEMMA SilentVendor ==
    ASSUME NEW answer, answer.ports \cap SafeUpstreamPorts = {}
    PROVE  VendorOf(answer) = NoVendor
<1> DEFINE web == <<80, 8080, 443, 8443>>
           tls == <<443, 8443>>
           pages == (answer.ports \cap SafeUpstreamPorts) \cap DOMAIN answer.pages
           certs == (answer.ports \cap SafeUpstreamPorts) \cap DOMAIN answer.certs
<1>1. web \in Seq(Nat) /\ tls \in Seq(Nat)
  OBVIOUS
<1>2. pages = {} /\ certs = {}
  OBVIOUS
<1>3. VendorOf(answer) = CertsVendor(answer, InOrder(certs, tls), PagesVendor(answer, InOrder(pages, web)))
  BY DEF VendorOf
<1> HIDE DEF web, tls, pages, certs
<1>4. \A order \in Seq(Nat) : \A ports : ports = {} => InOrder(ports, order) = <<>>
  BY NoPorts, Zenon
<1>5. InOrder(pages, web) = <<>> /\ InOrder(certs, tls) = <<>>
  BY <1>1, <1>2, <1>4, Zenon
<1>6. PagesVendor(answer, InOrder(pages, web)) = NoVendor
  BY <1>5, NoPages, Zenon
<1>7. CertsVendor(answer, InOrder(certs, tls), NoVendor) = NoVendor
  BY <1>5, NoCerts, Zenon
<1> QED
  BY <1>3, <1>6, <1>7, Zenon

\* What its class says of a target whose only signals come from its place.
Modest(r) ==
    r.class.signals \subseteq {"visible_in_traceroute", "private_upstream_hop"} =>
        /\ r.warnings # {}
        /\ r.class.tags \cap {"ISP_CPE", "ONT", "MODEM"} = {}
        /\ r.routing.kind \in {"default_gateway", "unreachable_inferred"}

\* A target that answered has the signal that says so.
LEMMA ReachedSignals ==
    ASSUME NEW f
    PROVE  /\ f.icmp => \E s \in Signals(f) : s[1] = "reachable_by_icmp"
           /\ f.tcp => \E s \in Signals(f) : s[1] = "reachable_by_tcp"
<1> DEFINE a == <<"reachable_by_icmp", 18, f.icmp>>
           b == <<"reachable_by_tcp", 12, f.tcp>>
<1>1. (a[3] => a \in Signals(f)) /\ (b[3] => b \in Signals(f))
  BY DEF Signals
<1>2. a[3] = f.icmp /\ a[1] = "reachable_by_icmp" /\ b[3] = f.tcp /\ b[1] = "reachable_by_tcp"
  OBVIOUS
<1> HIDE DEF a, b
<1> QED
  BY <1>1, <1>2

\* What is said of a target nothing was heard from.
LEMMA UnheardTags ==
    ASSUME NEW f, NEW conf, Unreachable(f), f.open = {}, ~f.http.ont, ~f.http.modem, ~f.http.routerLike
    PROVE  /\ DeriveTags(f, conf).warnings # {}
           /\ DeriveTags(f, conf).tags \cap {"ISP_CPE", "ONT", "MODEM"} = {}
           /\ AnalyzeRouting(f).kind \in {"default_gateway", "unreachable_inferred"}
<1>1. DeriveTags(f, conf).warnings # {}
  BY DEF DeriveTags
<1>2. DeriveTags(f, conf).tags \cap {"ISP_CPE", "ONT", "MODEM"} = {}
  BY DEF DeriveTags
<1>3. AnalyzeRouting(f).kind \in {"default_gateway", "unreachable_inferred"}
  BY DEF AnalyzeRouting
<1> QED
  BY <1>1, <1>2, <1>3

LEMMA EnrichedModest ==
    ASSUME NEW t, NEW net, NEW answer
    PROVE  Modest(EnrichOne(t, net, answer))
<1> DEFINE f == Facts(t, NetContains(net, t.ip), answer)
           c == Classify(f)
           open == answer.ports \cap SafeUpstreamPorts
           place == {"visible_in_traceroute", "private_upstream_hop"}
<1>1. f.open = open /\ f.http = VendorOf(answer) /\ f.tcp = (open # {})
  BY DEF Facts
<1>2. EnrichOne(t, net, answer).class = c /\ EnrichOne(t, net, answer).warnings = c.warnings /\ EnrichOne(t, net, answer).routing = AnalyzeRouting(f)
  BY DEF EnrichOne
<1> HIDE DEF f
<1>3. c.signals = {s[1] : s \in Signals(f)} /\ \E conf : c.warnings = DeriveTags(f, conf).warnings /\ c.tags = DeriveTags(f, conf).tags
  BY DEF Classify
<1> HIDE DEF c
<1>4. SUFFICES ASSUME c.signals \subseteq place
               PROVE  /\ c.warnings # {} /\ c.tags \cap {"ISP_CPE", "ONT", "MODEM"} = {}
                      /\ AnalyzeRouting(f).kind \in {"default_gateway", "unreachable_inferred"}
  BY <1>2 DEF Modest
<1>5. "reachable_by_icmp" \notin c.signals /\ "reachable_by_tcp" \notin c.signals
  BY <1>4
<1>6. ~f.icmp /\ ~f.tcp
  BY <1>3, <1>5, ReachedSignals
<1>7. open = {}
  BY <1>1, <1>6
<1>8. f.http = NoVendor
  BY <1>1, <1>7, SilentVendor
<1>9. Unreachable(f) /\ f.open = {}
  BY <1>1, <1>6, <1>7 DEF Unreachable
<1>10. ~f.http.ont /\ ~f.http.modem /\ ~f.http.routerLike
  <2>1. NoVendor.ont = FALSE /\ NoVendor.modem = FALSE /\ NoVendor.routerLike = FALSE
    BY DEF NoVendor
  <2>2. f.http.ont = FALSE /\ f.http.modem = FALSE /\ f.http.routerLike = FALSE
    BY <1>8, <2>1, Zenon
  <2> QED
    BY <2>2, Zenon
<1>11. \A conf : /\ DeriveTags(f, conf).warnings # {}
                 /\ DeriveTags(f, conf).tags \cap {"ISP_CPE", "ONT", "MODEM"} = {}
                 /\ AnalyzeRouting(f).kind \in {"default_gateway", "unreachable_inferred"}
  BY <1>9, <1>10, UnheardTags
<1> QED
  BY <1>3, <1>11

LEMMA ResultsModest ==
    ASSUME NEW rep, NEW detected, NEW answers
    PROVE  LET found == EnrichReport(rep, detected, answers) IN \A ip \in DOMAIN found : Modest(found[ip])
<1> DEFINE targets == CollectTargets(rep, detected)
           TargetOf(ip) == CHOOSE t \in targets : t.ip = ip
           found == EnrichReport(rep, detected, answers)
<1>1. found = [ip \in {t.ip : t \in targets} |-> EnrichOne(TargetOf(ip), rep.scope.net, answers[ip])]
  BY DEF EnrichReport
<1> HIDE DEF targets, found
<1>2. \A ip \in DOMAIN found : found[ip] = EnrichOne(TargetOf(ip), rep.scope.net, answers[ip])
  BY <1>1
<1>3. ASSUME NEW ip \in DOMAIN found PROVE Modest(found[ip])
  <2> DEFINE t == TargetOf(ip)
             answer == answers[ip]
             net == rep.scope.net
  <2>1. found[ip] = EnrichOne(t, net, answer)
    BY <1>2
  <2> HIDE DEF t, answer, net
  <2>2. Modest(EnrichOne(t, net, answer))
    BY EnrichedModest
  <2> QED
    BY <2>1, <2>2, Zenon
<1> QED
  BY <1>3 DEF found

\* The interface Select starts from, and what it makes of it.
Primary(ifaces, g, name, virtual) == IF name # "" THEN FindByName(ifaces, name) ELSE SelectPrimary(ifaces, g, virtual)

Takes(primary, g, r, public) ==
    /\ primary # NoInterface /\ ~ParseScope(r, public, primary).err
    /\ stage' = "scoped"
    /\ scan' = [NoScan EXCEPT !.primary = primary, !.gateway = g, !.scope = ParseScope(r, public, primary).scope,
                              !.warnings = ParseScope(r, public, primary).warnings]

\* Select as its outcome: refused, or a scope that was accepted for a chosen interface.
LEMMA SelectOutcome ==
    ASSUME NEW ifaces, NEW g, NEW r, NEW public, NEW name, NEW virtual, Select(ifaces, g, r, public, name, virtual)
    PROVE  /\ stage = "start" /\ UNCHANGED <<report, ctx, results, mobile, intel>>
           /\ \/ stage' = "refused" /\ UNCHANGED scan
              \/ Takes(Primary(ifaces, g, name, virtual), g, r, public)
<1> DEFINE primary == Primary(ifaces, g, name, virtual)
           parsed == ParseScope(r, public, primary)
           refused == stage' = "refused" /\ UNCHANGED scan
           scoped == /\ stage' = "scoped"
                     /\ scan' = [NoScan EXCEPT !.primary = primary, !.gateway = g, !.scope = parsed.scope, !.warnings = parsed.warnings]
           kept == UNCHANGED <<report, ctx, results, mobile, intel>>
<1>1. stage = "start" /\ (IF primary = NoInterface \/ parsed.err THEN refused ELSE scoped) /\ kept
  BY Zenon DEF Select, Primary
<1>2. primary # NoInterface /\ ~parsed.err /\ scoped => Takes(primary, g, r, public)
  BY Zenon DEF Takes
<1> HIDE DEF primary, parsed, refused, scoped, kept
<1>3. stage = "start" /\ kept /\ (refused \/ Takes(primary, g, r, public))
  BY <1>1, <1>2
<1> QED
  BY <1>3, Zenon DEF primary, refused, kept

\* classify.go:11-13: "Classification NEVER asserts a strong physical role from an IP pattern alone".
\* Whatever is detected and answered, no target gets a role its own answers do not carry.
THEOREM RolesNeedEvidence == Spec => []NoRoleFromAddressAlone
<1>1. NoRoleFromAddressAlone <=> \A ip \in DOMAIN results : Modest(results[ip])
  BY DEF NoRoleFromAddressAlone, Modest
<1>2. Init => NoRoleFromAddressAlone
  <2>1. DOMAIN Nothing = {}
    BY DEF Nothing
  <2> QED
    BY <1>1, <2>1 DEF Init
<1>3. NoRoleFromAddressAlone /\ [Next]_vars => NoRoleFromAddressAlone'
  <2> SUFFICES ASSUME NoRoleFromAddressAlone, [Next]_vars PROVE NoRoleFromAddressAlone'
    OBVIOUS
  <2>1. ASSUME UNCHANGED results PROVE NoRoleFromAddressAlone'
    BY <2>1 DEF NoRoleFromAddressAlone
  <2>2. ASSUME NEW answers \in Answers, EnrichUpstream(answers) PROVE NoRoleFromAddressAlone'
    <3>1. results' = EnrichReport(report, ctx, answers)
      BY <2>2 DEF EnrichUpstream
    <3>2. \A ip \in DOMAIN results' : Modest(results'[ip])
      BY <3>1, ResultsModest
    <3> QED
      BY <3>2 DEF NoRoleFromAddressAlone, Modest
  <2>3. CASE ~\E answers \in Answers : EnrichUpstream(answers)
    <3>1. \A ifaces, g, r, public, name, virtual : Select(ifaces, g, r, public, name, virtual) => UNCHANGED results
      BY SelectOutcome
    <3>2. \A lan, detected, fingerprints :
             DiscoverLAN(lan) \/ ClassifyAccess(detected) \/ SkipUpstream \/ BuildDeviceIntel(fingerprints) \/ Complete
                => UNCHANGED results
      BY DEF DiscoverLAN, ClassifyAccess, SkipUpstream, BuildDeviceIntel, Complete
    <3>3. UNCHANGED results
      BY <2>3, <3>1, <3>2 DEF Next, vars
    <3> QED
      BY <2>1, <3>3
  <2> QED
    BY <2>2, <2>3
<1> QED
  BY <1>2, <1>3, PTL DEF Spec

-----------------------------------------------------------------------------
(* The scope.                                                              *)

\* A block of numbers without its first and last.
LEMMA InnerBlock ==
    ASSUME NEW a \in Int, NEW n \in Nat, n >= 2
    PROVE  \A all : all = a .. (a + n - 1) =>
              IsFiniteSet(all \ {Min(all), Max(all)}) /\ Cardinality(all \ {Min(all), Max(all)}) = n - 2
<1> DEFINE all == a .. (a + n - 1)
           inner == (a + 1) .. (a + n - 2)
<1>1. Min(all) = a
  <2>1. a \in all /\ \A y \in all : a <= y
    OBVIOUS
  <2>2. \A x \in all : (\A y \in all : x <= y) => x = a
    OBVIOUS
  <2> HIDE DEF all
  <2> QED
    BY <2>1, <2>2 DEF Min
<1>2. Max(all) = a + n - 1
  <2>1. a + n - 1 \in all /\ \A y \in all : a + n - 1 >= y
    OBVIOUS
  <2>2. \A x \in all : (\A y \in all : x >= y) => x = a + n - 1
    OBVIOUS
  <2> HIDE DEF all
  <2> QED
    BY <2>1, <2>2 DEF Max
<1>3. all \ {a, a + n - 1} = inner
  OBVIOUS
<1>4. IsFiniteSet(inner) /\ Cardinality(inner) = n - 2
  <2>1. a + 1 \in Int /\ a + n - 2 \in Int
    OBVIOUS
  <2>2. IsFiniteSet(inner) /\ Cardinality(inner) = IF a + 1 > a + n - 2 THEN 0 ELSE (a + n - 2) - (a + 1) + 1
    BY <2>1, FS_Interval
  <2> HIDE DEF inner
  <2> QED
    BY <2>2
<1> HIDE DEF all, inner
<1> QED
  BY <1>1, <1>2, <1>3, <1>4 DEF all

\* What a scope that was not refused is.
Sound(scope) ==
    /\ scope.hosts \in Nat /\ scope.hosts <= MaxScanHosts
    /\ IsFiniteSet(HostsInScope(scope)) /\ Cardinality(HostsInScope(scope)) = scope.hosts
    /\ HostsInScope(scope) \subseteq {ip \in Nat : InScope(scope, ip)}
    /\ ~scope.public /\ ~Outgrows(scope.net) => \A ip \in HostsInScope(scope) : IsPrivateIP(ip)

\* A network as large as the limit at most, from its host bits.
LEMMA LimitedBits ==
    ASSUME NEW hb \in Nat, HostCount(Bits - hb) <= MaxScanHosts, hb <= Bits
    PROVE  /\ MaxScanHosts \in Nat /\ 2 ^ hb \in Nat \ {0} /\ 2 ^ hb <= MaxScanHosts
           /\ HostCount(Bits - hb) = IF hb <= 1 THEN 2 ^ hb ELSE 2 ^ hb - 2
           /\ hb >= 2 => 2 ^ hb >= 2
<1>0. Bits \in Nat
  BY LimitAssumption
<1>1. PICK k \in 2..Bits : MaxScanHosts = 2 ^ k
  BY LimitAssumption
<1>2. k \in Nat /\ k - 2 \in Nat /\ (k - 2) + 2 = k
  BY <1>0
<1>3. 2 ^ 1 = 2 /\ 2 ^ 2 = 4
  <2>1. 2 ^ (0 + 1) = 2 * 2 ^ 0 /\ 2 ^ (1 + 1) = 2 * 2 ^ 1
    BY TwoStep
  <2> QED
    BY <2>1, TwoToZero
<1>4. 2 ^ k \in Nat \ {0} /\ 2 ^ hb \in Nat \ {0}
  <2>1. 2 ^ k \in Nat \ {0}
    BY <1>2, TwoPositive
  <2>2. 2 ^ hb \in Nat \ {0}
    BY TwoPositive
  <2> QED
    BY <2>1, <2>2
<1>5. 2 ^ k >= 4
  <2>1. ASSUME NEW m \in Nat, m = 2, NEW d \in Nat PROVE 2 ^ m <= 2 ^ (m + d)
    BY TwoMultiple
  <2> DEFINE j == k - 2
             m == 2
  <2>2. j \in Nat /\ m \in Nat /\ m = 2 /\ m + j = k
    BY <1>2
  <2> HIDE DEF j, m
  <2>3. 2 ^ m <= 2 ^ (m + j)
    BY <2>1, <2>2
  <2> QED
    BY <1>3, <2>2, <2>3
<1> DEFINE x == 2 ^ k
           y == 2 ^ hb
           c == HostCount(Bits - hb)
<1>6. c = IF hb <= 1 THEN y ELSE IF hb >= Bits - 1 THEN x + 1 ELSE y - 2
  <2>1. Bits - (Bits - hb) = hb
    BY <1>0
  <2> QED
    BY <1>1, <2>1 DEF HostCount
<1>7. hb > k => y >= 2 * x
  <2> SUFFICES ASSUME hb > k PROVE y >= 2 * x
    OBVIOUS
  <2>1. hb - k \in Nat /\ hb - k # 0 /\ k + (hb - k) = hb
    BY <1>2
  <2>2. 2 * 2 ^ k <= 2 ^ (k + (hb - k))
    BY <1>2, <2>1, TwoMultiple
  <2> QED
    BY <2>1, <2>2
<1>8. hb <= k => y <= x
  <2> SUFFICES ASSUME hb <= k PROVE y <= x
    OBVIOUS
  <2>1. k - hb \in Nat /\ hb + (k - hb) = k
    BY <1>2
  <2>2. 2 ^ hb <= 2 ^ (hb + (k - hb))
    BY <2>1, TwoMultiple
  <2> QED
    BY <2>1, <2>2
<1>9. hb >= 2 => y >= 2
  <2> SUFFICES ASSUME hb >= 2 PROVE y >= 2
    OBVIOUS
  <2>1. hb - 1 \in Nat /\ hb - 1 # 0 /\ 1 + (hb - 1) = hb /\ 1 \in Nat
    OBVIOUS
  <2>2. 2 * 2 ^ 1 <= 2 ^ (1 + (hb - 1))
    BY <2>1, TwoMultiple
  <2>3. 4 <= y
    BY <1>3, <2>1, <2>2
  <2> QED
    BY <1>4, <2>3
<1>10. c <= x /\ MaxScanHosts = x
  BY <1>1
<1>11. x \in Nat /\ y \in Nat \ {0} /\ x >= 4
  BY <1>4, <1>5
<1> HIDE DEF x, y, c
<1>12. /\ y <= x /\ c = IF hb <= 1 THEN y ELSE y - 2
  <2>1. CASE hb <= 1
    BY <1>2, <1>6, <1>8, <1>10, <1>11, <2>1
  <2>2. CASE hb > 1 /\ hb >= Bits - 1
    BY <1>0, <1>6, <1>10, <1>11, <2>2
  <2>3. CASE hb > 1 /\ ~(hb >= Bits - 1)
    <3>1. c = y - 2
      BY <1>0, <1>6, <2>3
    <3>2. hb <= k
      BY <1>2, <1>7, <1>10, <1>11, <3>1
    <3> QED
      BY <1>8, <2>3, <3>1, <3>2
  <2> QED
    BY <1>0, <2>1, <2>2, <2>3
<1> QED
  BY <1>9, <1>10, <1>11, <1>12 DEF x, y, c

LEMMA RoundedDown ==
    ASSUME NEW a \in Nat, NEW s \in Nat \ {0}
    PROVE  a - (a % s) \in Nat /\ (a - (a % s)) % s = 0
<1> DEFINE q == a \div s
           r == a % s
<1>1. q \in Nat /\ r \in 0..s - 1 /\ a = s * q + r
  OBVIOUS
<1> HIDE DEF q, r
<1>2. s * q \in Nat /\ a - r = s * q
  BY <1>1
<1>3. (s * q) % s = 0
  BY <1>1
<1> QED
  BY <1>2, <1>3 DEF r

\* A network that starts in a block and is not larger ends in it.
LEMMA BlockHolds ==
    ASSUME NEW m \in Nat, NEW d \in Nat, NEW base \in Nat, NEW start \in Nat,
           base % 2 ^ m = 0, start % 2 ^ (m + d) = 0,
           start <= base, base <= start + 2 ^ (m + d) - 1
    PROVE  base + 2 ^ m - 1 <= start + 2 ^ (m + d) - 1
<1> DEFINE s == 2 ^ m
           e == 2 ^ d
           b == 2 ^ (m + d)
<1>1. s \in Nat \ {0} /\ e \in Nat \ {0} /\ b = s * e
  BY TwoMultiple
<1> HIDE DEF s, e, b
<1>2. b \in Nat \ {0}
  BY <1>1
<1>3. base = s * (base \div s) /\ base \div s \in Nat
  BY <1>1 DEF s
<1>4. start = b * (start \div b) /\ start \div b \in Nat
  BY <1>2 DEF b
<1> DEFINE q == base \div s
           p == start \div b
<1>41. q \in Nat /\ p \in Nat /\ base = s * q /\ start = b * p
  BY <1>3, <1>4
<1> HIDE DEF q, p
<1>42. (s * e) * p = s * (e * p)
  BY <1>1, <1>41
<1>5. q \in Nat /\ p \in Nat /\ base = s * q /\ start = s * (e * p)
  BY <1>1, <1>41, <1>42
<1>6. base <= start + b - 1
  BY DEF b
<1>7. s * q <= s * (e * p) + s * e - 1
  BY <1>1, <1>5, <1>6
<1> DEFINE r == e * p + e
<1>8. r \in Nat /\ s * (e * p) + s * e = s * r
  BY <1>1, <1>5
<1> HIDE DEF r
<1>9. s * q < s * r /\ s * q \in Nat /\ s * r \in Nat
  BY <1>1, <1>5, <1>7, <1>8
<1>10. q < r
  <2> SUFFICES ASSUME r <= q PROVE FALSE
    BY <1>5, <1>8
  <2>1. s * r <= s * q
    BY <1>1, <1>5, <1>8
  <2> QED
    BY <1>9, <2>1
<1>11. s * (q + 1) <= s * r
  BY <1>1, <1>5, <1>8, <1>10
<1>12. s * (q + 1) = s * q + s
  BY <1>1, <1>5
<1>13. base + s - 1 <= start + b - 1
  <2>1. base + s <= start + b
    BY <1>1, <1>5, <1>8, <1>11, <1>12
  <2> QED
    BY <1>1, <1>2, <2>1
<1> QED
  BY <1>13 DEF s, b

LEMMA BlockTooLarge ==
    ASSUME NEW m \in Nat, NEW n \in Nat, m < n
    PROVE  2 ^ m \in Nat /\ 2 ^ n \in Nat /\ 2 ^ m < 2 ^ n
<1>1. n - m \in Nat /\ n - m # 0 /\ m + (n - m) = n
  OBVIOUS
<1>2. 2 ^ m \in Nat \ {0} /\ 2 * 2 ^ m <= 2 ^ (m + (n - m))
  BY <1>1, TwoMultiple
<1>3. 2 ^ n \in Nat
  BY TwoToThe
<1> DEFINE x == 2 ^ m
           y == 2 ^ n
<1>4. x \in Nat \ {0} /\ y \in Nat /\ 2 * x <= y
  BY <1>1, <1>2, <1>3
<1> HIDE DEF x, y
<1>5. x < y
  BY <1>4
<1> QED
  BY <1>4, <1>5 DEF x, y

\* What ParseScope accepts.
LEMMA AcceptedSound ==
    ASSUME NEW requested \in Nets, NEW public, NEW primary, primary.net \in Nets, ~ParseScope(requested, public, primary).err
    PROVE  Sound(ParseScope(requested, public, primary).scope)
<1> DEFINE asked == IF requested = NoNet THEN primary.net ELSE requested
           net == ParseCIDR(asked)
           scope == Scope(requested, net, public)
<1>1. /\ asked \in Nets /\ asked # NoNet /\ (scope.private \/ public) /\ ~(scope.hosts > MaxScanHosts)
      /\ ParseScope(requested, public, primary).scope = scope
  <2>1. asked \in Nets
    OBVIOUS
  <2> DEFINE danger == IF public /\ (scope.net.v6 \/ ~scope.private) THEN {"public_scope_enabled"} ELSE {}
             size == IF scope.net.v6 THEN {"ipv6_scope_unsupported"}
                     ELSE IF scope.hosts > SoftWarnHosts THEN {"large_scope"} ELSE {}
             wrong == asked = NoNet \/ (~scope.private /\ ~public) \/ scope.hosts > MaxScanHosts
  <2>2. ParseScope(requested, public, primary) = IF wrong THEN Refused ELSE Accepted(scope, danger \cup size)
    BY Zenon DEF ParseScope
  <2>3. Refused.err = TRUE /\ Accepted(scope, danger \cup size).scope = scope
    BY DEF Refused, Accepted
  <2> HIDE DEF wrong, danger, size, scope
  <2>4. ~wrong
    BY <2>2, <2>3
  <2>5. ParseScope(requested, public, primary).scope = scope
    BY <2>2, <2>3, <2>4
  <2> QED
    BY <2>1, <2>4, <2>5 DEF wrong
<1>2. /\ scope.net = net /\ scope.public = public /\ scope.hosts = IF net.v6 THEN 0 ELSE HostCount(net.len)
      /\ scope.private = IF net.v6 THEN net.base \in Private6 ELSE IsPrivateIP(net.base)
  BY DEF Scope
<1> HIDE DEF scope
<1>20. MaxScanHosts \in Nat
  <2>1. PICK k \in 2..Bits : MaxScanHosts = 2 ^ k
    BY LimitAssumption
  <2>2. k \in Nat
    BY LimitAssumption
  <2>3. 2 ^ k \in Nat
    BY <2>2, TwoToThe
  <2> QED
    BY <2>1, <2>3
<1>3. ASSUME net.v6 PROVE Sound(scope)
  <2>1. HostsInScope(scope) = {} /\ scope.hosts = 0
    BY <1>2, <1>3 DEF HostsInScope
  <2> QED
    BY <1>20, <2>1, FS_EmptySet DEF Sound
<1>4. ASSUME ~net.v6 PROVE Sound(scope)
  <2>1. asked.v6 = FALSE /\ asked.base \in Nat /\ asked.len \in 0..Bits /\ net = [asked EXCEPT !.base = asked.base - (asked.base % Size(asked))]
    <3>1. asked \in [v6 : BOOLEAN, base : Int, len : 0 .. Bits] /\ (asked.v6 \/ asked.base >= 0)
      BY <1>1 DEF Nets
    <3>2. ~asked.v6
      BY <1>4 DEF ParseCIDR
    <3> QED
      BY <3>1, <3>2 DEF ParseCIDR
  <2> HIDE DEF asked, net
  <2> DEFINE hb == Bits - net.len
             size == 2 ^ hb
             all == net.base .. (net.base + size - 1)
  <2>2. net.len = asked.len /\ net.base = asked.base - (asked.base % Size(asked)) /\ hb \in Nat /\ hb <= Bits /\ net.len = Bits - hb
        /\ Size(asked) = size /\ Size(net) = size /\ Bits \in Nat
    BY <1>1, <2>1, LimitAssumption DEF Nets, Size
  <2>3. /\ scope.hosts = HostCount(Bits - hb) /\ scope.hosts <= MaxScanHosts
        /\ size \in Nat \ {0} /\ size <= MaxScanHosts
        /\ scope.hosts = IF hb <= 1 THEN size ELSE size - 2
        /\ hb >= 2 => size >= 2
    <3>1. scope.hosts = HostCount(Bits - hb)
      BY <1>2, <1>4, <2>2
    <3>2. HostCount(Bits - hb) \in Int
      <4>1. 2 ^ (Bits - (Bits - hb)) \in Nat
        BY <2>2, TwoToThe
      <4> QED
        BY <1>20, <4>1 DEF HostCount
    <3>3. HostCount(Bits - hb) <= MaxScanHosts
      BY <1>1, <1>20, <3>1, <3>2
    <3> QED
      BY <2>2, <3>1, <3>3, LimitedBits
  <2> HIDE DEF hb, size, all
  <2>4. net.base \in Nat /\ net.base % size = 0
    <3>1. asked.base \in Nat /\ net.base = asked.base - (asked.base % size)
      BY <2>1, <2>2 DEF size
    <3> QED
      BY <2>3, <3>1, RoundedDown
  <2>5. HostsInScope(scope) = IF hb >= 2 THEN all \ {Min(all), Max(all)} ELSE all
    BY <1>2, <1>4, <1>20, <2>2, <2>3 DEF HostsInScope, hb, all
  <2>6. HostsInScope(scope) \subseteq all
    BY <2>5
  <2>7. IsFiniteSet(HostsInScope(scope)) /\ Cardinality(HostsInScope(scope)) = scope.hosts
    <3>1. CASE hb >= 2
      <4>0. net.base \in Int /\ size \in Nat /\ size >= 2 /\ all = net.base .. (net.base + size - 1)
        BY <2>3, <2>4, <3>1 DEF all
      <4>00. \A x : x = net.base .. (net.base + size - 1) =>
                IsFiniteSet(x \ {Min(x), Max(x)}) /\ Cardinality(x \ {Min(x), Max(x)}) = size - 2
        BY <4>0, InnerBlock
      <4>1. IsFiniteSet(all \ {Min(all), Max(all)}) /\ Cardinality(all \ {Min(all), Max(all)}) = size - 2
        BY <4>0, <4>00, Zenon
      <4> QED
        BY <2>2, <2>3, <2>5, <3>1, <4>1
    <3>2. CASE ~(hb >= 2)
      <4>1. IsFiniteSet(all) /\ Cardinality(all) = size
        <5>1. net.base \in Int /\ net.base + size - 1 \in Int
          BY <2>3, <2>4
        <5>2. IsFiniteSet(all) /\ Cardinality(all) = IF net.base > net.base + size - 1 THEN 0 ELSE (net.base + size - 1) - net.base + 1
          BY <5>1, FS_Interval DEF all
        <5> QED
          BY <2>3, <2>4, <5>2
      <4> QED
        BY <2>2, <2>3, <2>5, <3>2, <4>1
    <3> QED
      BY <3>1, <3>2
  <2>8. scope.hosts \in Nat /\ scope.hosts <= MaxScanHosts
    BY <2>2, <2>3
  <2>9. \A ip \in HostsInScope(scope) : ip \in Nat /\ InScope(scope, ip)
    <3>1. net # NoNet
      BY <2>4 DEF NoNet, None
    <3>2. \A ip \in all : ip \in Nat
      BY <2>3, <2>4 DEF all
    <3> QED
      BY <1>2, <1>4, <2>2, <2>6, <3>1, <3>2 DEF InScope, NetContains, all
  <2>10. ASSUME ~scope.public, ~Outgrows(scope.net) PROVE \A ip \in HostsInScope(scope) : IsPrivateIP(ip)
    <3>1. PICK b \in BlocksOf(net.base) : ~Narrow(b) \/ ~(net.len < b.len)
      BY <1>1, <1>2, <1>4, <2>10 DEF Outgrows, IsPrivateIP
    <3> DEFINE m == Bits - b.len
    <3>2. /\ b \in PrivateBlocks /\ b.base \in Nat /\ b.len \in 0..Bits /\ m \in Nat /\ b.base % 2 ^ m = 0
          /\ b.base <= net.base /\ net.base <= b.base + 2 ^ m - 1
      <4>1. b \in PrivateBlocks /\ net.base \in b.base .. (b.base + 2 ^ m - 1)
        BY <3>1 DEF BlocksOf
      <4>2. b.base \in Nat /\ b.len \in 0..Bits /\ b.base % 2 ^ m = 0
        BY <4>1, BlocksAssumption
      <4>3. m \in Nat
        BY <2>2, <4>2
      <4>4. 2 ^ m \in Nat
        BY <4>3, TwoToThe
      <4> QED
        BY <2>4, <4>1, <4>2, <4>3, <4>4
    <3>3. Narrow(b) <=> 2 ^ m < MaxScanHosts
      BY DEF Narrow
    <3>4. net.len < b.len <=> m < hb
      BY <2>1, <2>2, <3>2 DEF hb
    <3> HIDE DEF m
    <3>5. ~(m < hb)
      <4> SUFFICES ASSUME m < hb PROVE FALSE
        OBVIOUS
      <4>1. 2 ^ m \in Nat /\ 2 ^ m < size
        BY <2>2, <3>2, BlockTooLarge DEF size
      <4>2. ~(2 ^ m < MaxScanHosts)
        BY <3>1, <3>3, <3>4
      <4> QED
        BY <1>20, <2>3, <4>1, <4>2
    <3>6. m - hb \in Nat /\ hb + (m - hb) = m
      BY <2>2, <3>2, <3>5
    <3>7. net.base + size - 1 <= b.base + 2 ^ m - 1
      BY <2>2, <2>4, <3>2, <3>6, BlockHolds DEF size
    <3>8. \A ip \in all : ip \in b.base .. (b.base + 2 ^ m - 1)
      <4>1. 2 ^ m \in Nat
        BY <3>2, TwoToThe
      <4> QED
        BY <2>3, <2>4, <3>2, <3>7, <4>1 DEF all
    <3> QED
      BY <2>6, <3>2, <3>8 DEF IsPrivateIP, BlocksOf, m
  <2> QED
    BY <2>7, <2>8, <2>9, <2>10 DEF Sound
<1>5. Sound(scope)
  BY <1>3, <1>4
<1> QED
  BY <1>1, <1>5

LEMMA Listed ==
    ASSUME NEW host \in Hosts
    PROVE  /\ Len(host) \in Nat /\ DOMAIN host = 1..Len(host)
           /\ \A i \in DOMAIN host : host[i].net \in Nets /\ host[i].ips \in Seq(Nat)
<1>1. host \in Seq(ToSet(host)) /\ \A i \in DOMAIN host : host[i].net \in Nets /\ host[i].ips \in Seq(Nat)
  BY HostsAssumption
<1>2. Len(host) \in Nat /\ DOMAIN host = 1..Len(host)
  BY <1>1
<1> QED
  BY <1>1, <1>2

LEMMA NamedInterface ==
    ASSUME NEW host \in Hosts, NEW name, FindByName(host, name) # NoInterface
    PROVE  \E i \in DOMAIN host : FindByName(host, name) = host[i]
<1> DEFINE hits == {i \in DOMAIN host : host[i].name = name}
<1>1. hits # {} /\ FindByName(host, name) = host[Min(hits)]
  BY DEF FindByName
<1>2. hits \subseteq DOMAIN host
  OBVIOUS
<1>3. DOMAIN host \subseteq Nat
  BY Listed
<1> HIDE DEF hits
<1>4. Min(hits) \in hits
  BY <1>1, <1>2, <1>3, MinIn
<1> QED
  BY <1>1, <1>2, <1>4

LEMMA ScoreBound == \A ifc, g : Score(ifc, g) \in 0..14
  BY DEF Score

LEMMA BestInterface ==
    ASSUME NEW host \in Hosts, NEW g, NEW virtual, SelectPrimary(host, g, virtual) # NoInterface
    PROVE  \E i \in DOMAIN host : SelectPrimary(host, g, virtual) = host[i]
<1> DEFINE usable == {i \in DOMAIN host : /\ host[i].up /\ ~host[i].loopback
                                          /\ host[i].virtual => virtual
                                          /\ host[i].net # NoNet}
           score(i) == Score(host[i], g)
           best == {i \in usable : \A j \in usable : score(i) >= score(j)}
           lost == {14 - score(i) : i \in usable}
<1>1. usable # {} /\ SelectPrimary(host, g, virtual) = host[Min(best)]
  BY DEF SelectPrimary
<1>2. usable \subseteq DOMAIN host
  OBVIOUS
<1>3. \A i : score(i) \in 0..14
  BY ScoreBound
<1> HIDE DEF usable, score
<1>4. lost \in SUBSET Nat /\ lost # {}
  BY <1>1, <1>3
<1>5. PICK l \in lost : \A m \in lost : l <= m
  <2> HIDE DEF lost
  <2> QED
    BY <1>4, NatMin
<1>6. best # {}
  <2>1. PICK i \in usable : l = 14 - score(i)
    BY <1>5
  <2>2. \A j \in usable : score(i) >= score(j)
    <3> SUFFICES ASSUME NEW j \in usable PROVE score(i) >= score(j)
      OBVIOUS
    <3>1. l <= 14 - score(j)
      BY <1>5
    <3> QED
      BY <1>3, <2>1, <3>1
  <2> QED
    BY <2>1, <2>2
<1>7. best \subseteq DOMAIN host
  BY <1>2
<1>8. DOMAIN host \subseteq Nat
  BY Listed
<1> HIDE DEF best
<1>9. Min(best) \in best
  BY <1>6, <1>7, <1>8, MinIn
<1> QED
  BY <1>1, <1>7, <1>9

\* The interface a scan starts from.
LEMMA Chosen ==
    ASSUME NEW host \in Hosts, NEW g, NEW name, NEW virtual, Primary(host, g, name, virtual) # NoInterface
    PROVE  Primary(host, g, name, virtual).net \in Nets /\ Primary(host, g, name, virtual).ips \in Seq(Nat)
<1> DEFINE primary == Primary(host, g, name, virtual)
<1>1. primary = FindByName(host, name) \/ primary = SelectPrimary(host, g, virtual)
  BY Zenon DEF Primary
<1>2. \A n : FindByName(host, n) # NoInterface => \E i \in DOMAIN host : FindByName(host, n) = host[i]
  BY NamedInterface, Zenon
<1>3. \E i \in DOMAIN host : primary = host[i]
  BY <1>1, <1>2, BestInterface, Zenon
<1>4. \A i \in DOMAIN host : host[i].net \in Nets /\ host[i].ips \in Seq(Nat)
  BY Listed, Zenon
<1> QED
  BY <1>3, <1>4, Zenon

LEMMA AgentAddress ==
    ASSUME NEW ifc, ifc.ips \in Seq(Nat)
    PROVE  PrimaryIPv4(ifc) \in Nat \cup {None}
<1> DEFINE private == {ip \in ToSet(ifc.ips) : IsPrivateIP(ip)}
<1>1. private \in SUBSET Nat
  BY DEF ToSet
<1>2. PrimaryIPv4(ifc) = IF private = {} THEN None ELSE Min(private)
  BY DEF PrimaryIPv4
<1> HIDE DEF private
<1>3. private # {} => Min(private) \in private
  BY <1>1, MinIn
<1> QED
  BY <1>1, <1>2, <1>3

-----------------------------------------------------------------------------
(* The sweep.                                                              *)

\* One round of each loop of the scan, so that they share the reasoning about folds; p is what does
\* not change from round to round.
Turn(loop, p, a, x) ==
    CASE loop = "device" -> AddDevice(a, x, p[1], p[2], p[3], p[4], p[5])
      [] loop = "edge" -> AddEdge(p, a, x)
      [] loop = "append" -> a \o p[x].evidence
      [] loop = "points" -> a + x[2]
      [] loop = "services" -> AddService(a, x.port, p, x.ev)
      [] loop = "pages" -> AddHTTPObservation(a, x.key, x.ev)
      [] loop = "certs" -> AddTLSObservation(a, x.key, x.ev)
      [] loop = "failures" -> AddFailedAttempt(a, x.key, x.ev)
      [] loop = "candidates" -> MergeCandidate(a, x[1], x[2], x[3])
      [] loop = "topology" -> IngestTopologyDevice(p, a, x)
      [] loop = "records" -> IngestEvidenceRecord(p, a, x)
      [] loop = "hops" -> IngestHop(p[1], p[2], a, x)
      [] loop = "gateways" -> IngestGatewayDevice(p, a, x)
      [] loop = "cpes" -> IngestCPECandidate(p, a, x)
      [] loop = "hints" -> AddEdgeHint(a, x)
      [] loop = "roots" -> UpsertRootDevice(a, x)
      [] loop = "intels" -> UpsertIntelDevice(a, x)
      [] loop = "links" -> UpsertRichEdge(a, RichEdge(x))
      [] OTHER -> a

\* h is the fold of the loop over q.
Folds(h, loop, p, base, q) ==
    h = [s \in SUBSET DOMAIN q |-> IF s = {} THEN base ELSE Turn(loop, p, h[s \ {Max(s)}], q[Max(s)])]

\* acc is the loop's variable after each round.
Turns(acc, loop, p, base, q) ==
    acc[0] = base /\ \A k \in 1..Len(q) : acc[k] = Turn(loop, p, acc[k - 1], q[k])

\* There is a fold, for any loop over any slice.
LEMMA TurnsExist ==
    ASSUME NEW loop, NEW p, NEW base, NEW q, IsSlice(q)
    PROVE  \E h : Folds(h, loop, p, base, q)
<1> DEFINE Sol(k, h) == h = [s \in SUBSET (1..k) |-> IF s = {} THEN base ELSE Turn(loop, p, h[s \ {Max(s)}], q[Max(s)])]
           G == {k \in Nat : \E h : Sol(k, h)}
<1>0. Len(q) \in Nat /\ DOMAIN q = 1..Len(q)
  BY SliceIs
<1>1. 0 \in G
  <2>1. 1..0 = {} /\ SUBSET (1..0) = {{}}
    OBVIOUS
  <2>2. Sol(0, [s \in SUBSET (1..0) |-> base])
    BY <2>1
  <2> HIDE DEF Sol
  <2> QED
    BY <2>2
<1>2. ASSUME NEW k \in 0..Len(q) - 1, k \in G PROVE k + 1 \in G
  <2>0. k \in Nat
    BY <1>0
  <2> HIDE DEF Sol
  <2>1. PICK h : Sol(k, h)
    BY <1>2
  <2> USE DEF Sol
  <2> DEFINE g == [s \in SUBSET (1..k + 1) |-> IF s \in SUBSET (1..k) THEN h[s]
                                               ELSE Turn(loop, p, h[s \ {k + 1}], q[k + 1])]
  <2>2. \A s \in SUBSET (1..k + 1) : s \notin SUBSET (1..k) => k + 1 \in s /\ s \ {k + 1} \in SUBSET (1..k)
    BY <2>0
  <2>5. ASSUME NEW s \in SUBSET (1..k + 1)
        PROVE  g[s] = IF s = {} THEN base ELSE Turn(loop, p, g[s \ {Max(s)}], q[Max(s)])
    <3>1. CASE s \in SUBSET (1..k)
      <4>1. s \ {Max(s)} \in SUBSET (1..k) /\ s \in SUBSET (1..k + 1) /\ s \ {Max(s)} \in SUBSET (1..k + 1)
        BY <3>1
      <4>2. g[s] = h[s] /\ g[s \ {Max(s)}] = h[s \ {Max(s)}]
        BY <3>1, <4>1
      <4> HIDE DEF g
      <4>3. h[s] = IF s = {} THEN base ELSE Turn(loop, p, h[s \ {Max(s)}], q[Max(s)])
        BY <2>1, <3>1
      <4> QED
        BY <4>2, <4>3
    <3>2. CASE s \notin SUBSET (1..k)
      <4>1. Max(s) = k + 1 /\ s # {}
        BY <2>0, <2>2, <3>2, MaxOfStep
      <4>2. s \ {k + 1} \in SUBSET (1..k) /\ s \ {k + 1} \in SUBSET (1..k + 1)
        BY <2>2, <3>2
      <4>3. g[s \ {k + 1}] = h[s \ {k + 1}]
        BY <4>2
      <4>4. g[s] = Turn(loop, p, h[s \ {k + 1}], q[k + 1])
        BY <3>2
      <4> QED
        BY <4>1, <4>3, <4>4
    <3> QED
      BY <3>1, <3>2
  <2>6. Sol(k + 1, g)
    <3> DEFINE W(f) == [s \in SUBSET (1..k + 1) |-> IF s = {} THEN base ELSE Turn(loop, p, f[s \ {Max(s)}], q[Max(s)])]
    <3>1. \A s \in SUBSET (1..k + 1) : g[s] = W(g)[s]
      BY <2>5
    <3>2. g = [s \in SUBSET (1..k + 1) |-> g[s]]
      OBVIOUS
    <3>3. W(g) = [s \in SUBSET (1..k + 1) |-> W(g)[s]]
      OBVIOUS
    <3> HIDE DEF W, g
    <3>4. g = W(g)
      BY <3>1, <3>2, <3>3
    <3> QED
      BY <3>4 DEF W
  <2> HIDE DEF g, Sol
  <2> QED
    BY <2>0, <2>6
<1>3. Len(q) \in G
  <2>1. G \in SUBSET Nat
    OBVIOUS
  <2> HIDE DEF G
  <2>2. \A k \in 0..Len(q) : k \in G
    BY <1>0, <1>1, <1>2, <2>1, UpTo
  <2> QED
    BY <1>0, <2>2
<1> QED
  BY <1>0, <1>3 DEF Folds

\* The fold's result is the loop's variable after the last round.
LEMMA TurnsRun ==
    ASSUME NEW loop, NEW p, NEW base, NEW q, IsSlice(q), NEW f, Folds(f, loop, p, base, q)
    PROVE  \E acc : Turns(acc, loop, p, base, q) /\ acc[Len(q)] = f[DOMAIN q]
<1> DEFINE acc == [k \in 0..Len(q) |-> f[1..k]]
<1>0. Len(q) \in Nat /\ DOMAIN q = 1..Len(q)
  BY SliceIs
<1>1. 1..0 = {} /\ {} \in SUBSET DOMAIN q
  OBVIOUS
<1>2. f[{}] = base
  BY <1>1 DEF Folds
<1>3. ASSUME NEW k \in 1..Len(q) PROVE acc[k] = Turn(loop, p, acc[k - 1], q[k])
  <2>1. k \in Nat /\ k # 0 /\ 1..k \in SUBSET DOMAIN q /\ k - 1 \in 0..Len(q) /\ k \in 0..Len(q)
    BY <1>0
  <2>2. 1..k # {} /\ Max(1..k) = k /\ (1..k) \ {Max(1..k)} = 1..k - 1
    BY <2>1, MaxOfPrefix
  <2>3. f[1..k] = Turn(loop, p, f[(1..k) \ {Max(1..k)}], q[Max(1..k)])
    BY <2>1, <2>2 DEF Folds
  <2> QED
    BY <2>1, <2>2, <2>3
<1>4. acc[0] = base /\ acc[Len(q)] = f[DOMAIN q]
  BY <1>0, <1>1, <1>2
<1> HIDE DEF acc
<1> QED
  BY <1>3, <1>4 DEF Turns

\* The devices of the addresses in q.
Described(base, q, agent, gateway, primary, res, lan) ==
    FoldLeft(LAMBDA acc, ip : AddDevice(acc, ip, agent, gateway, primary, res, lan), base, q)

LEMMA DeviceRun ==
    ASSUME NEW agent, NEW gateway, NEW primary, NEW res, NEW lan, NEW base, NEW q, IsSlice(q)
    PROVE  \E acc : /\ acc[0] = base /\ Described(base, q, agent, gateway, primary, res, lan) = acc[Len(q)]
                    /\ \A k \in 1..Len(q) : acc[k] = AddDevice(acc[k - 1], q[k], agent, gateway, primary, res, lan)
<1> DEFINE p == <<agent, gateway, primary, res, lan>>
           Sol(g) == g = [s \in SUBSET DOMAIN q |-> IF s = {} THEN base
                                                    ELSE AddDevice(g[s \ {Max(s)}], q[Max(s)], agent, gateway, primary, res, lan)]
           f == CHOOSE g : Sol(g)
<1>1. Described(base, q, agent, gateway, primary, res, lan) = f[DOMAIN q]
  BY Zenon DEF FoldLeft, MapThenFoldSet, Described
<1>11. \A x, y : Turn("device", p, x, y) = AddDevice(x, y, agent, gateway, primary, res, lan)
  BY DEF Turn
<1> HIDE DEF p
<1>2. \A g : Folds(g, "device", p, base, q) <=> Sol(g)
  BY <1>11 DEF Folds
<1> HIDE DEF Sol
<1>3. \E g : Sol(g)
  BY <1>2, TurnsExist
<1>4. Folds(f, "device", p, base, q)
  BY <1>2, <1>3, Zenon
<1> HIDE DEF f
<1>5. PICK acc : Turns(acc, "device", p, base, q) /\ acc[Len(q)] = f[DOMAIN q]
  BY <1>4, TurnsRun
<1> QED
  BY <1>1, <1>5, <1>11 DEF Turns


-----------------------------------------------------------------------------
(* Loops over sets. FoldSet takes the elements in some order.              *)

\* h is the fold of the loop over S.
SetFolds(h, loop, p, base, S) ==
    h = [s \in SUBSET S |-> IF s = {} THEN base ELSE Turn(loop, p, h[s \ {CHOOSE x \in s : TRUE}], CHOOSE x \in s : TRUE)]

LEMMA SetTurnsExist ==
    ASSUME NEW loop, NEW p, NEW base, NEW S, IsFiniteSet(S)
    PROVE  \E h : SetFolds(h, loop, p, base, S)
<1> DEFINE c(s) == CHOOSE x \in s : TRUE
           Small(k) == {s \in SUBSET S : Cardinality(s) <= k}
           Sol(k, h) == h = [s \in Small(k) |-> IF s = {} THEN base ELSE Turn(loop, p, h[s \ {c(s)}], c(s))]
           G == {k \in Nat : \E h : Sol(k, h)}
<1>0. /\ Cardinality(S) \in Nat
      /\ \A s \in SUBSET S : IsFiniteSet(s) /\ Cardinality(s) \in Nat /\ Cardinality(s) <= Cardinality(S)
  BY FS_Subset, FS_CardinalityType
<1>01. \A s \in SUBSET S : s # {} => c(s) \in s
  OBVIOUS
<1>02. \A s \in SUBSET S : s # {} => s \ {c(s)} \in SUBSET S /\ Cardinality(s \ {c(s)}) = Cardinality(s) - 1
  <2> HIDE DEF c
  <2> QED
    BY <1>0, <1>01, FS_RemoveElement
<1>03. \A s \in SUBSET S : Cardinality(s) = 0 <=> s = {}
  BY <1>0, FS_EmptySet
<1> HIDE DEF c
<1>1. 0 \in G
  <2>1. Small(0) = {{}}
    BY <1>0, <1>03
  <2>2. Sol(0, [s \in Small(0) |-> base])
    BY <2>1
  <2> HIDE DEF Sol
  <2> QED
    BY <2>2
<1>2. ASSUME NEW k \in 0..Cardinality(S) - 1, k \in G PROVE k + 1 \in G
  <2>0. k \in Nat /\ k + 1 \in Nat
    BY <1>0
  <2> HIDE DEF Sol, Small
  <2>1. PICK h : Sol(k, h)
    BY <1>2
  <2> DEFINE g == [s \in Small(k + 1) |-> IF s \in Small(k) THEN h[s] ELSE Turn(loop, p, h[s \ {c(s)}], c(s))]
             W(f) == [s \in Small(k + 1) |-> IF s = {} THEN base ELSE Turn(loop, p, f[s \ {c(s)}], c(s))]
  <2>2. \A s \in Small(k + 1) : s # {} => s \ {c(s)} \in Small(k)
    BY <1>0, <1>02, <2>0 DEF Small
  <2>3. Small(k) \subseteq Small(k + 1) /\ {} \in Small(k)
    BY <1>0, <1>03, <2>0 DEF Small
  <2>4. ASSUME NEW s \in Small(k + 1)
        PROVE  g[s] = IF s = {} THEN base ELSE Turn(loop, p, g[s \ {c(s)}], c(s))
    <3>1. CASE s \in Small(k)
      <4>1. g[s] = h[s]
        BY <3>1
      <4>2. s # {} => s \ {c(s)} \in Small(k) /\ s \ {c(s)} \in Small(k + 1)
        BY <2>2, <2>3
      <4>3. s # {} => g[s \ {c(s)}] = h[s \ {c(s)}]
        BY <4>2
      <4>4. h[s] = IF s = {} THEN base ELSE Turn(loop, p, h[s \ {c(s)}], c(s))
        BY <2>1, <3>1 DEF Sol
      <4> HIDE DEF g
      <4> QED
        BY <4>1, <4>3, <4>4
    <3>2. CASE s \notin Small(k)
      <4>1. s # {} /\ s \ {c(s)} \in Small(k) /\ s \ {c(s)} \in Small(k + 1)
        BY <2>2, <2>3, <3>2
      <4>2. g[s \ {c(s)}] = h[s \ {c(s)}]
        BY <4>1
      <4>3. g[s] = Turn(loop, p, h[s \ {c(s)}], c(s))
        BY <3>2
      <4> HIDE DEF g
      <4> QED
        BY <4>1, <4>2, <4>3
    <3> QED
      BY <3>1, <3>2
  <2>5. g = W(g)
    <3>1. \A s \in Small(k + 1) : g[s] = W(g)[s]
      BY <2>4
    <3>2. g = [s \in Small(k + 1) |-> g[s]] /\ W(g) = [s \in Small(k + 1) |-> W(g)[s]]
      OBVIOUS
    <3> HIDE DEF W, g
    <3> QED
      BY <3>1, <3>2
  <2>6. Sol(k + 1, g)
    <3> HIDE DEF g
    <3> QED
      BY <2>5 DEF Sol
  <2> HIDE DEF g
  <2> QED
    BY <2>0, <2>6
<1>3. Cardinality(S) \in G
  <2>1. G \in SUBSET Nat
    OBVIOUS
  <2> HIDE DEF G
  <2>2. \A k \in 0..Cardinality(S) : k \in G
    BY <1>0, <1>1, <1>2, <2>1, UpTo
  <2> QED
    BY <1>0, <2>2
<1>4. Small(Cardinality(S)) = SUBSET S
  BY <1>0
<1> HIDE DEF Small
<1>5. PICK h : Sol(Cardinality(S), h)
  BY <1>3
<1>6. SetFolds(h, loop, p, base, S)
  BY <1>4, <1>5 DEF SetFolds, c
<1> QED
  BY <1>6

\* The fold is a loop over the elements of S, each once.
LEMMA SetTurnsRun ==
    ASSUME NEW loop, NEW p, NEW base, NEW S, IsFiniteSet(S), NEW f, SetFolds(f, loop, p, base, S)
    PROVE  \E q, acc : IsSlice(q) /\ Distinct(q) /\ ToSet(q) = S /\ Turns(acc, loop, p, base, q) /\ acc[Len(q)] = f[S]
<1> DEFINE c(s) == CHOOSE x \in s : TRUE
           Laid(s) == \E q, acc : IsSlice(q) /\ Distinct(q) /\ ToSet(q) = s /\ Turns(acc, loop, p, base, q) /\ acc[Len(q)] = f[s]
           G == {k \in Nat : \A s \in SUBSET S : Cardinality(s) = k => Laid(s)}
<1>0. /\ Cardinality(S) \in Nat /\ S \in SUBSET S
      /\ \A s \in SUBSET S : IsFiniteSet(s) /\ Cardinality(s) \in Nat
  BY FS_Subset, FS_CardinalityType
<1>1. 0 \in G
  <2> SUFFICES ASSUME NEW s \in SUBSET S, Cardinality(s) = 0 PROVE Laid(s)
    OBVIOUS
  <2>1. s = {}
    BY <1>0, FS_EmptySet
  <2>2. f[s] = base
    BY <2>1 DEF SetFolds
  <2> DEFINE acc == [i \in 0..0 |-> base]
             q == <<>>
  <2>3. IsSlice(q) /\ Distinct(q) /\ ToSet(q) = s /\ Turns(acc, loop, p, base, q) /\ acc[Len(q)] = f[s]
    BY <2>1, <2>2 DEF IsSlice, Distinct, ToSet, Turns
  <2> HIDE DEF acc, q
  <2> QED
    BY <2>3
<1>2. ASSUME NEW k \in 0..Cardinality(S) - 1, k \in G PROVE k + 1 \in G
  <2> HIDE DEF Laid
  <2>00. k \in Nat /\ k + 1 \in Nat
    BY <1>0
  <2> SUFFICES ASSUME NEW s \in SUBSET S, Cardinality(s) = k + 1 PROVE Laid(s)
    BY <2>00
  <2>1. s # {}
    BY <1>0, <2>00, FS_EmptySet
  <2> DEFINE x == c(s)
             t == s \ {x}
  <2>2. x \in s
    BY <2>1
  <2> HIDE DEF c, x
  <2>3. t \in SUBSET S /\ Cardinality(t) = k
    <3>1. IsFiniteSet(s)
      BY <1>0
    <3>2. Cardinality(s \ {x}) = Cardinality(s) - 1
      BY <2>2, <3>1, FS_RemoveElement
    <3> QED
      BY <2>00, <3>2
  <2>4. Laid(t)
    BY <1>2, <2>3
  <2>5. f[s] = Turn(loop, p, f[t], x)
    BY <2>1 DEF SetFolds, x, c
  <2> HIDE DEF t
  <2>6. PICK q, a : IsSlice(q) /\ Distinct(q) /\ ToSet(q) = t /\ Turns(a, loop, p, base, q) /\ a[Len(q)] = f[t]
    BY <2>4 DEF Laid
  <2> DEFINE r == Append(q, x)
             b == [i \in 0..Len(q) + 1 |-> IF i <= Len(q) THEN a[i] ELSE Turn(loop, p, a[Len(q)], x)]
  <2>7. Len(q) \in Nat /\ DOMAIN q = 1..Len(q)
    BY <2>6, SliceIs
  <2>8. x \notin ToSet(q) /\ ToSet(q) \cup {x} = s
    BY <2>2, <2>6 DEF t
  <2>9. IsSlice(r) /\ Distinct(r) /\ ToSet(r) = s
    <3>1. IsSlice(Append(q, x)) /\ ToSet(Append(q, x)) = ToSet(q) \cup {x} /\ Distinct(Append(q, x))
      BY <2>6, <2>8, AppendIn
    <3> QED
      BY <2>8, <3>1
  <2>10. Len(r) = Len(q) + 1 /\ r[Len(q) + 1] = x /\ \A i \in 1..Len(q) : r[i] = q[i]
    <3>1. q \in Seq(ToSet(q))
      BY <2>6 DEF IsSlice
    <3>2. q \in Seq(s) /\ x \in s
      BY <2>2, <2>8, <3>1
    <3> QED
      BY <2>7, <3>2
  <2> HIDE DEF r
  <2>11. \A i \in 1..Len(q) : b[i] = a[i] /\ b[i - 1] = a[i - 1]
    BY <2>7
  <2>12. b[0] = a[0] /\ b[Len(q)] = a[Len(q)] /\ b[Len(q) + 1] = Turn(loop, p, a[Len(q)], x)
    BY <2>7
  <2> HIDE DEF b
  <2>13. Turns(b, loop, p, base, r)
    <3>1. ASSUME NEW i \in 1..Len(q) + 1 PROVE b[i] = Turn(loop, p, b[i - 1], r[i])
      <4>1. CASE i \in 1..Len(q)
        BY <2>6, <2>10, <2>11, <4>1 DEF Turns
      <4>2. CASE i = Len(q) + 1
        <5>1. i - 1 = Len(q)
          BY <2>7, <4>2
        <5> QED
          BY <2>10, <2>12, <4>2, <5>1
      <4> QED
        BY <2>7, <4>1, <4>2
    <3> QED
      BY <2>6, <2>10, <2>12, <3>1 DEF Turns
  <2>14. b[Len(r)] = f[s]
    BY <2>5, <2>6, <2>10, <2>12
  <2> QED
    BY <2>9, <2>13, <2>14 DEF Laid
<1>3. Cardinality(S) \in G
  <2>1. G \in SUBSET Nat
    OBVIOUS
  <2> HIDE DEF G
  <2>2. \A k \in 0..Cardinality(S) : k \in G
    BY <1>0, <1>1, <1>2, <2>1, UpTo
  <2> QED
    BY <1>0, <2>2
<1>4. Laid(S)
  <2> HIDE DEF Laid
  <2> QED
    BY <1>0, <1>3
<1> QED
  BY <1>4

-----------------------------------------------------------------------------
(* What the sweep leaves on record.                                        *)

Ids(evidence) == {e.id : e \in ToSet(evidence)}

\* The scan's records carry their number.
Numbered(evidence) == IsSlice(evidence) /\ \A i \in DOMAIN evidence : evidence[i].id = EvNo(i)

HasId(e) == "id" \in DOMAIN e

LEMMA EvNoOne == \A m, n : EvNo(m) = EvNo(n) => m = n
<1>1. \A blank, m, n : <<"ev", blank, None, m>> = <<"ev", blank, None, n>> => m = n
  OBVIOUS
<1>2. \A m : EvNo(m) = <<"ev", "", None, m>>
  BY Zenon DEF EvNo
<1> QED
  BY <1>1, <1>2, Zenon

LEMMA SliceJoin ==
    ASSUME NEW p, IsSlice(p), NEW q, IsSlice(q)
    PROVE  /\ IsSlice(p \o q) /\ ToSet(p \o q) = ToSet(p) \cup ToSet(q) /\ Len(p \o q) = Len(p) + Len(q)
           /\ DOMAIN (p \o q) = 1..Len(p) + Len(q)
           /\ \A i \in 1..Len(p) + Len(q) : (p \o q)[i] = IF i <= Len(p) THEN p[i] ELSE q[i - Len(p)]
<1> DEFINE A == ToSet(p) \cup ToSet(q)
<1>1. p \in Seq(A) /\ q \in Seq(A)
  BY DEF IsSlice
<1> HIDE DEF A
<1>2. p \o q \in Seq(A) /\ ToSet(p \o q) = ToSet(p) \cup ToSet(q)
  BY <1>1, Joined
<1>3. IsSlice(p \o q)
  BY <1>2, SliceOf
<1>4. /\ Len(p \o q) = Len(p) + Len(q) /\ DOMAIN (p \o q) = 1..Len(p) + Len(q)
      /\ \A i \in 1..Len(p) + Len(q) : (p \o q)[i] = IF i <= Len(p) THEN p[i] ELSE q[i - Len(p)]
  BY <1>1
<1> QED
  BY <1>2, <1>3, <1>4

LEMMA MintedNumbered ==
    ASSUME NEW store, Numbered(store), NEW facts, IsSlice(facts), \A i \in DOMAIN facts : HasId(facts[i])
    PROVE  /\ IsSlice(Minted(store, facts)) /\ Numbered(store \o Minted(store, facts))
           /\ Ids(store \o Minted(store, facts)) = Ids(store) \cup Ids(Minted(store, facts))
<1> DEFINE ev == Minted(store, facts)
           all == store \o ev
<1>0. /\ Len(store) \in Nat /\ DOMAIN store = 1..Len(store) /\ Len(facts) \in Nat /\ DOMAIN facts = 1..Len(facts)
      /\ IsSlice(store)
  BY SliceIs DEF Numbered
<1>1. ev = [i \in 1..Len(facts) |-> [facts[i] EXCEPT !.id = EvNo(Len(store) + i)]]
  BY <1>0 DEF Minted
<1> HIDE DEF ev
<1>2. ASSUME NEW i \in 1..Len(facts) PROVE ev[i].id = EvNo(Len(store) + i)
  <2> DEFINE x == facts[i]
             y == EvNo(Len(store) + i)
  <2>1. "id" \in DOMAIN x
    BY <1>0 DEF HasId
  <2>2. ev[i] = [x EXCEPT !.id = y]
    BY <1>1
  <2> HIDE DEF x, y
  <2>3. [x EXCEPT !.id = y].id = y
    BY <2>1
  <2> QED
    BY <2>2, <2>3 DEF y
<1>3. IsSlice(ev) /\ Len(ev) = Len(facts)
  <2>1. ev \in Seq({ev[i] : i \in 1..Len(facts)}) /\ Len(ev) = Len(facts)
    BY <1>0, <1>1
  <2> QED
    BY <2>1, SliceOf
<1>4. /\ IsSlice(all) /\ ToSet(all) = ToSet(store) \cup ToSet(ev) /\ DOMAIN all = 1..Len(store) + Len(ev)
      /\ \A i \in 1..Len(store) + Len(ev) : all[i] = IF i <= Len(store) THEN store[i] ELSE ev[i - Len(store)]
  BY <1>0, <1>3, SliceJoin
<1> HIDE DEF all
<1>5. ASSUME NEW i \in DOMAIN all PROVE all[i].id = EvNo(i)
  <2>1. CASE i <= Len(store)
    <3>1. i \in DOMAIN store /\ all[i] = store[i]
      BY <1>0, <1>3, <1>4, <2>1
    <3> QED
      BY <3>1 DEF Numbered
  <2>2. CASE ~(i <= Len(store))
    <3>1. i - Len(store) \in 1..Len(facts) /\ all[i] = ev[i - Len(store)] /\ Len(store) + (i - Len(store)) = i
      BY <1>0, <1>3, <1>4, <2>2
    <3> QED
      BY <1>2, <3>1
  <2> QED
    BY <2>1, <2>2
<1>6. Ids(all) = Ids(store) \cup Ids(ev)
  BY <1>4 DEF Ids
<1>7. Numbered(all)
  BY <1>4, <1>5 DEF Numbered
<1> QED
  BY <1>3, <1>6, <1>7 DEF all, ev

LEMMA OneOrNone ==
    ASSUME NEW on, NEW fact, HasId(fact)
    PROVE  LET known == IF on THEN <<fact>> ELSE <<>> IN IsSlice(known) /\ \A e \in ToSet(known) : HasId(e)
<1>1. IsSlice(<<fact>>) /\ ToSet(<<fact>>) = {fact}
  BY DEF IsSlice, ToSet
<1>2. IsSlice(<<>>) /\ ToSet(<<>>) = {}
  BY DEF IsSlice, ToSet
<1> QED
  BY <1>1, <1>2

LEMMA FactHasId ==
    ASSUME NEW kind, NEW ip
    PROVE  /\ HasId(Fact(kind, ip))
           /\ \A v : HasId([Fact(kind, ip) EXCEPT !.ports = v]) /\ HasId([Fact(kind, ip) EXCEPT !.mac = v]) /\ HasId([Fact(kind, ip) EXCEPT !.host = v])
<1> DEFINE f == Fact(kind, ip)
<1>1. "id" \in DOMAIN f
  <2>1. \A a, b, c : "id" \in DOMAIN [id |-> a, kind |-> kind, ip |-> ip, mac |-> b, host |-> b, ports |-> {}, port |-> 0, failed |-> FALSE]
    OBVIOUS
  <2>2. f = [id |-> EvNo(0), kind |-> kind, ip |-> ip, mac |-> "", host |-> "", ports |-> {}, port |-> 0, failed |-> FALSE]
    BY Zenon DEF Fact
  <2> QED
    BY <2>1, <2>2, Zenon
<1> HIDE DEF f
<1>2. \A v : "id" \in DOMAIN [f EXCEPT !.ports = v] /\ "id" \in DOMAIN [f EXCEPT !.mac = v] /\ "id" \in DOMAIN [f EXCEPT !.host = v]
  BY <1>1
<1> QED
  BY <1>1, <1>2, Zenon DEF f, HasId

LEMMA FactsListed ==
    ASSUME NEW ip, NEW ports, NEW mac, NEW dns, NEW scanned
    PROVE  LET facts == DeviceFacts(ip, ports, mac, dns, scanned) IN IsSlice(facts) /\ \A i \in DOMAIN facts : HasId(facts[i])
<1> DEFINE Known(on, fact) == IF on THEN <<fact>> ELSE <<>>
           a == Known(ports # {}, [Fact("tcp_connect", ip) EXCEPT !.ports = ports])
           b == Known(mac # "", [Fact("arp_table", ip) EXCEPT !.mac = mac])
           c == Known(dns # "", [Fact("reverse_dns", ip) EXCEPT !.host = dns])
           d == Known(scanned, Fact("nmap", ip))
           Fine(s) == IsSlice(s) /\ \A e \in ToSet(s) : HasId(e)
<1>1. DeviceFacts(ip, ports, mac, dns, scanned) = ((a \o b) \o c) \o d
  BY Zenon DEF DeviceFacts
<1>2. \A on, fact : HasId(fact) => Fine(Known(on, fact))
  BY OneOrNone
<1> HIDE DEF Known, Fine
<1>3. Fine(a) /\ Fine(b) /\ Fine(c) /\ Fine(d)
  BY <1>2, FactHasId, Zenon
<1> HIDE DEF a, b, c, d
<1>4. \A s, t : Fine(s) /\ Fine(t) => Fine(s \o t)
  BY SliceJoin DEF Fine
<1>5. Fine(((a \o b) \o c) \o d)
  BY <1>3, <1>4, Zenon
<1>6. \A s : Fine(s) => IsSlice(s) /\ \A i \in DOMAIN s : HasId(s[i])
  BY DEF Fine, ToSet
<1> QED
  BY <1>1, <1>5, <1>6, Zenon

\* A record about ip; the route record is about the gateway.
RecordOf(e, ip, gateway) == e.ip = ip /\ IsFiniteSet(e.ports) /\ (e.kind = "gateway_route" => ip = gateway)

LEMMA FactIs ==
    ASSUME NEW kind, NEW ip, NEW f, f = Fact(kind, ip)
    PROVE  {"id", "kind", "ip", "mac", "host", "ports", "port"} \subseteq DOMAIN f /\ f.kind = kind /\ f.ip = ip /\ IsFiniteSet(f.ports)
<1> DEFINE none == {}
           id == EvNo(0)
<1>1. f = [id |-> id, kind |-> kind, ip |-> ip, mac |-> "", host |-> "", ports |-> none, port |-> 0, failed |-> FALSE]
  BY Zenon DEF Fact
<1>2. IsFiniteSet(none)
  BY FS_EmptySet
<1> HIDE DEF none, id
<1>3. \E blank : f = [id |-> id, kind |-> kind, ip |-> ip, mac |-> blank, host |-> blank, ports |-> none, port |-> 0, failed |-> FALSE]
  BY <1>1, Zenon
<1> QED
  BY <1>2, <1>3

LEMMA FactsAbout ==
    ASSUME NEW ip, NEW ports, IsFiniteSet(ports), NEW mac, NEW dns, NEW scanned, NEW gateway
    PROVE  LET facts == DeviceFacts(ip, ports, mac, dns, scanned) IN \A i \in DOMAIN facts : RecordOf(facts[i], ip, gateway)
<1> DEFINE Known(on, fact) == IF on THEN <<fact>> ELSE <<>>
           a == Known(ports # {}, [Fact("tcp_connect", ip) EXCEPT !.ports = ports])
           b == Known(mac # "", [Fact("arp_table", ip) EXCEPT !.mac = mac])
           c == Known(dns # "", [Fact("reverse_dns", ip) EXCEPT !.host = dns])
           d == Known(scanned, Fact("nmap", ip))
           Fine(s) == IsSlice(s) /\ \A e \in ToSet(s) : RecordOf(e, ip, gateway)
<1>1. DeviceFacts(ip, ports, mac, dns, scanned) = ((a \o b) \o c) \o d
  BY Zenon DEF DeviceFacts
<1>2. ASSUME NEW on, NEW fact, RecordOf(fact, ip, gateway) PROVE Fine(Known(on, fact))
  <2>1. IsSlice(<<fact>>) /\ ToSet(<<fact>>) = {fact}
    BY DEF IsSlice, ToSet
  <2>2. IsSlice(<<>>) /\ ToSet(<<>>) = {}
    BY DEF IsSlice, ToSet
  <2> QED
    BY <1>2, <2>1, <2>2
<1>3. ASSUME NEW kind \in {"tcp_connect", "arp_table", "reverse_dns", "nmap"}, NEW v, NEW f, f = Fact(kind, ip)
      PROVE  /\ RecordOf(f, ip, gateway) /\ RecordOf([f EXCEPT !.mac = v], ip, gateway) /\ RecordOf([f EXCEPT !.host = v], ip, gateway)
             /\ RecordOf([f EXCEPT !.ports = ports], ip, gateway)
  <2>1. {"id", "kind", "ip", "mac", "host", "ports", "port"} \subseteq DOMAIN f /\ f.kind = kind /\ f.ip = ip /\ IsFiniteSet(f.ports)
    BY <1>3, FactIs
  <2> QED
    BY <2>1 DEF RecordOf
<1>4. /\ RecordOf([Fact("tcp_connect", ip) EXCEPT !.ports = ports], ip, gateway)
      /\ RecordOf([Fact("arp_table", ip) EXCEPT !.mac = mac], ip, gateway)
      /\ RecordOf([Fact("reverse_dns", ip) EXCEPT !.host = dns], ip, gateway)
      /\ RecordOf(Fact("nmap", ip), ip, gateway)
  <2>1. \A f, v : f = Fact("arp_table", ip) => RecordOf([f EXCEPT !.mac = v], ip, gateway)
    BY <1>3
  <2>2. \A f, v : f = Fact("reverse_dns", ip) => RecordOf([f EXCEPT !.host = v], ip, gateway)
    BY <1>3
  <2>3. \A f : f = Fact("tcp_connect", ip) => RecordOf([f EXCEPT !.ports = ports], ip, gateway)
    BY <1>3
  <2>4. \A f : f = Fact("nmap", ip) => RecordOf(f, ip, gateway)
    BY <1>3
  <2> QED
    BY <2>1, <2>2, <2>3, <2>4, Zenon
<1> HIDE DEF Known, Fine
<1>5. Fine(a) /\ Fine(b) /\ Fine(c) /\ Fine(d)
  BY <1>2, <1>4, Zenon
<1> HIDE DEF a, b, c, d
<1>6. \A s, t : Fine(s) /\ Fine(t) => Fine(s \o t)
  BY SliceJoin DEF Fine
<1>7. Fine(((a \o b) \o c) \o d)
  BY <1>5, <1>6, Zenon
<1>8. \A s : Fine(s) => \A i \in DOMAIN s : RecordOf(s[i], ip, gateway)
  BY DEF Fine, ToSet
<1> QED
  BY <1>1, <1>7, <1>8, Zenon

\* Minting changes nothing but the number.
LEMMA MintedAbout ==
    ASSUME NEW store, NEW facts, \A i \in DOMAIN facts : HasId(facts[i])
    PROVE  /\ DOMAIN Minted(store, facts) = DOMAIN facts
           /\ \A i \in DOMAIN facts : /\ Minted(store, facts)[i].ip = facts[i].ip /\ Minted(store, facts)[i].kind = facts[i].kind
                                       /\ Minted(store, facts)[i].ports = facts[i].ports
<1> DEFINE ev == Minted(store, facts)
<1>1. ev = [i \in DOMAIN facts |-> [facts[i] EXCEPT !.id = EvNo(Len(store) + i)]]
  BY DEF Minted
<1> HIDE DEF ev
<1>2. ASSUME NEW i \in DOMAIN facts PROVE ev[i].ip = facts[i].ip /\ ev[i].kind = facts[i].kind /\ ev[i].ports = facts[i].ports
  <2> DEFINE x == facts[i]
             y == EvNo(Len(store) + i)
  <2>1. ev[i] = [x EXCEPT !.id = y]
    BY <1>1
  <2> HIDE DEF x, y
  <2>2. ev[i].ip = x.ip /\ ev[i].kind = x.kind /\ ev[i].ports = x.ports
    BY <2>1
  <2> QED
    BY <2>2 DEF x
<1>3. DOMAIN ev = DOMAIN facts
  BY <1>1
<1> QED
  BY <1>2, <1>3 DEF ev

LEMMA ImageFinite ==
    ASSUME NEW S, IsFiniteSet(S), NEW f
    PROVE  IsFiniteSet({f[x] : x \in S})
<1> DEFINE g == [x \in S |-> f[x]]
<1>1. g \in Surjection(S, {f[x] : x \in S})
  BY DEF Surjection
<1> HIDE DEF g
<1> QED
  BY <1>1, FS_Surjection

\* No two records have one id.
DistinctIds(s) == \A i, j \in DOMAIN s : s[i].id = s[j].id => i = j

\* The records of a scan: numbered in their order, those of the route about the gateway.
LogBook(store, gateway) == Numbered(store) /\ \A e \in ToSet(store) : e.ip \in Nat \cup {None} /\ RecordOf(e, e.ip, gateway)

\* t has every record of s, and no other record with the id of one.
Adds(s, t) == Ids(s) \subseteq Ids(t) /\ \A e \in ToSet(t) : e.id \in Ids(s) => e \in ToSet(s)

LEMMA NumberedDistinct == \A s : Numbered(s) => DistinctIds(s)
  BY EvNoOne DEF Numbered, DistinctIds

LEMMA OneRecord ==
    ASSUME NEW s, DistinctIds(s), NEW d \in ToSet(s), NEW e \in ToSet(s), d.id = e.id
    PROVE  d = e
  BY DEF ToSet, DistinctIds

LEMMA JoinAdds ==
    ASSUME NEW p, IsSlice(p), NEW q, IsSlice(q), DistinctIds(p \o q)
    PROVE  Adds(p, p \o q) /\ Adds(q, p \o q)
<1> DEFINE all == p \o q
<1>1. ToSet(all) = ToSet(p) \cup ToSet(q)
  BY SliceJoin
<1> HIDE DEF all
<1>2. \A d, e \in ToSet(all) : d.id = e.id => d = e
  BY OneRecord DEF all
<1>3. Adds(p, all) /\ Adds(q, all)
  BY <1>1, <1>2 DEF Adds, Ids
<1> QED
  BY <1>3 DEF all

LEMMA AddsOn == \A r, s, t : Adds(r, s) /\ Adds(s, t) => Adds(r, t)
  BY DEF Adds, Ids

\* All a device of the report cites.
Cited(d) == d.ev \cup UNION {s.ev : s \in d.services}

DeviceParts == {"ip", "conf", "ev", "services", "agent", "gateway", "roles", "mac", "host"}

\* A device of the report: what it cites is on record, and about its own address.
SoundDevice(d, evidence) ==
    /\ DeviceParts \subseteq DOMAIN d /\ d.conf \in 0..100 /\ IsFiniteSet(d.services)
    /\ Cited(d) \subseteq Ids(evidence)
    /\ \A e \in ToSet(evidence) : e.id \in Cited(d) => e.ip = d.ip

LEMMA StaysSound ==
    ASSUME NEW d, NEW s, NEW t, SoundDevice(d, s), Adds(s, t)
    PROVE  SoundDevice(d, t)
  BY DEF SoundDevice, Adds

\* The ports a sweep saw open are finitely many.
FinitePorts(res, lan) == (\A ip \in res.tcp : IsFiniteSet(lan.tcp[ip])) /\ \A ip \in res.nmap : IsFiniteSet(lan.nmap[ip].ports)

LEMMA ConfidenceBound == \A isAgent, isGateway, alive, mac, host : DeviceConfidence(isAgent, isGateway, alive, mac, host) \in 0..100
<1> TAKE isAgent, isGateway, alive, mac, host
<1> DEFINE base == IF isAgent THEN 95 ELSE IF isGateway THEN 90 ELSE IF alive THEN 70 ELSE 50
           named == IF mac # "" THEN 5 ELSE 0
           known == IF host # "" THEN 5 ELSE 0
           sum == base + named + known
<1>1. DeviceConfidence(isAgent, isGateway, alive, mac, host) = IF sum > 100 THEN 100 ELSE sum
  BY Zenon DEF DeviceConfidence
<1>2. base \in 0..100
  OBVIOUS
<1>3. \A on : (IF on THEN 5 ELSE 0) \in 0..5
  OBVIOUS
<1>4. named \in 0..5 /\ known \in 0..5
  BY <1>3, Zenon
<1> HIDE DEF base, named, known
<1> QED
  BY <1>1, <1>2, <1>4

LEMMA DeviceStep ==
    ASSUME NEW store, NEW gateway, LogBook(store, gateway), NEW ip \in Nat, NEW agent, NEW primary,
           NEW res, NEW lan, FinitePorts(res, lan)
    PROVE  LET d == DeviceOf(store, ip, agent, gateway, primary, res, lan)
           IN  /\ LogBook(d.store, gateway) /\ Adds(store, d.store)
               /\ d.device.ip = ip /\ SoundDevice(d.device, d.store)
<1> DEFINE isAgent == ip = agent
           isGateway == ip = gateway
           ports == IF ip \in res.tcp THEN lan.tcp[ip] ELSE {}
           mac == MacOf(res, lan, primary, agent, ip)
           dns == At(lan.dns, ip, "")
           scanned == ip \in res.nmap
           alive == ports # {} \/ isAgent \/ isGateway \/ scanned
           ev == Minted(store, DeviceFacts(ip, ports, mac, dns, scanned))
           fromScan == IF scanned THEN lan.nmap[ip].ports \ ports ELSE {}
           host == IF dns = "" /\ scanned THEN lan.nmap[ip].host ELSE dns
           tcpIds == IdsOf(ev, {"tcp_connect"})
           nmapIds == IdsOf(ev, {"nmap"})
           services == {[port |-> p, ev |-> tcpIds] : p \in ports} \cup {[port |-> p, ev |-> nmapIds] : p \in fromScan}
           cited == {e.id : e \in ToSet(ev)} \cup (IF isGateway THEN GatewayEvidence(store) ELSE {})
           conf == DeviceConfidence(isAgent, isGateway, alive, mac, dns)
           sources == SourcesOf(res, agent, gateway, ip)
           reach == Reachability(isAgent, isGateway, ports # {}, scanned, mac)
           device == [ip |-> ip, agent |-> isAgent, gateway |-> isGateway, roles |-> {}, mac |-> mac, host |-> host,
                      services |-> services, ev |-> cited, conf |-> conf, sources |-> sources, reach |-> reach]
           d == DeviceOf(store, ip, agent, gateway, primary, res, lan)
<1>1. d = [store |-> store \o ev, device |-> device]
  BY Zenon DEF DeviceOf
<1>0. Numbered(store)
  BY DEF LogBook
<1>00. IsFiniteSet(ports) /\ IsFiniteSet(fromScan)
  BY FS_EmptySet, FS_Subset DEF FinitePorts
<1>2. /\ IsSlice(ev) /\ Numbered(store \o ev) /\ Ids(store \o ev) = Ids(store) \cup Ids(ev)
      /\ \A e \in ToSet(ev) : RecordOf(e, ip, gateway)
  <2>1. \A m, h : LET facts == DeviceFacts(ip, ports, m, h, scanned) IN IsSlice(facts) /\ \A i \in DOMAIN facts : HasId(facts[i])
    BY FactsListed
  <2>2. \A m, h : LET facts == DeviceFacts(ip, ports, m, h, scanned) IN \A i \in DOMAIN facts : RecordOf(facts[i], ip, gateway)
    BY <1>00, FactsAbout
  <2> DEFINE facts == DeviceFacts(ip, ports, mac, dns, scanned)
  <2>3. IsSlice(facts) /\ \A i \in DOMAIN facts : HasId(facts[i])
    BY <2>1, Zenon
  <2>4. \A i \in DOMAIN facts : RecordOf(facts[i], ip, gateway)
    BY <2>2, Zenon
  <2> HIDE DEF facts
  <2> DEFINE new == Minted(store, facts)
  <2>5. IsSlice(new) /\ Numbered(store \o new) /\ Ids(store \o new) = Ids(store) \cup Ids(new)
    BY <1>0, <2>3, MintedNumbered
  <2>6. /\ DOMAIN new = DOMAIN facts
        /\ \A i \in DOMAIN facts : new[i].ip = facts[i].ip /\ new[i].kind = facts[i].kind /\ new[i].ports = facts[i].ports
    BY <2>3, MintedAbout
  <2> HIDE DEF new
  <2>7. \A e \in ToSet(new) : RecordOf(e, ip, gateway)
    BY <2>4, <2>6 DEF RecordOf, ToSet
  <2> QED
    BY <2>5, <2>7, Zenon DEF facts, new
<1>3. conf \in 0..100
  BY ConfidenceBound, Zenon
<1> HIDE DEF mac, dns, host, ev, conf, sources, reach, ports, scanned, fromScan, d, services, cited, tcpIds, nmapIds
<1> DEFINE all == store \o ev
<1>4. Numbered(all) /\ ToSet(all) = ToSet(store) \cup ToSet(ev) /\ Adds(store, all) /\ Adds(ev, all)
  BY <1>0, <1>2, SliceJoin, JoinAdds, NumberedDistinct DEF Numbered
<1> HIDE DEF all
<1>5. LogBook(all, gateway)
  BY <1>2, <1>4 DEF LogBook, RecordOf
<1>6. IsFiniteSet(services)
  <2>1. IsFiniteSet({[port |-> p, ev |-> tcpIds] : p \in ports})
    <3> DEFINE f == [p \in ports |-> [port |-> p, ev |-> tcpIds]]
    <3>1. {[port |-> p, ev |-> tcpIds] : p \in ports} = {f[p] : p \in ports}
      OBVIOUS
    <3> HIDE DEF f
    <3> QED
      BY <1>00, <3>1, ImageFinite
  <2>2. IsFiniteSet({[port |-> p, ev |-> nmapIds] : p \in fromScan})
    <3> DEFINE f == [p \in fromScan |-> [port |-> p, ev |-> nmapIds]]
    <3>1. {[port |-> p, ev |-> nmapIds] : p \in fromScan} = {f[p] : p \in fromScan}
      OBVIOUS
    <3> HIDE DEF f
    <3> QED
      BY <1>00, <3>1, ImageFinite
  <2> QED
    BY <2>1, <2>2, FS_Union DEF services
<1>7. /\ d.store = all /\ DeviceParts \subseteq DOMAIN d.device /\ d.device.ip = ip /\ d.device.conf = conf
      /\ d.device.ev = cited /\ d.device.services = services
  <2>1. DeviceParts \subseteq DOMAIN device
    BY DEF DeviceParts
  <2> QED
    BY <1>1, <2>1 DEF all
<1>8. UNION {s.ev : s \in services} \subseteq Ids(ev)
  BY DEF services, tcpIds, nmapIds, IdsOf, Ids
<1> DEFINE route == IF isGateway THEN GatewayEvidence(store) ELSE {}
<1>9. cited = Ids(ev) \cup route
  BY DEF cited, Ids
<1>10. \A e \in ToSet(all) : e.id \in Ids(ev) => e.ip = ip
  BY <1>2, <1>4 DEF Adds, RecordOf
<1>11. \A e \in ToSet(all) : e.id \in route => e.ip = ip
  <2> SUFFICES ASSUME NEW e \in ToSet(all), isGateway, e.id \in GatewayEvidence(store) PROVE e.ip = ip
    OBVIOUS
  <2>1. PICK x \in ToSet(store) : x.kind = "gateway_route" /\ x.id = e.id
    BY DEF GatewayEvidence, IdsOf
  <2>2. x = e
    BY <1>4, <2>1, OneRecord, NumberedDistinct
  <2> QED
    BY <2>1, <2>2 DEF LogBook, RecordOf
<1>12. route \subseteq Ids(store)
  BY DEF GatewayEvidence, IdsOf, Ids
<1> HIDE DEF route
<1>13. Cited(d.device) \subseteq Ids(ev) \cup route
  BY <1>7, <1>8, <1>9 DEF Cited
<1>14. Ids(ev) \cup route \subseteq Ids(all)
  BY <1>4, <1>12 DEF Adds
<1>15. SoundDevice(d.device, all)
  BY <1>3, <1>6, <1>7, <1>10, <1>11, <1>13, <1>14 DEF SoundDevice
<1> QED
  BY <1>4, <1>5, <1>7, <1>15 DEF d

\* The devices described so far: one for each address, in order, and all they cite on record.
SoundList(acc, start, q, k, gateway) ==
    /\ LogBook(acc.store, gateway) /\ Adds(start, acc.store)
    /\ IsSlice(acc.devices) /\ Len(acc.devices) = k
    /\ \A j \in 1..k : acc.devices[j].ip = q[j] /\ SoundDevice(acc.devices[j], acc.store)

LEMMA Described1 ==
    ASSUME NEW acc, NEW start, NEW q, NEW k \in Nat, NEW gateway, SoundList(acc, start, q, k, gateway), q[k + 1] \in Nat,
           NEW agent, NEW primary, NEW res, NEW lan, FinitePorts(res, lan)
    PROVE  SoundList(AddDevice(acc, q[k + 1], agent, gateway, primary, res, lan), start, q, k + 1, gateway)
<1> DEFINE d == DeviceOf(acc.store, q[k + 1], agent, gateway, primary, res, lan)
           new == AddDevice(acc, q[k + 1], agent, gateway, primary, res, lan)
<1>1. new.store = d.store /\ new.devices = Append(acc.devices, d.device)
  BY DEF AddDevice
<1>2. LogBook(acc.store, gateway)
  BY DEF SoundList
<1>3. /\ LogBook(d.store, gateway) /\ Adds(acc.store, d.store)
      /\ d.device.ip = q[k + 1] /\ SoundDevice(d.device, d.store)
  BY <1>2, DeviceStep
<1> HIDE DEF d, new
<1>4. IsSlice(acc.devices) /\ Len(acc.devices) = k
  BY DEF SoundList
<1>5. /\ IsSlice(new.devices) /\ Len(new.devices) = k + 1 /\ new.devices[k + 1] = d.device
      /\ \A j \in 1..k : new.devices[j] = acc.devices[j]
  <2> DEFINE s == acc.devices
             x == d.device
             A == ToSet(s) \cup {x}
  <2>1. s \in Seq(A) /\ x \in A
    BY <1>4 DEF IsSlice
  <2>2. Len(s) = k
    BY <1>4
  <2> HIDE DEF s, x, A
  <2>3. Append(s, x) \in Seq(A) /\ Len(Append(s, x)) = k + 1 /\ Append(s, x)[k + 1] = x /\ \A j \in 1..k : Append(s, x)[j] = s[j]
    BY <2>1, <2>2
  <2>4. IsSlice(Append(s, x))
    BY <2>3, SliceOf
  <2> QED
    BY <1>1, <2>3, <2>4 DEF s, x
<1>6. \A j \in 1..k : new.devices[j].ip = q[j] /\ SoundDevice(new.devices[j], new.store)
  BY <1>1, <1>3, <1>5, StaysSound DEF SoundList
<1>7. 1..k + 1 = 1..k \cup {k + 1}
  OBVIOUS
<1>8. Adds(start, new.store)
  BY <1>1, <1>3, AddsOn DEF SoundList
<1> QED
  BY <1>1, <1>3, <1>5, <1>6, <1>7, <1>8 DEF SoundList, new

LEMMA DescribedAll ==
    ASSUME NEW start, NEW gateway, LogBook(start, gateway), NEW q, IsSlice(q), \A i \in DOMAIN q : q[i] \in Nat,
           NEW agent, NEW primary, NEW res, NEW lan, FinitePorts(res, lan)
    PROVE  SoundList(Described([store |-> start, devices |-> <<>>], q, agent, gateway, primary, res, lan), start, q, Len(q), gateway)
<1> DEFINE base == [store |-> start, devices |-> <<>>]
<1>0. Len(q) \in Nat /\ DOMAIN q = 1..Len(q)
  BY SliceIs
<1>1. PICK acc : /\ acc[0] = base /\ Described(base, q, agent, gateway, primary, res, lan) = acc[Len(q)]
                 /\ \A k \in 1..Len(q) : acc[k] = AddDevice(acc[k - 1], q[k], agent, gateway, primary, res, lan)
  BY DeviceRun
<1> DEFINE G == {k \in Nat : SoundList(acc[k], start, q, k, gateway)}
<1>2. 0 \in G
  <2>1. IsSlice(<<>>) /\ Len(<<>>) = 0 /\ base.store = start /\ base.devices = <<>>
    BY DEF IsSlice
  <2> QED
    BY <1>1, <2>1 DEF SoundList, Adds
<1>3. ASSUME NEW k \in 0..Len(q) - 1, k \in G PROVE k + 1 \in G
  <2>1. k \in Nat /\ k + 1 \in 1..Len(q) /\ (k + 1) - 1 = k /\ q[k + 1] \in Nat
    BY <1>0
  <2>2. acc[k + 1] = AddDevice(acc[k], q[k + 1], agent, gateway, primary, res, lan)
    BY <1>1, <2>1
  <2>3. SoundList(acc[k], start, q, k, gateway)
    BY <1>3
  <2>4. SoundList(acc[k + 1], start, q, k + 1, gateway)
    BY <2>1, <2>2, <2>3, Described1
  <2> QED
    BY <2>1, <2>4
<1>4. \A k \in 0..Len(q) : k \in G
  <2>1. G \in SUBSET Nat
    OBVIOUS
  <2> HIDE DEF G
  <2> QED
    BY <1>0, <1>2, <1>3, <2>1, UpTo
<1> QED
  BY <1>0, <1>1, <1>4

\* The devices of a finite set of addresses, each once.
LEMMA BuiltDevices ==
    ASSUME NEW start, NEW gateway, LogBook(start, gateway), NEW agent, NEW primary, NEW res, NEW lan, FinitePorts(res, lan),
           IsFiniteSet(DeviceIPs(res, agent, gateway)), DeviceIPs(res, agent, gateway) \subseteq Nat
    PROVE  LET all == BuildDevices(start, agent, gateway, primary, res, lan)
           IN  /\ LogBook(all.store, gateway) /\ IsSlice(all.devices)
               /\ \A i, j \in DOMAIN all.devices : all.devices[i].ip = all.devices[j].ip => i = j
               /\ {all.devices[i].ip : i \in DOMAIN all.devices} = DeviceIPs(res, agent, gateway)
               /\ \A i \in DOMAIN all.devices : SoundDevice(all.devices[i], all.store)
<1> DEFINE ips == DeviceIPs(res, agent, gateway)
           rank == [ip \in ips |-> -ip]
           q == StableSort(SetToSeq(ips), rank)
           all == BuildDevices(start, agent, gateway, primary, res, lan)
<1>1. all = Described([store |-> start, devices |-> <<>>], q, agent, gateway, primary, res, lan)
  BY Zenon DEF BuildDevices, Described
<1>2. \A ip \in ips : rank[ip] \in Int
  OBVIOUS
<1> HIDE DEF ips, rank
<1>3. SetToSeq(ips) \in Seq(ips) /\ ToSet(SetToSeq(ips)) = ips /\ \A i, j \in DOMAIN SetToSeq(ips) : i # j => SetToSeq(ips)[i] # SetToSeq(ips)[j]
  BY Listing DEF ips
<1>4. IsSlice(SetToSeq(ips)) /\ Distinct(SetToSeq(ips))
  BY <1>3, SliceOf DEF Distinct
<1>5. IsSlice(q) /\ ToSet(q) = ips /\ Distinct(q)
  BY <1>2, <1>3, <1>4, SortIn
<1> HIDE DEF q, all
<1>6. Len(q) \in Nat /\ DOMAIN q = 1..Len(q)
  BY <1>5, SliceIs
<1>60. \A i \in DOMAIN q : q[i] \in Nat
  BY <1>5 DEF ToSet, ips
<1>7. SoundList(all, start, q, Len(q), gateway)
  BY <1>1, <1>5, <1>60, DescribedAll
<1>8. DOMAIN all.devices = 1..Len(q) /\ IsSlice(all.devices) /\ LogBook(all.store, gateway)
      /\ \A j \in 1..Len(q) : all.devices[j].ip = q[j] /\ SoundDevice(all.devices[j], all.store)
  BY <1>7, SliceIs DEF SoundList
<1>9. \A i, j \in DOMAIN all.devices : all.devices[i].ip = all.devices[j].ip => i = j
  BY <1>5, <1>6, <1>8 DEF Distinct
<1>10. {all.devices[i].ip : i \in DOMAIN all.devices} = ips
  BY <1>5, <1>6, <1>8 DEF ToSet
<1> QED
  BY <1>8, <1>9, <1>10 DEF all, ips

-----------------------------------------------------------------------------
(* The edges between them.                                                 *)

\* The edges after each draft, the drafts taken in the order q.
Drawn(q, acc, ids, drafts) ==
    /\ IsSlice(q) /\ Distinct(q) /\ ToSet(q) = drafts /\ acc[0] = {} /\ DrawEdges(ids, drafts) = acc[Len(q)]
    /\ \A k \in 1..Len(q) : acc[k] = AddEdge(ids, acc[k - 1], q[k])

LEMMA EdgeRun ==
    ASSUME NEW ids, NEW drafts, IsFiniteSet(drafts)
    PROVE  \E q, acc : Drawn(q, acc, ids, drafts)
<1> DEFINE Sol(g) == g = [s \in SUBSET drafts |-> IF s = {} THEN {}
                                                 ELSE AddEdge(ids, g[s \ {CHOOSE x \in s : TRUE}], CHOOSE x \in s : TRUE)]
           f == CHOOSE g : Sol(g)
<1>1. DrawEdges(ids, drafts) = f[drafts]
  BY Zenon DEF FoldSet, MapThenFoldSet, DrawEdges
<1>2. \A x, y : Turn("edge", ids, x, y) = AddEdge(ids, x, y)
  BY DEF Turn
<1>3. \A g : SetFolds(g, "edge", ids, {}, drafts) <=> Sol(g)
  BY <1>2 DEF SetFolds
<1> HIDE DEF Sol
<1>4. \E g : Sol(g)
  BY <1>3, SetTurnsExist
<1>5. SetFolds(f, "edge", ids, {}, drafts)
  BY <1>3, <1>4, Zenon
<1> HIDE DEF f
<1>6. PICK q, acc : IsSlice(q) /\ Distinct(q) /\ ToSet(q) = drafts /\ Turns(acc, "edge", ids, {}, q) /\ acc[Len(q)] = f[drafts]
  BY <1>5, SetTurnsRun
<1>7. Drawn(q, acc, ids, drafts)
  BY <1>1, <1>2, <1>6 DEF Turns, Drawn
<1> QED
  BY <1>7

\* Only drafts between known devices are drawn, and each id once.
LEMMA DrawnEdges ==
    ASSUME NEW ids, NEW drafts, IsFiniteSet(drafts)
    PROVE  /\ \A e \in DrawEdges(ids, drafts) : e \in drafts /\ {e.source, e.target} \subseteq ids /\ e.source # e.target
           /\ \A x, y \in DrawEdges(ids, drafts) : x.id = y.id => x = y
<1>1. PICK q, acc : Drawn(q, acc, ids, drafts)
  BY EdgeRun
<1> USE DEF Drawn
<1>2. Len(q) \in Nat /\ DOMAIN q = 1..Len(q)
  BY <1>1, SliceIs
<1> DEFINE Good(edges) == /\ \A e \in edges : e \in drafts /\ {e.source, e.target} \subseteq ids /\ e.source # e.target
                          /\ \A x, y \in edges : x.id = y.id => x = y
           G == {k \in Nat : Good(acc[k])}
<1>3. 0 \in G
  BY <1>1
<1>4. ASSUME NEW k \in 0..Len(q) - 1, k \in G PROVE k + 1 \in G
  <2>1. k + 1 \in 1..Len(q) /\ (k + 1) - 1 = k
    BY <1>2
  <2>2. acc[k + 1] = AddEdge(ids, acc[k], q[k + 1]) /\ q[k + 1] \in drafts
    BY <1>1, <1>2, <2>1 DEF ToSet
  <2>3. Good(acc[k])
    BY <1>4
  <2>4. ASSUME NEW edges, Good(edges), NEW e \in drafts PROVE Good(AddEdge(ids, edges, e))
    BY <2>4 DEF AddEdge
  <2> HIDE DEF Good
  <2>5. Good(acc[k + 1])
    BY <2>2, <2>3, <2>4
  <2> QED
    BY <2>1, <2>5
<1>5. Len(q) \in G
  <2>1. G \in SUBSET Nat
    OBVIOUS
  <2> HIDE DEF G
  <2>2. \A k \in 0..Len(q) : k \in G
    BY <1>2, <1>3, <1>4, <2>1, UpTo
  <2> QED
    BY <1>2, <2>2
<1> QED
  BY <1>1, <1>5

\* The types of edges a scan draws: it never hands Build a proven neighbour or a route hop.
DrawnTypes == {"gateway_default", "inferred_l2"}

\* An edge says its layer and how it is drawn, a link its type and medium.
Styled(e) == e.layer # "" /\ e.style # ""

Typed(e) == e.type # "" /\ e.relation # "" /\ e.medium # ""

\* An edge of the report.
SoundEdge(e, ips, known) ==
    /\ e.type \in DrawnTypes /\ e.conf \in 0..100 /\ ~e.physical /\ Styled(e)
    /\ {e.source, e.target} \subseteq ips /\ e.ev \subseteq known

LEMMA NewEdgeSound ==
    ASSUME NEW source, NEW target, NEW type \in DrawnTypes, NEW evidence
    PROVE  LET e == NewEdge(source, target, type, evidence)
           IN  /\ e.type = type /\ e.conf \in 0..100 /\ ~e.physical /\ Styled(e)
               /\ e.source = source /\ e.target = target /\ e.ev = evidence
<1> DEFINE c == ClampConfidence(type, BaseConfidence[type])
<1>1. c \in 0..100
  BY DEF ClampConfidence, BaseConfidence, MaxConfidence, DrawnTypes
<1>2. type \notin PhysicalTypes
  BY DEF PhysicalTypes, DrawnTypes
<1> HIDE DEF c
<1>3. NewEdge(source, target, type, evidence) =
        [id |-> <<source, target, type>>, source |-> source, target |-> target, type |-> type, layer |-> Layer(type),
         conf |-> c, style |-> LineStyle(type, c), ev |-> evidence,
         physical |-> type \in PhysicalTypes, inferred |-> type \notin PhysicalTypes \cup {"route_hop"}]
  BY Zenon DEF NewEdge, c
<1> DEFINE solid == type \in PhysicalTypes
           guess == type \notin PhysicalTypes \cup {"route_hop"}
           style == LineStyle(type, c)
           layer == Layer(type)
<1>4. solid = FALSE
  BY <1>2
<1>41. layer # "" /\ style # ""
  BY DEF Layer, LineStyle
<1> HIDE DEF solid, guess, style, layer
<1>5. NewEdge(source, target, type, evidence) =
        [id |-> <<source, target, type>>, source |-> source, target |-> target, type |-> type, layer |-> layer,
         conf |-> c, style |-> style, ev |-> evidence, physical |-> solid, inferred |-> guess]
  BY <1>3, Zenon DEF solid, guess, style, layer
<1> DEFINE e == NewEdge(source, target, type, evidence)
<1>6. e.layer = layer /\ e.style = style
  BY <1>5
<1>7. Styled(e)
  BY <1>41, <1>6, Zenon DEF Styled
<1>8. e.type = type /\ e.conf \in 0..100 /\ ~e.physical /\ e.source = source /\ e.target = target /\ e.ev = evidence
  BY <1>1, <1>4, <1>5
<1> HIDE DEF e
<1>9. e.type = type /\ e.conf \in 0..100 /\ ~e.physical /\ Styled(e) /\ e.source = source /\ e.target = target /\ e.ev = evidence
  BY <1>7, <1>8
<1> QED
  BY <1>9, Zenon DEF e

-----------------------------------------------------------------------------
(* The report of the sweep.                                                *)

\* What the sweeps and tables saw, the sweeps restricted to the hosts they try.
Seen(scope, lan) ==
    LET hosts == HostsInScope(scope)
    IN  (DOMAIN lan.tcp \cap hosts) \cup DOMAIN lan.table \cup DOMAIN lan.nmap \cup (DOMAIN lan.swept \cap hosts)

LEMMA SeenInScope ==
    ASSUME NEW scope, Sound(scope), NEW lan \in Lans
    PROVE  \A res : res = Discover(scope, lan) =>
              /\ UNION {res[s] : s \in DOMAIN res} = {ip \in Seen(scope, lan) : InScope(scope, ip)}
              /\ IsFiniteSet({ip \in Seen(scope, lan) : InScope(scope, ip)}) /\ Seen(scope, lan) \subseteq Nat
<1> DEFINE hosts == HostsInScope(scope)
           Inside(f) == {ip \in DOMAIN f : InScope(scope, ip)}
           tcp == DOMAIN lan.tcp \cap hosts
           sweep == DOMAIN lan.swept \cap hosts \cap Inside(lan.swept)
           table == Inside(lan.table)
           nmap == Inside(lan.nmap)
           all == {ip \in Seen(scope, lan) : InScope(scope, ip)}
<1>1. (IF scope.hosts > 0 THEN hosts ELSE {}) = hosts
  <2>1. scope.hosts \in Nat /\ IsFiniteSet(hosts) /\ Cardinality(hosts) = scope.hosts
    BY DEF Sound
  <2> HIDE DEF hosts
  <2>2. scope.hosts = 0 => hosts = {}
    BY <2>1, FS_EmptySet
  <2> QED
    BY <2>1, <2>2
<1>2. \A ip \in hosts : ip \in Nat /\ InScope(scope, ip)
  BY DEF Sound
<1> HIDE DEF hosts
<1>3. Discover(scope, lan) = [tcp |-> tcp, arp_sweep |-> sweep, arp_table |-> table, nmap |-> nmap]
  <2> DEFINE swept == IF scope.hosts > 0 THEN hosts ELSE {}
  <2>1. Discover(scope, lan) = [tcp |-> DOMAIN lan.tcp \cap swept, arp_sweep |-> DOMAIN lan.swept \cap swept \cap Inside(lan.swept),
                                arp_table |-> table, nmap |-> nmap]
    BY Zenon DEF Discover, hosts
  <2>2. swept = hosts
    BY <1>1
  <2> QED
    BY <2>1, <2>2, Zenon
<1>4. tcp \cup sweep \cup table \cup nmap = all
  BY <1>2 DEF Seen, hosts
<1>5. /\ IsFiniteSet(DOMAIN lan.tcp) /\ IsFiniteSet(DOMAIN lan.swept) /\ IsFiniteSet(DOMAIN lan.table) /\ IsFiniteSet(DOMAIN lan.nmap)
      /\ DOMAIN lan.tcp \subseteq Nat /\ DOMAIN lan.swept \subseteq Nat /\ DOMAIN lan.table \subseteq Nat /\ DOMAIN lan.nmap \subseteq Nat
  <2>1. \A seen \in {DOMAIN lan.tcp, DOMAIN lan.swept, DOMAIN lan.table, DOMAIN lan.nmap} : IsFiniteSet(seen) /\ seen \subseteq Nat
    BY LansAssumption, Zenon
  <2> QED
    BY <2>1, Zenon
<1>7. IsFiniteSet((DOMAIN lan.tcp \cup DOMAIN lan.swept) \cup (DOMAIN lan.table \cup DOMAIN lan.nmap))
  BY <1>5, FS_Union
<1>8. all \subseteq (DOMAIN lan.tcp \cup DOMAIN lan.swept) \cup (DOMAIN lan.table \cup DOMAIN lan.nmap) /\ Seen(scope, lan) \subseteq Nat
  BY <1>5 DEF Seen
<1>9. IsFiniteSet(all)
  <2> HIDE DEF all
  <2> QED
    BY <1>7, <1>8, FS_Subset
<1> HIDE DEF tcp, sweep, table, nmap, all
<1>10. ASSUME NEW res, res = Discover(scope, lan) PROVE UNION {res[s] : s \in DOMAIN res} = all
  <2>1. res = [tcp |-> tcp, arp_sweep |-> sweep, arp_table |-> table, nmap |-> nmap]
    BY <1>3, <1>10, Zenon
  <2>2. DOMAIN res = {"tcp", "arp_sweep", "arp_table", "nmap"} /\ res["tcp"] = tcp /\ res["arp_sweep"] = sweep
        /\ res["arp_table"] = table /\ res["nmap"] = nmap
    BY <2>1
  <2>3. UNION {res[s] : s \in DOMAIN res} = tcp \cup sweep \cup table \cup nmap
    BY <2>2
  <2> QED
    BY <1>4, <2>3, Zenon
<1> QED
  BY <1>8, <1>9, <1>10, Zenon DEF all

LEMMA SweepPorts ==
    ASSUME NEW scope, NEW lan \in Lans
    PROVE  FinitePorts(Discover(scope, lan), lan)
<1> DEFINE hosts == IF scope.hosts > 0 THEN HostsInScope(scope) ELSE {}
           Inside(f) == {ip \in DOMAIN f : InScope(scope, ip)}
           res == Discover(scope, lan)
           tcp == DOMAIN lan.tcp \cap hosts
           sweep == DOMAIN lan.swept \cap hosts \cap Inside(lan.swept)
           table == Inside(lan.table)
           nmap == Inside(lan.nmap)
<1>1. res = [tcp |-> tcp, arp_sweep |-> sweep, arp_table |-> table, nmap |-> nmap]
  BY Zenon DEF Discover
<1>2. tcp \subseteq DOMAIN lan.tcp /\ nmap \subseteq DOMAIN lan.nmap
  OBVIOUS
<1> HIDE DEF hosts, Inside, res, tcp, sweep, table, nmap
<1>3. res.tcp = tcp /\ res.nmap = nmap
  BY <1>1
<1> QED
  BY <1>2, <1>3, LansAssumption DEF FinitePorts, res

\* The sweep starts with one record or two.
LEMMA StartLogged ==
    ASSUME NEW agent \in Nat \cup {None}, NEW gateway \in Nat \cup {None}
    PROVE  LogBook(Minted(<<>>, <<Fact("interface", agent)>> \o (IF gateway # None THEN <<Fact("gateway_route", gateway)>> ELSE <<>>)), gateway)
<1> DEFINE first == Fact("interface", agent)
           route == Fact("gateway_route", gateway)
           a == <<first>>
           b == IF gateway # None THEN <<route>> ELSE <<>>
           Fine(e) == HasId(e) /\ e.ip \in Nat \cup {None} /\ RecordOf(e, e.ip, gateway)
<1>1. Fine(first) /\ Fine(route)
  <2>1. ASSUME NEW kind, NEW ip \in {agent, gateway}, kind = "gateway_route" => ip = gateway, NEW e, e = Fact(kind, ip) PROVE Fine(e)
    <3>1. {"id", "kind", "ip", "mac", "host", "ports", "port"} \subseteq DOMAIN e /\ e.kind = kind /\ e.ip = ip /\ IsFiniteSet(e.ports)
      BY <2>1, FactIs
    <3> QED
      BY <2>1, <3>1 DEF HasId, RecordOf
  <2> HIDE DEF Fine
  <2> QED
    BY <2>1
<1>2. \A e : IsSlice(<<e>>) /\ ToSet(<<e>>) = {e}
  BY DEF IsSlice, ToSet
<1>3. IsSlice(<<>>) /\ ToSet(<<>>) = {}
  BY DEF IsSlice, ToSet
<1> HIDE DEF first, route, Fine
<1>4. IsSlice(a) /\ (\A e \in ToSet(a) : Fine(e)) /\ IsSlice(b) /\ \A e \in ToSet(b) : Fine(e)
  BY <1>1, <1>2, <1>3
<1> HIDE DEF a, b
<1> DEFINE facts == a \o b
<1>5. IsSlice(facts) /\ ToSet(facts) = ToSet(a) \cup ToSet(b)
  BY <1>4, SliceJoin
<1> HIDE DEF facts
<1>6. \A i \in DOMAIN facts : Fine(facts[i])
  BY <1>4, <1>5 DEF ToSet
<1>7. Numbered(<<>>)
  BY DEF Numbered, IsSlice
<1> DEFINE ev == Minted(<<>>, facts)
<1>8. IsSlice(ev) /\ Numbered(<<>> \o ev)
  BY <1>5, <1>6, <1>7, MintedNumbered DEF Fine
<1>9. /\ DOMAIN ev = DOMAIN facts
      /\ \A i \in DOMAIN facts : ev[i].ip = facts[i].ip /\ ev[i].kind = facts[i].kind /\ ev[i].ports = facts[i].ports
  BY <1>6, MintedAbout DEF Fine
<1> HIDE DEF ev
<1>10. <<>> \o ev = ev
  <2>1. ev \in Seq(ToSet(ev))
    BY <1>8 DEF IsSlice
  <2> QED
    BY <2>1
<1>11. \A e \in ToSet(ev) : e.ip \in Nat \cup {None} /\ RecordOf(e, e.ip, gateway)
  BY <1>6, <1>9 DEF Fine, RecordOf, ToSet
<1>12. LogBook(ev, gateway)
  BY <1>8, <1>10, <1>11 DEF LogBook
<1> QED
  BY <1>12, Zenon DEF ev, facts, a, b, first, route

\* A graph of these devices.
SoundGraph(graph, devices, evidence) ==
    /\ IsSlice(graph.devices) /\ DOMAIN graph.devices = DOMAIN devices
    /\ \A i \in DOMAIN devices : graph.devices[i].ip = devices[i].ip /\ SoundDevice(graph.devices[i], evidence)
    /\ IsFiniteSet(graph.edges)
    /\ \A e \in graph.edges : SoundEdge(e, {devices[i].ip : i \in DOMAIN devices}, Ids(evidence))
    /\ \A x, y \in graph.edges : x.id = y.id => x = y

\* What Build draws from sound devices is sound.
LEMMA BuiltGraph ==
    ASSUME NEW evidence, NEW devices, IsSlice(devices), \A i \in DOMAIN devices : SoundDevice(devices[i], evidence),
           NEW agent, NEW gateway, NEW cited, cited \subseteq Ids(evidence), NEW peers, IsFiniteSet(peers)
    PROVE  SoundGraph(Build(agent, gateway, devices, cited, peers), devices, evidence)
<1> DEFINE ids == {d.ip : d \in ToSet(devices)}
           route == IF agent # None /\ gateway # None THEN {NewEdge(agent, gateway, "gateway_default", cited)} ELSE {}
           hub == IF gateway # None THEN gateway ELSE agent
           star == {NewEdge(hub, p, "inferred_l2", {}) : p \in peers \ {agent, gateway}}
           edges == DrawEdges(ids, route \cup star)
           Drawn1(d) == [d EXCEPT !.gateway = d.ip = gateway, !.agent = d.ip = agent, !.roles = ClassifyRoles(d.ip = agent, d.ip = gateway)]
           drawn == [i \in DOMAIN devices |-> Drawn1(devices[i])]
           solid == \A e \in edges : e.type \notin PhysicalTypes
           high == Cardinality({e \in edges : e.conf >= 70})
<1>1. Build(agent, gateway, devices, cited, peers) = [devices |-> drawn, edges |-> edges, inferredOnly |-> solid, high |-> high]
  BY Zenon DEF Build
<1>2. ids = {devices[i].ip : i \in DOMAIN devices}
  BY DEF ToSet
<1>3. DOMAIN devices = 1..Len(devices) /\ Len(devices) \in Nat
  BY SliceIs
<1>4. ASSUME NEW d, SoundDevice(d, evidence) PROVE Drawn1(d).ip = d.ip /\ SoundDevice(Drawn1(d), evidence)
  <2> DEFINE x == d.ip = gateway
             y == d.ip = agent
             z == ClassifyRoles(d.ip = agent, d.ip = gateway)
  <2>1. Drawn1(d) = [d EXCEPT !.gateway = x, !.agent = y, !.roles = z]
    BY Zenon
  <2> HIDE DEF x, y, z, Drawn1
  <2>2. DeviceParts \subseteq DOMAIN d
    BY <1>4 DEF SoundDevice
  <2>3. /\ Drawn1(d).ip = d.ip /\ Drawn1(d).conf = d.conf /\ Drawn1(d).ev = d.ev /\ Drawn1(d).services = d.services
        /\ DOMAIN Drawn1(d) = DOMAIN d
    BY <2>1, <2>2 DEF DeviceParts
  <2> QED
    BY <1>4, <2>3 DEF SoundDevice, Cited
<1> HIDE DEF Drawn1
<1>5. IsSlice(drawn) /\ DOMAIN drawn = DOMAIN devices
  <2>1. drawn \in Seq({drawn[i] : i \in 1..Len(devices)})
    BY <1>3
  <2> QED
    BY <2>1, SliceOf
<1>6. \A i \in DOMAIN devices : drawn[i].ip = devices[i].ip /\ SoundDevice(drawn[i], evidence)
  BY <1>4
<1>7. IsFiniteSet(route \cup star)
  <2>1. IsFiniteSet(route)
    <3> DEFINE e == NewEdge(agent, gateway, "gateway_default", cited)
    <3>1. IsFiniteSet({e}) /\ IsFiniteSet({})
      BY FS_EmptySet, FS_Singleton
    <3> HIDE DEF e
    <3>2. \A on \in BOOLEAN : IsFiniteSet(IF on THEN {e} ELSE {})
      BY <3>1
    <3>3. route = IF agent # None /\ gateway # None THEN {e} ELSE {}
      BY Zenon DEF e
    <3> HIDE DEF route
    <3> QED
      BY <3>2, <3>3
  <2>2. IsFiniteSet(star)
    <3> DEFINE S == peers \ {agent, gateway}
               f == [p \in S |-> NewEdge(hub, p, "inferred_l2", {})]
    <3>1. IsFiniteSet(S)
      BY FS_Subset
    <3>2. f \in Surjection(S, star)
      BY DEF Surjection
    <3> HIDE DEF S, f, star
    <3> QED
      BY <3>1, <3>2, FS_Surjection
  <2> HIDE DEF route, star
  <2> QED
    BY <2>1, <2>2, FS_Union
<1>8. \A e \in route \cup star :
         /\ e.type \in DrawnTypes /\ e.conf \in 0..100 /\ ~e.physical /\ Styled(e)
         /\ e.ev \subseteq Ids(evidence)
  <2>0. ASSUME NEW a, NEW b, NEW t \in DrawnTypes, NEW ev, NEW e, e = NewEdge(a, b, t, ev)
        PROVE  e.type = t /\ e.conf \in 0..100 /\ ~e.physical /\ Styled(e) /\ e.ev = ev
    <3>1. /\ NewEdge(a, b, t, ev).type = t /\ NewEdge(a, b, t, ev).conf \in 0..100 /\ ~NewEdge(a, b, t, ev).physical
          /\ Styled(NewEdge(a, b, t, ev))
          /\ NewEdge(a, b, t, ev).source = a /\ NewEdge(a, b, t, ev).target = b /\ NewEdge(a, b, t, ev).ev = ev
      BY NewEdgeSound
    <3> QED
      BY <2>0, <3>1, Zenon
  <2>1. ASSUME NEW e \in route PROVE e.type = "gateway_default" /\ e.conf \in 0..100 /\ ~e.physical /\ Styled(e) /\ e.ev = cited
    <3>1. e = NewEdge(agent, gateway, "gateway_default", cited)
      BY <2>1
    <3>2. "gateway_default" \in DrawnTypes
      BY DEF DrawnTypes
    <3> HIDE DEF route
    <3> QED
      BY <2>0, <3>1, <3>2
  <2>2. ASSUME NEW e \in star PROVE e.type = "inferred_l2" /\ e.conf \in 0..100 /\ ~e.physical /\ Styled(e) /\ e.ev = {}
    <3>1. PICK p \in peers : e = NewEdge(hub, p, "inferred_l2", {})
      BY <2>2
    <3>2. "inferred_l2" \in DrawnTypes
      BY DEF DrawnTypes
    <3> HIDE DEF hub
    <3> QED
      BY <2>0, <3>1, <3>2
  <2> HIDE DEF route, star
  <2> QED
    BY <2>1, <2>2 DEF DrawnTypes
<1> HIDE DEF route, star, ids
<1>9. /\ \A e \in edges : e \in route \cup star /\ {e.source, e.target} \subseteq ids /\ e.source # e.target
      /\ \A x, y \in edges : x.id = y.id => x = y
  BY <1>7, DrawnEdges
<1> HIDE DEF edges
<1>10. IsFiniteSet(edges)
  BY <1>7, <1>9, FS_Subset
<1>11. \A e \in edges : SoundEdge(e, ids, Ids(evidence))
  BY <1>8, <1>9 DEF SoundEdge
<1> HIDE DEF drawn, solid, high
<1> DEFINE graph == Build(agent, gateway, devices, cited, peers)
<1> HIDE DEF graph
<1>12. graph.devices = drawn /\ graph.edges = edges
  BY <1>1 DEF graph
<1>13. SoundGraph(graph, devices, evidence)
  BY <1>2, <1>5, <1>6, <1>9, <1>10, <1>11, <1>12 DEF SoundGraph
<1> QED
  BY <1>13 DEF graph

\* The records are told apart and about an address or none.
SoundEvidence(evidence) ==
    IsSlice(evidence) /\ DistinctIds(evidence) /\ \A e \in ToSet(evidence) : e.ip \in Nat \cup {None} /\ IsFiniteSet(e.ports)

ReportParts == {"devices", "edges", "evidence", "registry", "nodes", "links", "root", "notes"}

\* A report whose devices, edges, records and counts are sound, before the graph is drawn.
SoundReport(r) ==
    LET ips == {r.devices[i].ip : i \in DOMAIN r.devices}
    IN  /\ ReportParts \subseteq DOMAIN r /\ r.gateway \in Nat \cup {None} /\ SoundEvidence(r.evidence)
        /\ IsSlice(r.devices) /\ \A i, j \in DOMAIN r.devices : r.devices[i].ip = r.devices[j].ip => i = j
        /\ \A i \in DOMAIN r.devices : SoundDevice(r.devices[i], r.evidence)
        /\ ips \subseteq Nat
        /\ IsFiniteSet(r.edges) /\ \A e \in r.edges : SoundEdge(e, ips, Ids(r.evidence))
        /\ \A x, y \in r.edges : x.id = y.id => x = y
        /\ r.summary.devices = Len(r.devices) /\ r.summary.edges = Cardinality(r.edges)
        /\ r.nodes = {} /\ r.links = {}

\* It lists what was seen in scope, the agent and the gateway.
ListsSeen(r, scope, lan) ==
    {d.ip : d \in ToSet(r.devices)} = ({ip \in Seen(scope, lan) : InScope(scope, ip)} \cup {r.agent, r.gateway}) \ {None}

SweptReport(r, scope, lan) ==
    SoundReport(r) /\ Numbered(r.evidence) /\ r.summary.evidence = Len(r.evidence) /\ r.root = None /\ ListsSeen(r, scope, lan)

\* The report discovery.Run builds of what the sweep saw.
LEMMA RunSound ==
    ASSUME NEW primary, primary.ips \in Seq(Nat), NEW gateway \in Nat \cup {None}, NEW scope, Sound(scope), NEW warnings, NEW lan \in Lans
    PROVE  SweptReport(Run(primary, gateway, scope, warnings, lan), scope, lan)
<1> DEFINE agent == PrimaryIPv4(primary)
           start == Minted(<<>>, <<Fact("interface", agent)>> \o (IF gateway # None THEN <<Fact("gateway_route", gateway)>> ELSE <<>>))
           res == Discover(scope, lan)
           all == BuildDevices(start, agent, gateway, primary, res, lan)
           cited == GatewayEvidence(all.store)
           peers == SameSubnetPeers(all.devices, primary.net, agent, gateway)
           graph == Build(agent, gateway, all.devices, cited, peers)
           warned == warnings \cup (IF gateway = None THEN {"no_default_gateway"} ELSE {})
                        \cup (IF graph.inferredOnly /\ graph.edges # {} THEN {"inferred_topology_only"} ELSE {})
           count == Len(graph.devices)
           edgeCount == Cardinality(graph.edges)
           evidenceCount == Len(all.store)
           summary == [devices |-> count, edges |-> edgeCount, evidence |-> evidenceCount, high |-> graph.high, inferredOnly |-> graph.inferredOnly]
           found == [scanned |-> scope.hosts, devices |-> Len(graph.devices), tcp |-> Cardinality(res.tcp),
                     arp |-> Cardinality(res.arp_sweep \cup res.arp_table), nmap |-> Cardinality(res.nmap)]
           r == Run(primary, gateway, scope, warnings, lan)
           seen == {ip \in Seen(scope, lan) : InScope(scope, ip)}
           ips == DeviceIPs(res, agent, gateway)
<1>1. r = [agent |-> agent, gateway |-> gateway, scope |-> scope, devices |-> graph.devices, edges |-> graph.edges,
           evidence |-> all.store, warnings |-> warned, summary |-> summary, found |-> found, registry |-> {}, nodes |-> {}, links |-> {},
           root |-> None, notes |-> {}]
  BY Zenon DEF Run
<1>2. agent \in Nat \cup {None}
  BY AgentAddress
<1>3. LogBook(start, gateway)
  BY <1>2, StartLogged
<1>31. FinitePorts(res, lan)
  BY SweepPorts
<1> HIDE DEF agent, start, graph
<1>4. UNION {res[s] : s \in DOMAIN res} = seen /\ IsFiniteSet(seen) /\ seen \subseteq Nat
  <2>1. \A x : x = Discover(scope, lan) =>
           UNION {x[s] : s \in DOMAIN x} = seen /\ IsFiniteSet(seen) /\ Seen(scope, lan) \subseteq Nat
    BY SeenInScope, ZenonT(40)
  <2>2. seen \subseteq Seen(scope, lan)
    OBVIOUS
  <2> HIDE DEF seen
  <2> QED
    BY <2>1, <2>2
<1> HIDE DEF res
<1>5. ips = (seen \cup {agent, gateway}) \ {None}
  BY <1>4, Zenon DEF DeviceIPs
<1>6. IsFiniteSet(ips) /\ ips \subseteq Nat
  <2>1. IsFiniteSet({agent, gateway})
    <3>1. IsFiniteSet({agent}) /\ {agent, gateway} = {agent} \cup {gateway}
      BY FS_Singleton
    <3>2. IsFiniteSet({agent} \cup {gateway})
      BY <3>1, FS_AddElement
    <3> QED
      BY <3>1, <3>2
  <2> HIDE DEF ips, seen
  <2>2. IsFiniteSet(seen \cup {agent, gateway})
    BY <1>4, <2>1, FS_Union
  <2>3. ips \subseteq seen \cup {agent, gateway}
    BY <1>5
  <2>4. ips \subseteq Nat
    BY <1>2, <1>4, <1>5 DEF None
  <2> QED
    BY <2>2, <2>3, <2>4, FS_Subset
<1>7. /\ LogBook(all.store, gateway) /\ IsSlice(all.devices)
      /\ \A i, j \in DOMAIN all.devices : all.devices[i].ip = all.devices[j].ip => i = j
      /\ {all.devices[i].ip : i \in DOMAIN all.devices} = ips
      /\ \A i \in DOMAIN all.devices : SoundDevice(all.devices[i], all.store)
  BY <1>3, <1>31, <1>6, BuiltDevices
<1> HIDE DEF all, ips, seen
<1>8. cited \subseteq Ids(all.store)
  BY DEF GatewayEvidence, IdsOf, Ids
<1>9. IsFiniteSet(peers)
  <2>1. {d.ip : d \in ToSet(all.devices)} = ips
    BY <1>7 DEF ToSet
  <2>2. peers \subseteq ips
    BY <2>1 DEF SameSubnetPeers
  <2> HIDE DEF peers
  <2> QED
    BY <1>6, <2>2, FS_Subset
<1> HIDE DEF cited, peers
<1>10. /\ IsSlice(graph.devices) /\ DOMAIN graph.devices = DOMAIN all.devices
       /\ \A i \in DOMAIN all.devices : graph.devices[i].ip = all.devices[i].ip /\ SoundDevice(graph.devices[i], all.store)
       /\ IsFiniteSet(graph.edges)
       /\ \A e \in graph.edges : SoundEdge(e, {all.devices[i].ip : i \in DOMAIN all.devices}, Ids(all.store))
       /\ \A x, y \in graph.edges : x.id = y.id => x = y
  <2>1. graph = Build(agent, gateway, all.devices, cited, peers)
    BY Zenon DEF graph
  <2> DEFINE devices == all.devices
             store == all.store
  <2>2. IsSlice(devices) /\ (\A i \in DOMAIN devices : SoundDevice(devices[i], store)) /\ cited \subseteq Ids(store) /\ IsFiniteSet(peers)
    BY <1>7, <1>8, <1>9
  <2> HIDE DEF devices, store
  <2>3. SoundGraph(Build(agent, gateway, devices, cited, peers), devices, store)
    BY <2>2, BuiltGraph
  <2>4. SoundGraph(graph, all.devices, all.store)
    BY <2>1, <2>3, Zenon DEF devices, store
  <2> QED
    BY <2>4 DEF SoundGraph
<1> HIDE DEF warned, count, edgeCount, evidenceCount, found, r
<1>11. /\ r.devices = graph.devices /\ r.edges = graph.edges /\ r.evidence = all.store /\ r.agent = agent /\ r.gateway = gateway
       /\ r.registry = {} /\ r.nodes = {} /\ r.links = {} /\ r.summary = summary
       /\ r.root = None /\ ReportParts \subseteq DOMAIN r
  <2> HIDE DEF summary
  <2> QED
    BY <1>1 DEF ReportParts
<1>12. r.summary.devices = Len(r.devices) /\ r.summary.edges = Cardinality(r.edges) /\ r.summary.evidence = Len(r.evidence)
  <2>1. summary.devices = count /\ summary.edges = edgeCount /\ summary.evidence = evidenceCount
    OBVIOUS
  <2> HIDE DEF summary
  <2> QED
    BY <1>11, <2>1 DEF count, edgeCount, evidenceCount
<1>13. {r.devices[i].ip : i \in DOMAIN r.devices} = ips /\ \A i, j \in DOMAIN r.devices : r.devices[i].ip = r.devices[j].ip => i = j
  BY <1>7, <1>10, <1>11
<1>130. SoundEvidence(r.evidence) /\ Numbered(r.evidence)
  BY <1>7, <1>11, NumberedDistinct DEF LogBook, Numbered, SoundEvidence, RecordOf
<1>14. SoundReport(r)
  BY <1>6, <1>7, <1>10, <1>11, <1>12, <1>13, <1>130 DEF SoundReport
<1>15. {d.ip : d \in ToSet(r.devices)} = (seen \cup {r.agent, r.gateway}) \ {None}
  <2>1. {d.ip : d \in ToSet(r.devices)} = {r.devices[i].ip : i \in DOMAIN r.devices}
    BY DEF ToSet
  <2> QED
    BY <1>5, <1>11, <1>13, <2>1, Zenon
<1> QED
  BY <1>11, <1>12, <1>14, <1>15, <1>130, Zenon DEF r, seen, SweptReport, ListsSeen

-----------------------------------------------------------------------------
(* The safety boundary.                                                    *)

LEMMA TargetsPrivate ==
    ASSUME NEW r, NEW c, NEW answers
    PROVE  \A ip \in DOMAIN EnrichReport(r, c, answers) : IsPrivateIP(ip)
<1> DEFINE targets == CollectTargets(r, c)
           TargetOf(ip) == CHOOSE t \in targets : t.ip = ip
           found == [ip \in {t.ip : t \in targets} |-> EnrichOne(TargetOf(ip), r.scope.net, answers[ip])]
<1>1. EnrichReport(r, c, answers) = found
  BY Zenon DEF EnrichReport
<1>2. \A t \in targets : IsPrivateIP(t.ip)
  BY DEF CollectTargets
<1> HIDE DEF targets
<1>3. DOMAIN found = {t.ip : t \in targets}
  OBVIOUS
<1> QED
  BY <1>1, <1>2, <1>3

\* What a scan that was not refused starts from.
Prepared ==
    /\ "lan" \in DOMAIN scan
    /\ scan.primary.ips \in Seq(Nat) /\ scan.gateway \in Nat \cup {None} /\ Sound(scan.scope)

Reported == ListsSeen(report, scan.scope, scan.lan)

ScopeInv ==
    /\ stage = "scoped" => Prepared
    /\ stage = "discovered" => Reported
    /\ \A ip \in DOMAIN results : IsPrivateIP(ip)

LEMMA ScopeInvEnough == ScopeInv => ScopeRespected
<1> SUFFICES ASSUME ScopeInv PROVE ScopeRespected
  OBVIOUS
<1> DEFINE lan == scan.lan
           hosts == HostsInScope(scan.scope)
           seen == (DOMAIN lan.tcp \cap hosts) \cup DOMAIN lan.table \cup DOMAIN lan.nmap \cup (DOMAIN lan.swept \cap hosts)
           one == stage = "scoped" =>
                     /\ ~scan.scope.public /\ ~Outgrows(scan.scope.net) => \A ip \in hosts : IsPrivateIP(ip)
                     /\ Cardinality(hosts) = scan.scope.hosts /\ scan.scope.hosts <= MaxScanHosts
           two == stage = "discovered" =>
                     {d.ip : d \in ToSet(report.devices)} = ({ip \in seen : InScope(scan.scope, ip)} \cup {report.agent, report.gateway}) \ {None}
<1>1. ScopeRespected <=> one /\ two /\ \A ip \in DOMAIN results : IsPrivateIP(ip)
  BY Zenon DEF ScopeRespected
<1>2. stage = "scoped" => Sound(scan.scope)
  BY DEF ScopeInv, Prepared
<1>3. one
  BY <1>2 DEF Sound
<1>4. seen = Seen(scan.scope, scan.lan)
  BY Zenon DEF Seen
<1> HIDE DEF seen
<1>5. two
  BY <1>4, Zenon DEF ScopeInv, Reported, ListsSeen
<1> QED
  BY <1>1, <1>3, <1>5, Zenon DEF ScopeInv

LEMMA SelectPrepares ==
    ASSUME NEW ifaces \in Hosts, NEW g \in Gateways, NEW r \in Requests, NEW public \in BOOLEAN, NEW name, NEW virtual,
           Select(ifaces, g, r, public, name, virtual)
    PROVE  (stage' = "scoped" => Prepared') /\ stage' # "discovered" /\ UNCHANGED <<report, ctx, results, mobile, intel>>
<1>1. stage' = "refused" \/ stage' = "scoped"
  BY SelectOutcome DEF Takes
<1>2. UNCHANGED <<report, ctx, results, mobile, intel>>
  BY SelectOutcome
<1>3. ASSUME stage' = "scoped" PROVE Prepared'
  <2> DEFINE primary == Primary(ifaces, g, name, virtual)
  <2> HIDE DEF primary
  <2>1. Takes(primary, g, r, public)
    BY <1>3, SelectOutcome DEF primary
  <2>2. primary.net \in Nets /\ primary.ips \in Seq(Nat)
    BY <2>1, Chosen DEF Takes, primary
  <2> DEFINE scope == ParseScope(r, public, primary).scope
             warnings == ParseScope(r, public, primary).warnings
  <2>3. Sound(scope)
    BY <2>1, <2>2, AcceptedSound, RequestsAssumption DEF Takes
  <2>4. g \in Nat \cup {None}
    BY GatewaysAssumption
  <2> HIDE DEF scope, warnings
  <2>5. scan' = [NoScan EXCEPT !.primary = primary, !.gateway = g, !.scope = scope, !.warnings = warnings]
    BY <2>1, Zenon DEF scope, warnings, Takes
  <2>6. {"primary", "gateway", "scope", "warnings", "lan"} \subseteq DOMAIN NoScan
    <3>1. \A a, b, c, d, e : {"primary", "gateway", "scope", "warnings", "lan"} \subseteq
             DOMAIN [primary |-> a, gateway |-> b, scope |-> c, warnings |-> d, lan |-> e]
      OBVIOUS
    <3> QED
      BY <3>1, Zenon DEF NoScan
  <2>7. "lan" \in DOMAIN scan' /\ scan'.primary = primary /\ scan'.gateway = g /\ scan'.scope = scope
    BY <2>5, <2>6
  <2> QED
    BY <2>2, <2>3, <2>4, <2>7 DEF Prepared
<1> QED
  BY <1>1, <1>2, <1>3

LEMMA DiscoverReports ==
    ASSUME Prepared, NEW lan \in Lans, DiscoverLAN(lan)
    PROVE  Reported' /\ SoundReport(report') /\ Numbered(report'.evidence) /\ report'.summary.evidence = Len(report'.evidence) /\ report'.root = None
<1>1. scan' = [scan EXCEPT !.lan = lan] /\ report' = Run(scan.primary, scan.gateway, scan.scope, scan.warnings, lan)
  BY DEF DiscoverLAN
<1>2. scan'.lan = lan /\ scan'.scope = scan.scope
  BY <1>1 DEF Prepared
<1> DEFINE primary == scan.primary
           gateway == scan.gateway
           scope == scan.scope
           warnings == scan.warnings
           r == Run(primary, gateway, scope, warnings, lan)
<1>3. primary.ips \in Seq(Nat) /\ gateway \in Nat \cup {None} /\ Sound(scope)
  BY DEF Prepared
<1>4. report' = r
  BY <1>1
<1> HIDE DEF primary, gateway, warnings, scope, r
<1>5. SweptReport(r, scope, lan)
  BY <1>3, RunSound DEF r
<1>6. scan'.lan = lan /\ scan'.scope = scope
  BY <1>2 DEF scope
<1>7. Reported'
  BY <1>4, <1>5, <1>6, Zenon DEF Reported, SweptReport
<1> QED
  BY <1>4, <1>5, <1>7, Zenon DEF SweptReport

\* scope.go:3-5, "It never scans outside the validated scope": whatever the host, the request and the
\* network, for every width of address and every limit, as long as the limit is a power of two with
\* room for two hosts and the private networks are CIDR blocks.
THEOREM ScopeIsRespected == Spec => []ScopeRespected
<1>1. Init => ScopeInv
  <2>1. DOMAIN Nothing = {}
    BY DEF Nothing
  <2> QED
    BY <2>1 DEF Init, ScopeInv
<1>2. ScopeInv /\ [Next]_vars => ScopeInv'
  <2> SUFFICES ASSUME ScopeInv, [Next]_vars PROVE ScopeInv'
    OBVIOUS
  <2>1. ASSUME NEW ifaces \in Hosts, NEW g \in Gateways, NEW r \in Requests, NEW name \in Names, NEW public \in BOOLEAN, NEW virtual \in BOOLEAN,
               Select(ifaces, g, r, public, name, virtual)
        PROVE  ScopeInv'
    BY <2>1, SelectPrepares DEF ScopeInv
  <2>2. ASSUME NEW lan \in Lans, DiscoverLAN(lan) PROVE ScopeInv'
    <3>1. stage = "scoped" /\ stage' = "discovered" /\ UNCHANGED results
      BY <2>2 DEF DiscoverLAN
    <3>2. Reported'
      BY <2>2, <3>1, DiscoverReports DEF ScopeInv
    <3> QED
      BY <3>1, <3>2 DEF ScopeInv
  <2>3. ASSUME NEW detected \in Contexts \cup {NoContext}, ClassifyAccess(detected) PROVE ScopeInv'
    BY <2>3 DEF ClassifyAccess, ScopeInv
  <2>4. ASSUME NEW answers \in Answers, EnrichUpstream(answers) PROVE ScopeInv'
    <3>1. results' = EnrichReport(report, ctx, answers) /\ stage' = "enriched"
      BY <2>4 DEF EnrichUpstream
    <3>2. \A ip \in DOMAIN results' : IsPrivateIP(ip)
      BY <3>1, TargetsPrivate
    <3> QED
      BY <3>1, <3>2 DEF ScopeInv
  <2>5. CASE SkipUpstream
    BY <2>5 DEF SkipUpstream, ScopeInv
  <2>6. ASSUME NEW fingerprints \in Mobiles, BuildDeviceIntel(fingerprints) PROVE ScopeInv'
    BY <2>6 DEF BuildDeviceIntel, ScopeInv
  <2>7. CASE Complete
    BY <2>7 DEF Complete, ScopeInv
  <2>8. CASE UNCHANGED vars
    BY <2>8 DEF vars, ScopeInv, Prepared, Reported
  <2> QED
    BY <2>1, <2>2, <2>3, <2>4, <2>5, <2>6, <2>7, <2>8 DEF Next
<1>3. ScopeInv => ScopeRespected
  BY ScopeInvEnough
<1> QED
  BY <1>1, <1>2, <1>3, PTL DEF Spec

-----------------------------------------------------------------------------
(* The loops of the intelligence section and the graph, as runs.           *)

\* The loop took the elements of S in some order and left result behind.
Ran(loop, p, base, S, result) ==
    \E q, acc : IsSlice(q) /\ ToSet(q) = S /\ Turns(acc, loop, p, base, q) /\ acc[Len(q)] = result

LEMMA SetRan ==
    ASSUME NEW loop, NEW p, NEW base, NEW S, IsFiniteSet(S), NEW f, SetFolds(f, loop, p, base, S)
    PROVE  Ran(loop, p, base, S, f[S])
  BY SetTurnsRun DEF Ran

LEMMA SliceRan ==
    ASSUME NEW loop, NEW p, NEW base, NEW q, IsSlice(q), NEW f, Folds(f, loop, p, base, q)
    PROVE  Ran(loop, p, base, ToSet(q), f[DOMAIN q])
  BY TurnsRun DEF Ran

LEMMA ServicesRan ==
    ASSUME NEW d, NEW services, NEW conf, IsFiniteSet(services)
    PROVE  Ran("services", conf, d, services, AddServices(d, services, conf))
<1> DEFINE Sol(g) == g = [s \in SUBSET services |-> IF s = {} THEN d
                                               ELSE AddService(g[s \ {CHOOSE x \in s : TRUE}], (CHOOSE x \in s : TRUE).port, conf, (CHOOSE x \in s : TRUE).ev)]
           f == CHOOSE g : Sol(g)
<1>1. AddServices(d, services, conf) = f[services]
  BY Zenon DEF FoldSet, MapThenFoldSet, AddServices
<1>2. \A a, x : Turn("services", conf, a, x) = AddService(a, x.port, conf, x.ev)
  BY DEF Turn
<1>3. \A g : SetFolds(g, "services", conf, d, services) <=> Sol(g)
  BY <1>2 DEF SetFolds
<1> HIDE DEF Sol
<1>4. \E g : Sol(g)
  BY <1>3, SetTurnsExist
<1>5. SetFolds(f, "services", conf, d, services)
  BY <1>3, <1>4, Zenon
<1> HIDE DEF f
<1> QED
  BY <1>1, <1>5, SetRan

LEMMA PagesRan ==
    ASSUME NEW d, NEW pages, IsFiniteSet(pages)
    PROVE  Ran("pages", 0, d, pages, AddPages(d, pages))
<1> DEFINE Sol(g) == g = [s \in SUBSET pages |-> IF s = {} THEN d
                                               ELSE AddHTTPObservation(g[s \ {CHOOSE x \in s : TRUE}], (CHOOSE x \in s : TRUE).key, (CHOOSE x \in s : TRUE).ev)]
           f == CHOOSE g : Sol(g)
<1>1. AddPages(d, pages) = f[pages]
  BY Zenon DEF FoldSet, MapThenFoldSet, AddPages
<1>2. \A a, x : Turn("pages", 0, a, x) = AddHTTPObservation(a, x.key, x.ev)
  BY DEF Turn
<1>3. \A g : SetFolds(g, "pages", 0, d, pages) <=> Sol(g)
  BY <1>2 DEF SetFolds
<1> HIDE DEF Sol
<1>4. \E g : Sol(g)
  BY <1>3, SetTurnsExist
<1>5. SetFolds(f, "pages", 0, d, pages)
  BY <1>3, <1>4, Zenon
<1> HIDE DEF f
<1> QED
  BY <1>1, <1>5, SetRan

LEMMA CertificatesRan ==
    ASSUME NEW d, NEW certs, IsFiniteSet(certs)
    PROVE  Ran("certs", 0, d, certs, AddCertificates(d, certs))
<1> DEFINE Sol(g) == g = [s \in SUBSET certs |-> IF s = {} THEN d
                                               ELSE AddTLSObservation(g[s \ {CHOOSE x \in s : TRUE}], (CHOOSE x \in s : TRUE).key, (CHOOSE x \in s : TRUE).ev)]
           f == CHOOSE g : Sol(g)
<1>1. AddCertificates(d, certs) = f[certs]
  BY Zenon DEF FoldSet, MapThenFoldSet, AddCertificates
<1>2. \A a, x : Turn("certs", 0, a, x) = AddTLSObservation(a, x.key, x.ev)
  BY DEF Turn
<1>3. \A g : SetFolds(g, "certs", 0, d, certs) <=> Sol(g)
  BY <1>2 DEF SetFolds
<1> HIDE DEF Sol
<1>4. \E g : Sol(g)
  BY <1>3, SetTurnsExist
<1>5. SetFolds(f, "certs", 0, d, certs)
  BY <1>3, <1>4, Zenon
<1> HIDE DEF f
<1> QED
  BY <1>1, <1>5, SetRan

LEMMA FailuresRan ==
    ASSUME NEW d, NEW failures, IsFiniteSet(failures)
    PROVE  Ran("failures", 0, d, failures, AddFailures(d, failures))
<1> DEFINE Sol(g) == g = [s \in SUBSET failures |-> IF s = {} THEN d
                                               ELSE AddFailedAttempt(g[s \ {CHOOSE x \in s : TRUE}], (CHOOSE x \in s : TRUE).key, (CHOOSE x \in s : TRUE).ev)]
           f == CHOOSE g : Sol(g)
<1>1. AddFailures(d, failures) = f[failures]
  BY Zenon DEF FoldSet, MapThenFoldSet, AddFailures
<1>2. \A a, x : Turn("failures", 0, a, x) = AddFailedAttempt(a, x.key, x.ev)
  BY DEF Turn
<1>3. \A g : SetFolds(g, "failures", 0, d, failures) <=> Sol(g)
  BY <1>2 DEF SetFolds
<1> HIDE DEF Sol
<1>4. \E g : Sol(g)
  BY <1>3, SetTurnsExist
<1>5. SetFolds(f, "failures", 0, d, failures)
  BY <1>3, <1>4, Zenon
<1> HIDE DEF f
<1> QED
  BY <1>1, <1>5, SetRan

LEMMA CandidatesRan ==
    ASSUME NEW d, NEW rules, IsFiniteSet(rules)
    PROVE  Ran("candidates", 0, d, rules, MergeCandidates(d, rules))
<1> DEFINE Sol(g) == g = [s \in SUBSET rules |-> IF s = {} THEN d
                                               ELSE MergeCandidate(g[s \ {CHOOSE x \in s : TRUE}], (CHOOSE x \in s : TRUE)[1], (CHOOSE x \in s : TRUE)[2], (CHOOSE x \in s : TRUE)[3])]
           f == CHOOSE g : Sol(g)
<1>1. MergeCandidates(d, rules) = f[rules]
  BY Zenon DEF FoldSet, MapThenFoldSet, MergeCandidates
<1>2. \A a, x : Turn("candidates", 0, a, x) = MergeCandidate(a, x[1], x[2], x[3])
  BY DEF Turn
<1>3. \A g : SetFolds(g, "candidates", 0, d, rules) <=> Sol(g)
  BY <1>2 DEF SetFolds
<1> HIDE DEF Sol
<1>4. \E g : Sol(g)
  BY <1>3, SetTurnsExist
<1>5. SetFolds(f, "candidates", 0, d, rules)
  BY <1>3, <1>4, Zenon
<1> HIDE DEF f
<1> QED
  BY <1>1, <1>5, SetRan

LEMMA GatewaysRan ==
    ASSUME NEW store, NEW devices, NEW r, IsFiniteSet(devices)
    PROVE  Ran("gateways", r, store, devices, IngestGatewayDevices(r, store, devices))
<1> DEFINE Sol(g) == g = [s \in SUBSET devices |-> IF s = {} THEN store
                                               ELSE IngestGatewayDevice(r, g[s \ {CHOOSE x \in s : TRUE}], (CHOOSE x \in s : TRUE))]
           f == CHOOSE g : Sol(g)
<1>1. IngestGatewayDevices(r, store, devices) = f[devices]
  BY Zenon DEF FoldSet, MapThenFoldSet, IngestGatewayDevices
<1>2. \A a, x : Turn("gateways", r, a, x) = IngestGatewayDevice(r, a, x)
  BY DEF Turn
<1>3. \A g : SetFolds(g, "gateways", r, store, devices) <=> Sol(g)
  BY <1>2 DEF SetFolds
<1> HIDE DEF Sol
<1>4. \E g : Sol(g)
  BY <1>3, SetTurnsExist
<1>5. SetFolds(f, "gateways", r, store, devices)
  BY <1>3, <1>4, Zenon
<1> HIDE DEF f
<1> QED
  BY <1>1, <1>5, SetRan

LEMMA CPEsRan ==
    ASSUME NEW store, NEW cpes, NEW r, IsFiniteSet(cpes)
    PROVE  Ran("cpes", r, store, cpes, IngestCPECandidates(r, store, cpes))
<1> DEFINE Sol(g) == g = [s \in SUBSET cpes |-> IF s = {} THEN store
                                               ELSE IngestCPECandidate(r, g[s \ {CHOOSE x \in s : TRUE}], (CHOOSE x \in s : TRUE))]
           f == CHOOSE g : Sol(g)
<1>1. IngestCPECandidates(r, store, cpes) = f[cpes]
  BY Zenon DEF FoldSet, MapThenFoldSet, IngestCPECandidates
<1>2. \A a, x : Turn("cpes", r, a, x) = IngestCPECandidate(r, a, x)
  BY DEF Turn
<1>3. \A g : SetFolds(g, "cpes", r, store, cpes) <=> Sol(g)
  BY <1>2 DEF SetFolds
<1> HIDE DEF Sol
<1>4. \E g : Sol(g)
  BY <1>3, SetTurnsExist
<1>5. SetFolds(f, "cpes", r, store, cpes)
  BY <1>3, <1>4, Zenon
<1> HIDE DEF f
<1> QED
  BY <1>1, <1>5, SetRan

LEMMA HintsRan ==
    ASSUME NEW store, NEW edges, IsFiniteSet(edges)
    PROVE  Ran("hints", 0, store, edges, AddEdgeHints(store, edges))
<1> DEFINE Sol(g) == g = [s \in SUBSET edges |-> IF s = {} THEN store
                                               ELSE AddEdgeHint(g[s \ {CHOOSE x \in s : TRUE}], (CHOOSE x \in s : TRUE))]
           f == CHOOSE g : Sol(g)
<1>1. AddEdgeHints(store, edges) = f[edges]
  BY Zenon DEF FoldSet, MapThenFoldSet, AddEdgeHints
<1>2. \A a, x : Turn("hints", 0, a, x) = AddEdgeHint(a, x)
  BY DEF Turn
<1>3. \A g : SetFolds(g, "hints", 0, store, edges) <=> Sol(g)
  BY <1>2 DEF SetFolds
<1> HIDE DEF Sol
<1>4. \E g : Sol(g)
  BY <1>3, SetTurnsExist
<1>5. SetFolds(f, "hints", 0, store, edges)
  BY <1>3, <1>4, Zenon
<1> HIDE DEF f
<1> QED
  BY <1>1, <1>5, SetRan

LEMMA IntelsRan ==
    ASSUME NEW nodes, NEW devices, IsFiniteSet(devices)
    PROVE  Ran("intels", 0, nodes, devices, IntelNodes(nodes, devices))
<1> DEFINE Sol(g) == g = [s \in SUBSET devices |-> IF s = {} THEN nodes
                                               ELSE UpsertIntelDevice(g[s \ {CHOOSE x \in s : TRUE}], (CHOOSE x \in s : TRUE))]
           f == CHOOSE g : Sol(g)
<1>1. IntelNodes(nodes, devices) = f[devices]
  BY Zenon DEF FoldSet, MapThenFoldSet, IntelNodes
<1>2. \A a, x : Turn("intels", 0, a, x) = UpsertIntelDevice(a, x)
  BY DEF Turn
<1>3. \A g : SetFolds(g, "intels", 0, nodes, devices) <=> Sol(g)
  BY <1>2 DEF SetFolds
<1> HIDE DEF Sol
<1>4. \E g : Sol(g)
  BY <1>3, SetTurnsExist
<1>5. SetFolds(f, "intels", 0, nodes, devices)
  BY <1>3, <1>4, Zenon
<1> HIDE DEF f
<1> QED
  BY <1>1, <1>5, SetRan

LEMMA LinksRan ==
    ASSUME NEW drawn, NEW edges, IsFiniteSet(edges)
    PROVE  Ran("links", 0, drawn, edges, UpsertRichEdges(drawn, edges))
<1> DEFINE Sol(g) == g = [s \in SUBSET edges |-> IF s = {} THEN drawn
                                               ELSE UpsertRichEdge(g[s \ {CHOOSE x \in s : TRUE}], RichEdge((CHOOSE x \in s : TRUE)))]
           f == CHOOSE g : Sol(g)
<1>1. UpsertRichEdges(drawn, edges) = f[edges]
  BY Zenon DEF FoldSet, MapThenFoldSet, UpsertRichEdges
<1>2. \A a, x : Turn("links", 0, a, x) = UpsertRichEdge(a, RichEdge(x))
  BY DEF Turn
<1>3. \A g : SetFolds(g, "links", 0, drawn, edges) <=> Sol(g)
  BY <1>2 DEF SetFolds
<1> HIDE DEF Sol
<1>4. \E g : Sol(g)
  BY <1>3, SetTurnsExist
<1>5. SetFolds(f, "links", 0, drawn, edges)
  BY <1>3, <1>4, Zenon
<1> HIDE DEF f
<1> QED
  BY <1>1, <1>5, SetRan

LEMMA PointsRan ==
    ASSUME NEW signals, IsFiniteSet(signals)
    PROVE  Ran("points", 0, 0, signals, Points(signals))
<1> DEFINE Sol(g) == g = [s \in SUBSET signals |-> IF s = {} THEN 0
                                               ELSE g[s \ {CHOOSE x \in s : TRUE}] + (CHOOSE x \in s : TRUE)[2]]
           f == CHOOSE g : Sol(g)
<1>1. Points(signals) = f[signals]
  BY Zenon DEF FoldSet, MapThenFoldSet, Points
<1>2. \A a, x : Turn("points", 0, a, x) = a + x[2]
  BY DEF Turn
<1>3. \A g : SetFolds(g, "points", 0, 0, signals) <=> Sol(g)
  BY <1>2 DEF SetFolds
<1> HIDE DEF Sol
<1>4. \E g : Sol(g)
  BY <1>3, SetTurnsExist
<1>5. SetFolds(f, "points", 0, 0, signals)
  BY <1>3, <1>4, Zenon
<1> HIDE DEF f
<1> QED
  BY <1>1, <1>5, SetRan

LEMMA TopologyRan ==
    ASSUME NEW r, NEW store, IsSlice(r.devices)
    PROVE  Ran("topology", r, store, ToSet(r.devices), IngestTopologyDevices(r, store))
<1> DEFINE Sol(g) == g = [s \in SUBSET DOMAIN r.devices |-> IF s = {} THEN store ELSE IngestTopologyDevice(r, g[s \ {Max(s)}], r.devices[Max(s)])]
           f == CHOOSE g : Sol(g)
<1>1. IngestTopologyDevices(r, store) = f[DOMAIN r.devices]
  BY Zenon DEF FoldLeft, MapThenFoldSet, IngestTopologyDevices
<1>2. \A a, x : Turn("topology", r, a, x) = IngestTopologyDevice(r, a, x)
  BY DEF Turn
<1>3. \A g : Folds(g, "topology", r, store, r.devices) <=> Sol(g)
  BY <1>2 DEF Folds
<1> HIDE DEF Sol
<1>4. \E g : Sol(g)
  BY <1>3, TurnsExist
<1>5. Folds(f, "topology", r, store, r.devices)
  BY <1>3, <1>4, Zenon
<1> HIDE DEF f
<1> QED
  BY <1>1, <1>5, SliceRan

LEMMA RecordsRun ==
    ASSUME NEW r, NEW store, IsSlice(r.evidence)
    PROVE  \E acc : Turns(acc, "records", r, store, r.evidence) /\ acc[Len(r.evidence)] = IngestEvidenceRecords(r, store)
<1> DEFINE Sol(g) == g = [s \in SUBSET DOMAIN r.evidence |-> IF s = {} THEN store ELSE IngestEvidenceRecord(r, g[s \ {Max(s)}], r.evidence[Max(s)])]
           f == CHOOSE g : Sol(g)
<1>1. IngestEvidenceRecords(r, store) = f[DOMAIN r.evidence]
  BY Zenon DEF FoldLeft, MapThenFoldSet, IngestEvidenceRecords
<1>2. \A a, x : Turn("records", r, a, x) = IngestEvidenceRecord(r, a, x)
  BY DEF Turn
<1>3. \A g : Folds(g, "records", r, store, r.evidence) <=> Sol(g)
  BY <1>2 DEF Folds
<1> HIDE DEF Sol
<1>4. \E g : Sol(g)
  BY <1>3, TurnsExist
<1>5. Folds(f, "records", r, store, r.evidence)
  BY <1>3, <1>4, Zenon
<1> HIDE DEF f
<1> QED
  BY <1>1, <1>5, TurnsRun

LEMMA RecordsRan ==
    ASSUME NEW r, NEW store, IsSlice(r.evidence)
    PROVE  Ran("records", r, store, ToSet(r.evidence), IngestEvidenceRecords(r, store))
  BY RecordsRun DEF Ran

LEMMA HopsRan ==
    ASSUME NEW r, NEW c, NEW store, IsSlice(c.hops)
    PROVE  Ran("hops", <<r, c>>, store, ToSet(c.hops), IngestHops(r, c, store))
<1> DEFINE Sol(g) == g = [s \in SUBSET DOMAIN c.hops |-> IF s = {} THEN store ELSE IngestHop(r, c, g[s \ {Max(s)}], c.hops[Max(s)])]
           f == CHOOSE g : Sol(g)
           p == <<r, c>>
<1>1. IngestHops(r, c, store) = f[DOMAIN c.hops]
  BY Zenon DEF FoldLeft, MapThenFoldSet, IngestHops
<1>2. \A a, x : Turn("hops", p, a, x) = IngestHop(r, c, a, x)
  BY DEF Turn
<1> HIDE DEF p
<1>3. \A g : Folds(g, "hops", p, store, c.hops) <=> Sol(g)
  BY <1>2 DEF Folds
<1> HIDE DEF Sol
<1>4. \E g : Sol(g)
  BY <1>3, TurnsExist
<1>5. Folds(f, "hops", p, store, c.hops)
  BY <1>3, <1>4, Zenon
<1> HIDE DEF f
<1> QED
  BY <1>1, <1>5, SliceRan DEF p

LEMMA RootsRan ==
    ASSUME NEW devices, IsSlice(devices)
    PROVE  Ran("roots", 0, Nothing, ToSet(devices), RootNodes(devices))
<1> DEFINE Sol(g) == g = [s \in SUBSET DOMAIN devices |-> IF s = {} THEN Nothing ELSE UpsertRootDevice(g[s \ {Max(s)}], devices[Max(s)])]
           f == CHOOSE g : Sol(g)
<1>1. RootNodes(devices) = f[DOMAIN devices]
  BY Zenon DEF FoldLeft, MapThenFoldSet, RootNodes
<1>2. \A a, x : Turn("roots", 0, a, x) = UpsertRootDevice(a, x)
  BY DEF Turn
<1>3. \A g : Folds(g, "roots", 0, Nothing, devices) <=> Sol(g)
  BY <1>2 DEF Folds
<1> HIDE DEF Sol
<1>4. \E g : Sol(g)
  BY <1>3, TurnsExist
<1>5. Folds(f, "roots", 0, Nothing, devices)
  BY <1>3, <1>4, Zenon
<1> HIDE DEF f
<1> QED
  BY <1>1, <1>5, SliceRan

LEMMA AppendRun ==
    ASSUME NEW evidence, NEW found, NEW order, IsSlice(order)
    PROVE  \E acc : Turns(acc, "append", found, evidence, order) /\ acc[Len(order)] = Appended(evidence, found, order)
<1> DEFINE With(a, x) == a \o found[x].evidence
           Sol(g) == g = [s \in SUBSET DOMAIN order |-> IF s = {} THEN evidence ELSE With(g[s \ {Max(s)}], order[Max(s)])]
           f == CHOOSE g : Sol(g)
<1>1. Appended(evidence, found, order) = f[DOMAIN order]
  BY Zenon DEF FoldLeft, MapThenFoldSet, Appended
<1>2. \A a, x : Turn("append", found, a, x) = With(a, x)
  BY DEF Turn
<1> HIDE DEF With
<1>3. \A g : Folds(g, "append", found, evidence, order) <=> Sol(g)
  BY <1>2 DEF Folds
<1> HIDE DEF Sol
<1>4. \E g : Sol(g)
  BY <1>3, TurnsExist
<1>5. Folds(f, "append", found, evidence, order)
  BY <1>3, <1>4, Zenon
<1> HIDE DEF f
<1> QED
  BY <1>1, <1>5, TurnsRun

-----------------------------------------------------------------------------
(* What the intelligence store knows of a device only grows, and every     *)
(* record its parts cite is a record of the device.                        *)

DeviceFields ==
    {"ip", "macs", "hosts", "roles", "conf", "ev", "services", "http", "tls", "failed", "agent", "gateway", "upstream", "upnp", "cands",
     "hints", "proven", "inferredOnly", "type", "os", "findings", "risk", "tags", "routing"}

Known(d) ==
    /\ DOMAIN d = DeviceFields /\ d.conf \in Nat /\ ~d.proven
    /\ \A port \in DOMAIN d.services : d.services[port].ev \subseteq d.ev
    /\ \A type \in DOMAIN d.cands : d.cands[type].ev \subseteq d.ev
    /\ d.upnp \subseteq d.ev

DeviceGrew(a, b) ==
    /\ Known(a) /\ Known(b)
    /\ b.ip = a.ip /\ a.ev \subseteq b.ev /\ DOMAIN a.services \subseteq DOMAIN b.services

SameFlags(a, b) == b.agent = a.agent /\ (a.gateway => b.gateway)

Grows(a, b) == DeviceGrew(a, b) /\ SameFlags(a, b)

LEMMA GrowsOn == \A a, b, c : Grows(a, b) /\ Grows(b, c) => Grows(a, c)
  BY DEF Grows, DeviceGrew, SameFlags, Known

LEMMA GrowsFrom == \A d : Known(d) => Grows(d, d)
  BY DEF Grows, DeviceGrew, SameFlags, Known

LEMMA GrowsKnown == \A a, b : Grows(a, b) => Known(a) /\ Known(b) /\ b.ip = a.ip /\ a.ev \subseteq b.ev /\ DOMAIN a.services \subseteq DOMAIN b.services
  BY DEF Grows, DeviceGrew

LEMMA NewKnown ==
    ASSUME NEW ip
    PROVE  Known(NewDevice(ip)) /\ NewDevice(ip).ip = ip
<1> DEFINE d == NewDevice(ip)
           none == Nothing
           type == Unidentified
           os == UnknownOS
<1>1. d = [ip |-> ip, macs |-> {}, hosts |-> {}, roles |-> {}, conf |-> 0, ev |-> {}, services |-> none, http |-> {}, tls |-> {},
           failed |-> {}, agent |-> FALSE, gateway |-> FALSE, upstream |-> FALSE, upnp |-> {}, cands |-> none, hints |-> {},
           proven |-> FALSE, inferredOnly |-> FALSE, type |-> type, os |-> os, findings |-> {}, risk |-> "unknown", tags |-> {}, routing |-> ""]
  BY Zenon DEF NewDevice
<1>2. DOMAIN none = {}
  BY DEF Nothing
<1> HIDE DEF d, none, type, os
<1>3. \E blank : d = [ip |-> ip, macs |-> {}, hosts |-> {}, roles |-> {}, conf |-> 0, ev |-> {}, services |-> none, http |-> {}, tls |-> {},
           failed |-> {}, agent |-> FALSE, gateway |-> FALSE, upstream |-> FALSE, upnp |-> {}, cands |-> none, hints |-> {},
           proven |-> FALSE, inferredOnly |-> FALSE, type |-> type, os |-> os, findings |-> {}, risk |-> "unknown", tags |-> {}, routing |-> blank]
  BY <1>1, Zenon
<1>4. /\ DOMAIN d = DeviceFields
      /\ d.ip = ip /\ d.conf = 0 /\ d.ev = {} /\ d.services = none /\ d.cands = none /\ d.upnp = {} /\ d.proven = FALSE
  BY <1>3 DEF DeviceFields
<1>5. Known(d)
  BY <1>2, <1>4 DEF Known
<1> QED
  BY <1>4, <1>5 DEF d

\* A change of other fields than these.
LEMMA SameGrows ==
    ASSUME NEW a, Known(a), NEW b, DOMAIN b = DOMAIN a, b.ip = a.ip, b.conf = a.conf, b.ev = a.ev, b.services = a.services,
           b.cands = a.cands, b.upnp = a.upnp, b.agent = a.agent, a.gateway => b.gateway, b.proven = a.proven
    PROVE  Grows(a, b)
  BY DEF Known, Grows, DeviceGrew, SameFlags

LEMMA CiteGrows ==
    ASSUME NEW d, Known(d), NEW ids
    PROVE  Grows(d, Cite(d, ids)) /\ Cite(d, ids).ev = d.ev \cup ids
<1> DEFINE e == Cite(d, ids)
<1>1. /\ DOMAIN e = DOMAIN d /\ e.ev = d.ev \cup ids /\ e.ip = d.ip /\ e.conf = d.conf /\ e.services = d.services
      /\ e.cands = d.cands /\ e.upnp = d.upnp /\ e.agent = d.agent /\ e.gateway = d.gateway /\ e.proven = d.proven
  BY DEF Known, DeviceFields, Cite
<1> HIDE DEF e
<1>2. Grows(d, e)
  BY <1>1 DEF Known, Grows, DeviceGrew, SameFlags
<1> QED
  BY <1>1, <1>2 DEF e

LEMMA AtLeastGrows ==
    ASSUME NEW d, Known(d), NEW conf \in Nat
    PROVE  Grows(d, AtLeast(d, conf)) /\ AtLeast(d, conf).ev = d.ev
<1> DEFINE e == AtLeast(d, conf)
           more == Greater(d.conf, conf)
<1>0. more \in Nat
  BY DEF Known, Greater
<1> HIDE DEF more
<1>1. e = [d EXCEPT !.conf = more]
  BY DEF AtLeast, more, Greater
<1>2. /\ DOMAIN e = DOMAIN d /\ e.ev = d.ev /\ e.ip = d.ip /\ e.conf = more /\ e.services = d.services
      /\ e.cands = d.cands /\ e.upnp = d.upnp /\ e.agent = d.agent /\ e.gateway = d.gateway /\ e.proven = d.proven
  BY <1>1 DEF Known, DeviceFields
<1> HIDE DEF e
<1>3. Grows(d, e)
  BY <1>0, <1>2 DEF Known, Grows, DeviceGrew, SameFlags
<1> QED
  BY <1>2, <1>3 DEF e

LEMMA CandidateGrows ==
    ASSUME NEW d, Known(d), NEW type, NEW conf, NEW ids \in SUBSET d.ev
    PROVE  Grows(d, MergeCandidate(d, type, conf, ids))
<1> DEFINE old == At(d.cands, type, [conf |-> 0, ev |-> {}])
           value == [conf |-> Greater(old.conf, conf), ev |-> old.ev \cup ids]
           cands == Put(d.cands, type, value)
           e == MergeCandidate(d, type, conf, ids)
<1>1. old.ev \subseteq d.ev
  BY DEF At, Known
<1>2. e = [d EXCEPT !.cands = cands]
  BY Zenon DEF MergeCandidate
<1> HIDE DEF old
<1>3. value.ev \subseteq d.ev
  BY <1>1
<1> HIDE DEF value
<1>4. DOMAIN cands = DOMAIN d.cands \cup {type} /\ cands[type] = value /\ \A k \in DOMAIN d.cands : k # type => cands[k] = d.cands[k]
  BY DEF Put
<1> HIDE DEF cands, e
<1>5. \A k \in DOMAIN cands : cands[k].ev \subseteq d.ev
  BY <1>3, <1>4 DEF Known
<1>6. /\ DOMAIN e = DOMAIN d /\ e.ev = d.ev /\ e.ip = d.ip /\ e.conf = d.conf /\ e.services = d.services
      /\ e.cands = cands /\ e.upnp = d.upnp /\ e.agent = d.agent /\ e.gateway = d.gateway /\ e.proven = d.proven
  BY <1>2 DEF Known, DeviceFields
<1>7. Grows(d, e)
  BY <1>5, <1>6 DEF Known, Grows, DeviceGrew, SameFlags
<1> QED
  BY <1>7 DEF e

LEMMA VirtualGrows ==
    ASSUME NEW d, Known(d), NEW conf, NEW ids \in SUBSET d.ev
    PROVE  Grows(d, Virtual(d, conf, ids))
<1> DEFINE c == [d EXCEPT !.roles = @ \cup {"virtual"}]
<1>1. /\ DOMAIN c = DOMAIN d /\ c.ip = d.ip /\ c.conf = d.conf /\ c.ev = d.ev /\ c.services = d.services
      /\ c.cands = d.cands /\ c.upnp = d.upnp /\ c.agent = d.agent /\ c.gateway = d.gateway /\ c.proven = d.proven
  BY DEF Known, DeviceFields
<1>2. Virtual(d, conf, ids) = MergeCandidate(c, "virtual_machine", conf, ids)
  BY Zenon DEF Virtual
<1> HIDE DEF c
<1>3. Grows(d, c)
  BY <1>1, SameGrows
<1>4. Known(c)
  BY <1>3, GrowsKnown
<1>5. Grows(c, MergeCandidate(c, "virtual_machine", conf, ids))
  BY <1>1, <1>4, CandidateGrows
<1> QED
  BY <1>2, <1>3, <1>5, GrowsOn

LEMMA MACGrows ==
    ASSUME NEW d, Known(d), NEW mac, NEW ids, NEW conf \in Nat
    PROVE  Grows(d, AddMAC(d, mac, ids, conf))
<1> DEFINE c == [d EXCEPT !.macs = @ \cup {mac}]
           known == Cite(c, ids)
           marked == IF mac \in VirtualMACs THEN Virtual(known, 70, ids) ELSE known
<1>1. /\ DOMAIN c = DOMAIN d /\ c.ip = d.ip /\ c.conf = d.conf /\ c.ev = d.ev /\ c.services = d.services
      /\ c.cands = d.cands /\ c.upnp = d.upnp /\ c.agent = d.agent /\ c.gateway = d.gateway /\ c.proven = d.proven
  BY DEF Known, DeviceFields
<1>2. AddMAC(d, mac, ids, conf) = AtLeast(marked, conf)
  BY Zenon DEF AddMAC
<1> HIDE DEF c
<1>3. Grows(d, c)
  BY <1>1, SameGrows
<1>4. Known(c)
  BY <1>3, GrowsKnown
<1>5. Grows(c, known) /\ ids \subseteq known.ev
  BY <1>4, CiteGrows
<1> HIDE DEF known
<1>6. Known(known)
  BY <1>5, GrowsKnown
<1>7. Grows(known, marked)
  BY <1>5, <1>6, VirtualGrows, GrowsFrom
<1> HIDE DEF marked
<1>8. Grows(marked, AtLeast(marked, conf))
  BY <1>7, AtLeastGrows, GrowsKnown
<1> QED
  BY <1>2, <1>3, <1>5, <1>7, <1>8, GrowsOn

LEMMA HostnameGrows ==
    ASSUME NEW d, Known(d), NEW host, NEW ids, NEW conf \in Nat
    PROVE  Grows(d, AddHostname(d, host, ids, conf))
<1> DEFINE c == [d EXCEPT !.hosts = @ \cup {host}]
           known == Cite(c, ids)
           virtual == Virtual(known, 45, ids)
           low == Lesser(conf, 35)
           marked == AtLeast(virtual, low)
           named == AtLeast(known, conf)
           e == AddHostname(d, host, ids, conf)
<1>1. /\ DOMAIN c = DOMAIN d /\ c.ip = d.ip /\ c.conf = d.conf /\ c.ev = d.ev /\ c.services = d.services
      /\ c.cands = d.cands /\ c.upnp = d.upnp /\ c.agent = d.agent /\ c.gateway = d.gateway /\ c.proven = d.proven
  BY DEF Known, DeviceFields
<1>2. e = d \/ e = marked \/ e = named
  BY Zenon DEF AddHostname
<1> HIDE DEF c, e
<1>3. Grows(d, c)
  BY <1>1, SameGrows
<1>4. Known(c)
  BY <1>3, GrowsKnown
<1>5. Grows(c, known) /\ ids \subseteq known.ev
  BY <1>4, CiteGrows
<1> HIDE DEF known
<1>6. Known(known)
  BY <1>5, GrowsKnown
<1>7. Grows(known, virtual)
  BY <1>5, <1>6, VirtualGrows
<1>70. low \in Nat
  BY DEF Lesser
<1> HIDE DEF virtual, low
<1>8. Grows(virtual, marked)
  BY <1>7, <1>70, AtLeastGrows, GrowsKnown
<1>9. Grows(known, named)
  BY <1>6, AtLeastGrows
<1> HIDE DEF marked, named
<1>10. Grows(d, marked) /\ Grows(d, named) /\ Grows(d, d)
  BY <1>3, <1>5, <1>7, <1>8, <1>9, GrowsOn, GrowsFrom
<1> QED
  BY <1>2, <1>10 DEF e

LEMMA ServiceGrows ==
    ASSUME NEW d, Known(d), NEW port, NEW conf, NEW ids
    PROVE  Grows(d, AddService(d, port, conf, ids)) /\ port \in DOMAIN AddService(d, port, conf, ids).services
<1> DEFINE old == At(d.services, port, [conf |-> 0, ev |-> {}])
           value == [conf |-> Greater(old.conf, conf), ev |-> old.ev \cup ids]
           services == Put(d.services, port, value)
           c == [d EXCEPT !.services = services]
           with == Cite(c, ids)
           e == AddService(d, port, conf, ids)
<1>1. old.ev \subseteq d.ev
  BY DEF At, Known
<1>2. e = with \/ e = AtLeast(with, 70)
  BY Zenon DEF AddService
<1> HIDE DEF old
<1>3. value.ev \subseteq d.ev \cup ids
  BY <1>1
<1> HIDE DEF value
<1>4. DOMAIN services = DOMAIN d.services \cup {port} /\ services[port] = value /\ \A k \in DOMAIN d.services : k # port => services[k] = d.services[k]
  BY DEF Put
<1> HIDE DEF services, e
<1>5. \A k \in DOMAIN services : services[k].ev \subseteq d.ev \cup ids
  BY <1>3, <1>4 DEF Known
<1>6. /\ DOMAIN c = DOMAIN d /\ c.ev = d.ev /\ c.ip = d.ip /\ c.conf = d.conf /\ c.services = services
      /\ c.cands = d.cands /\ c.upnp = d.upnp /\ c.agent = d.agent /\ c.gateway = d.gateway /\ c.proven = d.proven
  BY DEF Known, DeviceFields
<1> HIDE DEF c
<1>7. with = [c EXCEPT !.ev = @ \cup ids]
  BY DEF Cite
<1>8. /\ DOMAIN with = DOMAIN d /\ with.ev = d.ev \cup ids /\ with.ip = d.ip /\ with.conf = d.conf /\ with.services = services
      /\ with.cands = d.cands /\ with.upnp = d.upnp /\ with.agent = d.agent /\ with.gateway = d.gateway /\ with.proven = d.proven
  BY <1>6, <1>7 DEF Known, DeviceFields
<1> HIDE DEF with
<1>9. Grows(d, with) /\ port \in DOMAIN with.services
  BY <1>4, <1>5, <1>8 DEF Known, Grows, DeviceGrew, SameFlags
<1>10. Grows(with, AtLeast(with, 70))
  BY <1>9, AtLeastGrows, GrowsKnown
<1>11. Grows(d, AtLeast(with, 70)) /\ DOMAIN with.services \subseteq DOMAIN AtLeast(with, 70).services
  BY <1>9, <1>10, GrowsOn, GrowsKnown
<1> QED
  BY <1>2, <1>9, <1>11 DEF e

LEMMA PageGrows ==
    ASSUME NEW d, Known(d), NEW key, NEW id
    PROVE  Grows(d, AddHTTPObservation(d, key, id))
<1> DEFINE c == [d EXCEPT !.http = @ \cup {[key |-> key, ev |-> id]}]
           cited == Cite(c, {id})
           e == AddHTTPObservation(d, key, id)
<1>1. /\ DOMAIN c = DOMAIN d /\ c.ip = d.ip /\ c.conf = d.conf /\ c.ev = d.ev /\ c.services = d.services
      /\ c.cands = d.cands /\ c.upnp = d.upnp /\ c.agent = d.agent /\ c.gateway = d.gateway /\ c.proven = d.proven
  BY DEF Known, DeviceFields
<1>2. e = d \/ e = AtLeast(cited, 75)
  BY Zenon DEF AddHTTPObservation
<1> HIDE DEF c, e
<1>3. Grows(d, c)
  BY <1>1, SameGrows
<1>4. Known(c)
  BY <1>3, GrowsKnown
<1>5. Grows(c, cited)
  BY <1>4, CiteGrows
<1> HIDE DEF cited
<1>6. Grows(cited, AtLeast(cited, 75))
  BY <1>5, AtLeastGrows, GrowsKnown
<1> QED
  BY <1>2, <1>3, <1>5, <1>6, GrowsOn, GrowsFrom DEF e

LEMMA CertificateGrows ==
    ASSUME NEW d, Known(d), NEW key, NEW id
    PROVE  Grows(d, AddTLSObservation(d, key, id))
<1> DEFINE c == [d EXCEPT !.tls = @ \cup {[key |-> key, ev |-> id]}]
           cited == Cite(c, {id})
           e == AddTLSObservation(d, key, id)
<1>1. /\ DOMAIN c = DOMAIN d /\ c.ip = d.ip /\ c.conf = d.conf /\ c.ev = d.ev /\ c.services = d.services
      /\ c.cands = d.cands /\ c.upnp = d.upnp /\ c.agent = d.agent /\ c.gateway = d.gateway /\ c.proven = d.proven
  BY DEF Known, DeviceFields
<1>2. e = d \/ e = AtLeast(cited, 75)
  BY Zenon DEF AddTLSObservation
<1> HIDE DEF c, e
<1>3. Grows(d, c)
  BY <1>1, SameGrows
<1>4. Known(c)
  BY <1>3, GrowsKnown
<1>5. Grows(c, cited)
  BY <1>4, CiteGrows
<1> HIDE DEF cited
<1>6. Grows(cited, AtLeast(cited, 75))
  BY <1>5, AtLeastGrows, GrowsKnown
<1> QED
  BY <1>2, <1>3, <1>5, <1>6, GrowsOn, GrowsFrom DEF e

LEMMA AttemptGrows ==
    ASSUME NEW d, Known(d), NEW key, NEW id
    PROVE  Grows(d, AddFailedAttempt(d, key, id))
<1> DEFINE c == [d EXCEPT !.failed = @ \cup {[key |-> key, ev |-> id]}]
           cited == Cite(c, {id})
           e == AddFailedAttempt(d, key, id)
<1>1. /\ DOMAIN c = DOMAIN d /\ c.ip = d.ip /\ c.conf = d.conf /\ c.ev = d.ev /\ c.services = d.services
      /\ c.cands = d.cands /\ c.upnp = d.upnp /\ c.agent = d.agent /\ c.gateway = d.gateway /\ c.proven = d.proven
  BY DEF Known, DeviceFields
<1>2. e = d \/ e = cited
  BY Zenon DEF AddFailedAttempt
<1> HIDE DEF c, e
<1>3. Grows(d, c)
  BY <1>1, SameGrows
<1>4. Known(c)
  BY <1>3, GrowsKnown
<1>5. Grows(c, cited)
  BY <1>4, CiteGrows
<1> HIDE DEF cited
<1> QED
  BY <1>2, <1>3, <1>5, GrowsOn, GrowsFrom DEF e

LEMMA GatewayGrows ==
    ASSUME NEW d, Known(d)
    PROVE  Grows(d, AsGateway(d))
<1> DEFINE c == AsGateway(d)
<1>1. /\ DOMAIN c = DOMAIN d /\ c.ip = d.ip /\ c.conf = d.conf /\ c.ev = d.ev /\ c.services = d.services
      /\ c.cands = d.cands /\ c.upnp = d.upnp /\ c.agent = d.agent /\ c.gateway /\ c.proven = d.proven
  BY DEF Known, DeviceFields, AsGateway
<1> HIDE DEF c
<1>2. Grows(d, c)
  BY <1>1, SameGrows
<1> QED
  BY <1>2 DEF c

LEMMA UpstreamGrows ==
    ASSUME NEW d, Known(d)
    PROVE  Grows(d, AsUpstream(d))
<1> DEFINE c == AsUpstream(d)
<1>1. /\ DOMAIN c = DOMAIN d /\ c.ip = d.ip /\ c.conf = d.conf /\ c.ev = d.ev /\ c.services = d.services
      /\ c.cands = d.cands /\ c.upnp = d.upnp /\ c.agent = d.agent /\ c.gateway = d.gateway /\ c.proven = d.proven
  BY DEF Known, DeviceFields, AsUpstream
<1> HIDE DEF c
<1>2. Grows(d, c)
  BY <1>1, SameGrows
<1> QED
  BY <1>2 DEF c

-----------------------------------------------------------------------------
(* What each loop keeps, and what it adds.                                 *)

\* The first registration of a record an allowed target is known by names the device of its address.
Traced(r, s) == \A o \in s.obs : \A e \in ToSet(r.evidence) : o.id = e.id /\ TargetAllowed(r, e.ip) => o.dev = e.ip

Recorded(r, s) == \A e \in ToSet(r.evidence) : TargetAllowed(r, e.ip) => \E o \in s.obs : o.id = e.id

KnownStore(r, s) ==
    /\ DOMAIN s = {"devices", "obs"} /\ DOMAIN s.devices \subseteq Nat /\ IsFiniteSet(DOMAIN s.devices)
    /\ \A ip \in DOMAIN s.devices : Known(s.devices[ip]) /\ s.devices[ip].ip = ip
    /\ Traced(r, s)

\* The devices of the report keep the flags the report gave them.
Flagged(r, s) == \A i \in DOMAIN r.devices : r.devices[i].ip \in DOMAIN s.devices => SameFlags(r.devices[i], s.devices[r.devices[i].ip])

ListGrew(r, a, b) ==
    /\ KnownStore(r, a) /\ KnownStore(r, b) /\ Flagged(r, a) /\ Flagged(r, b)
    /\ \A ip \in DOMAIN a.devices : ip \in DOMAIN b.devices /\ DeviceGrew(a.devices[ip], b.devices[ip])

StoreGrew(r, a, b) ==
    /\ KnownStore(r, a) /\ KnownStore(r, b) /\ a.obs \subseteq b.obs
    /\ \A ip \in DOMAIN a.devices : ip \in DOMAIN b.devices /\ Grows(a.devices[ip], b.devices[ip])

NodeFields ==
    {"ip", "role", "type", "category", "macs", "hosts", "services", "conf", "ev", "risks", "agent", "gateway", "upstream"}

Drawable(n) == DOMAIN n = NodeFields /\ n.conf \in 0..100 /\ n.role \in {"local_agent", "gateway", "router", "wired_client"}

NodesOf(ips, nodes) == DOMAIN nodes \subseteq ips /\ \A ip \in DOMAIN nodes : Drawable(nodes[ip]) /\ nodes[ip].ip = ip

NodeGrew(m, n) == m.conf <= n.conf /\ m.ev \subseteq n.ev /\ m.macs \subseteq n.macs

NodesGrew(ips, a, b) ==
    /\ NodesOf(ips, a) /\ NodesOf(ips, b)
    /\ \A ip \in DOMAIN a : ip \in DOMAIN b /\ NodeGrew(a[ip], b[ip])

LinkFields == {"id", "source", "target", "type", "relation", "medium", "conf", "ev", "physical", "inferred", "warnings"}

SoundLink(e, ips) ==
    /\ DOMAIN e = LinkFields /\ e.conf \in 0..100 /\ ~e.physical /\ Typed(e)
    /\ {e.source, e.target} \subseteq ips

LinksOf(ips, links) == \A e \in links : SoundLink(e, ips)

\* From a to b, by rounds of a loop of this kind.
Leads(kind, r, a, b) ==
    CASE kind = "device" -> Grows(a, b)
      [] kind = "list" -> ListGrew(r, a, b)
      [] kind = "store" -> StoreGrew(r, a, b)
      [] kind = "settled" -> StoreGrew(r, a, b) /\ Recorded(r, a)
      [] kind = "nodes" -> NodesGrew(r, a, b)
      [] kind = "links" -> LinksOf(r, a) /\ LinksOf(r, b)
      [] kind = "sum" -> a \in Nat /\ b \in Nat
      [] OTHER -> FALSE

LEMMA ListGrewOn == \A r, a, b, c : ListGrew(r, a, b) /\ ListGrew(r, b, c) => ListGrew(r, a, c)
<1>1. \A a, b, c : DeviceGrew(a, b) /\ DeviceGrew(b, c) => DeviceGrew(a, c)
  BY DEF DeviceGrew, Known
<1> QED
  BY <1>1 DEF ListGrew

LEMMA StoreGrewOn == \A r, a, b, c : StoreGrew(r, a, b) /\ StoreGrew(r, b, c) => StoreGrew(r, a, c)
  BY GrowsOn DEF StoreGrew

LEMMA NodesGrewOn == \A ips, a, b, c : NodesGrew(ips, a, b) /\ NodesGrew(ips, b, c) => NodesGrew(ips, a, c)
<1>1. \A a : Drawable(a) => a.conf \in Int
  BY DEF Drawable
<1>2. \A a, b, c : Drawable(a) /\ Drawable(b) /\ Drawable(c) /\ NodeGrew(a, b) /\ NodeGrew(b, c) => NodeGrew(a, c)
  BY <1>1 DEF NodeGrew
<1> QED
  BY <1>2 DEF NodesGrew, NodesOf

LEMMA LeadsOn ==
    ASSUME NEW kind, NEW r, NEW a, NEW b, NEW c, Leads(kind, r, a, b), Leads(kind, r, b, c)
    PROVE  Leads(kind, r, a, c)
  BY GrowsOn, ListGrewOn, StoreGrewOn, NodesGrewOn DEF Leads

LEMMA LeadsSelf ==
    ASSUME NEW kind, NEW r, NEW a, NEW b, Leads(kind, r, a, b)
    PROVE  Leads(kind, r, b, b)
<1>1. Grows(a, b) => Grows(b, b)
  BY GrowsFrom, GrowsKnown
<1>2. ListGrew(r, a, b) => ListGrew(r, b, b)
  <2>1. \A d : Known(d) => DeviceGrew(d, d)
    BY DEF DeviceGrew, Known
  <2> QED
    BY <2>1 DEF ListGrew, KnownStore
<1>3. StoreGrew(r, a, b) => StoreGrew(r, b, b)
  BY GrowsFrom DEF StoreGrew, KnownStore
<1>4. StoreGrew(r, a, b) /\ Recorded(r, a) => Recorded(r, b)
  BY DEF StoreGrew, Recorded
<1>5. NodesGrew(r, a, b) => NodesGrew(r, b, b)
  <2>1. \A n : Drawable(n) => NodeGrew(n, n)
    BY DEF NodeGrew, Drawable
  <2> QED
    BY <2>1 DEF NodesGrew, NodesOf
<1> QED
  BY <1>1, <1>2, <1>3, <1>4, <1>5 DEF Leads

\* From every state reached, the rounds of the loop lead on.
Rounds(kind, r, loop, p, base, S) ==
    \A a : \A x \in S : Leads(kind, r, base, a) => Leads(kind, r, a, Turn(loop, p, a, x))

\* A round for x came after base and before result.
Passed(kind, r, loop, p, base, x, result) ==
    \E a : /\ Leads(kind, r, base, a) /\ Leads(kind, r, a, Turn(loop, p, a, x))
           /\ Leads(kind, r, Turn(loop, p, a, x), result)

LEMMA LoopLeads ==
    ASSUME NEW kind, NEW r, NEW loop, NEW p, NEW base, NEW S, NEW result,
           Ran(loop, p, base, S, result), Leads(kind, r, base, base), Rounds(kind, r, loop, p, base, S)
    PROVE  Leads(kind, r, base, result) /\ \A x \in S : Passed(kind, r, loop, p, base, x, result)
<1>1. PICK q, acc : IsSlice(q) /\ ToSet(q) = S /\ Turns(acc, loop, p, base, q) /\ acc[Len(q)] = result
  BY DEF Ran
<1>2. Len(q) \in Nat /\ DOMAIN q = 1..Len(q)
  BY <1>1, SliceIs
<1>3. /\ acc[0] = base
      /\ \A k \in 0..Len(q) - 1 : acc[k + 1] = Turn(loop, p, acc[k], q[k + 1]) /\ q[k + 1] \in S
  <2>1. ASSUME NEW k \in 0..Len(q) - 1 PROVE acc[k + 1] = Turn(loop, p, acc[k], q[k + 1]) /\ q[k + 1] \in S
    <3>1. k + 1 \in 1..Len(q) /\ (k + 1) - 1 = k
      BY <1>2
    <3>2. acc[k + 1] = Turn(loop, p, acc[(k + 1) - 1], q[k + 1])
      BY <1>1, <3>1 DEF Turns
    <3>3. q[k + 1] \in S
      BY <1>1, <1>2, <3>1 DEF ToSet
    <3> QED
      BY <3>1, <3>2, <3>3
  <2> QED
    BY <1>1, <2>1 DEF Turns
<1> DEFINE To(k) == Leads(kind, r, base, acc[k])
           Next1(k) == Leads(kind, r, acc[k], acc[k + 1])
<1>4. \A k \in 0..Len(q) - 1 : To(k) => To(k + 1) /\ Next1(k)
  <2> TAKE k \in 0..Len(q) - 1
  <2> SUFFICES ASSUME To(k) PROVE To(k + 1) /\ Next1(k)
    OBVIOUS
  <2>1. Leads(kind, r, acc[k], Turn(loop, p, acc[k], q[k + 1]))
    BY <1>3 DEF Rounds
  <2>2. Next1(k)
    BY <1>3, <2>1
  <2> QED
    BY <2>2, LeadsOn
<1> HIDE DEF To, Next1
<1>5. \A k \in 0..Len(q) : To(k)
  <2> DEFINE G == {k \in Nat : To(k)}
  <2>1. 0 \in G
    BY <1>3 DEF To
  <2>2. \A k \in 0..Len(q) - 1 : k \in G => k + 1 \in G
    BY <1>2, <1>4
  <2>3. G \in SUBSET Nat
    OBVIOUS
  <2> HIDE DEF G
  <2>4. \A k \in 0..Len(q) : k \in G
    BY <1>2, <2>1, <2>2, <2>3, UpTo
  <2> QED
    BY <2>4 DEF G
<1>6. \A k \in 0..Len(q) - 1 : Next1(k)
  BY <1>2, <1>4, <1>5
<1>7. ASSUME NEW x \in S PROVE Passed(kind, r, loop, p, base, x, result)
  <2>1. PICK j \in 0..Len(q) - 1 : x = q[j + 1]
    <3>1. PICK i \in DOMAIN q : x = q[i]
      BY <1>1 DEF ToSet
    <3>2. i - 1 \in 0..Len(q) - 1 /\ (i - 1) + 1 = i
      BY <1>2
    <3> QED
      BY <3>1, <3>2
  <2>2. Leads(kind, r, base, acc[j]) /\ Leads(kind, r, acc[j], acc[j + 1]) /\ acc[j + 1] = Turn(loop, p, acc[j], x)
    BY <1>2, <1>3, <1>5, <1>6, <2>1 DEF To, Next1
  <2> DEFINE G == {k \in Nat : k >= j + 1 => Leads(kind, r, acc[j + 1], acc[k])}
  <2>3. 0 \in G
    BY <1>2
  <2>4. ASSUME NEW k \in 0..Len(q) - 1, k \in G PROVE k + 1 \in G
    <3>0. k + 1 \in Nat
      BY <1>2
    <3>1. CASE k + 1 < j + 1
      BY <3>0, <3>1
    <3>2. CASE k + 1 = j + 1
      BY <3>0, <2>2, <3>2, LeadsSelf
    <3>3. CASE k >= j + 1
      <4>1. Leads(kind, r, acc[j + 1], acc[k]) /\ Leads(kind, r, acc[k], acc[k + 1])
        BY <1>6, <2>4, <3>3 DEF Next1
      <4>2. Leads(kind, r, acc[j + 1], acc[k + 1])
        BY <4>1, LeadsOn
      <4> QED
        BY <3>0, <4>2
    <3> QED
      BY <1>2, <3>1, <3>2, <3>3
  <2>5. G \in SUBSET Nat
    OBVIOUS
  <2> HIDE DEF G
  <2>6. \A k \in 0..Len(q) : k \in G
    BY <1>2, <2>3, <2>4, <2>5, UpTo
  <2>7. Leads(kind, r, acc[j + 1], acc[Len(q)])
    BY <1>2, <2>6 DEF G
  <2> QED
    BY <1>1, <2>2, <2>7 DEF Passed
<1>8. Leads(kind, r, base, result)
  BY <1>1, <1>2, <1>5 DEF To
<1> QED
  BY <1>7, <1>8

-----------------------------------------------------------------------------
(* The loops over what is known of one device.                             *)

LEMMA ServicesGrow ==
    ASSUME NEW d, Known(d), NEW services, IsFiniteSet(services), NEW conf
    PROVE  Grows(d, AddServices(d, services, conf)) /\ \A s \in services : s.port \in DOMAIN AddServices(d, services, conf).services
<1> DEFINE e == AddServices(d, services, conf)
<1>1. Ran("services", conf, d, services, e)
  BY ServicesRan
<1>2. \A a, x : Turn("services", conf, a, x) = AddService(a, x.port, conf, x.ev)
  BY DEF Turn
<1>3. \A a, b : Leads("device", 0, a, b) <=> Grows(a, b)
  BY DEF Leads
<1> HIDE DEF e
<1>4. Leads("device", 0, d, d)
  BY <1>3, GrowsFrom
<1>5. \A a, x : Known(a) => Grows(a, AddService(a, x.port, conf, x.ev)) /\ x.port \in DOMAIN AddService(a, x.port, conf, x.ev).services
  BY ServiceGrows
<1>6. Rounds("device", 0, "services", conf, d, services)
  BY <1>2, <1>3, <1>5, GrowsKnown DEF Rounds
<1>7. Leads("device", 0, d, e) /\ \A x \in services : Passed("device", 0, "services", conf, d, x, e)
  BY <1>1, <1>4, <1>6, LoopLeads
<1>8. ASSUME NEW x \in services PROVE x.port \in DOMAIN e.services
  <2>1. PICK a : Grows(d, a) /\ Grows(AddService(a, x.port, conf, x.ev), e)
    BY <1>2, <1>3, <1>7 DEF Passed
  <2>2. x.port \in DOMAIN AddService(a, x.port, conf, x.ev).services
    BY <1>5, <2>1, GrowsKnown
  <2>3. DOMAIN AddService(a, x.port, conf, x.ev).services \subseteq DOMAIN e.services
    BY <2>1, GrowsKnown
  <2> QED
    BY <2>2, <2>3
<1> QED
  BY <1>3, <1>7, <1>8 DEF e

LEMMA PagesGrow ==
    ASSUME NEW d, Known(d), NEW pages, IsFiniteSet(pages)
    PROVE  Grows(d, AddPages(d, pages))
<1> DEFINE e == AddPages(d, pages)
<1>1. Ran("pages", 0, d, pages, e)
  BY PagesRan
<1>2. \A a, x : Turn("pages", 0, a, x) = AddHTTPObservation(a, x.key, x.ev)
  BY DEF Turn
<1>3. \A a, b : Leads("device", 0, a, b) <=> Grows(a, b)
  BY DEF Leads
<1> HIDE DEF e
<1>4. Leads("device", 0, d, d)
  BY <1>3, GrowsFrom
<1>5. \A a, x : Known(a) => Grows(a, AddHTTPObservation(a, x.key, x.ev))
  BY PageGrows
<1>6. Rounds("device", 0, "pages", 0, d, pages)
  BY <1>2, <1>3, <1>5, GrowsKnown DEF Rounds
<1>7. Leads("device", 0, d, e)
  BY <1>1, <1>4, <1>6, LoopLeads
<1> QED
  BY <1>3, <1>7 DEF e

LEMMA CertificatesGrow ==
    ASSUME NEW d, Known(d), NEW certs, IsFiniteSet(certs)
    PROVE  Grows(d, AddCertificates(d, certs))
<1> DEFINE e == AddCertificates(d, certs)
<1>1. Ran("certs", 0, d, certs, e)
  BY CertificatesRan
<1>2. \A a, x : Turn("certs", 0, a, x) = AddTLSObservation(a, x.key, x.ev)
  BY DEF Turn
<1>3. \A a, b : Leads("device", 0, a, b) <=> Grows(a, b)
  BY DEF Leads
<1> HIDE DEF e
<1>4. Leads("device", 0, d, d)
  BY <1>3, GrowsFrom
<1>5. \A a, x : Known(a) => Grows(a, AddTLSObservation(a, x.key, x.ev))
  BY CertificateGrows
<1>6. Rounds("device", 0, "certs", 0, d, certs)
  BY <1>2, <1>3, <1>5, GrowsKnown DEF Rounds
<1>7. Leads("device", 0, d, e)
  BY <1>1, <1>4, <1>6, LoopLeads
<1> QED
  BY <1>3, <1>7 DEF e

LEMMA FailuresGrow ==
    ASSUME NEW d, Known(d), NEW failures, IsFiniteSet(failures)
    PROVE  Grows(d, AddFailures(d, failures))
<1> DEFINE e == AddFailures(d, failures)
<1>1. Ran("failures", 0, d, failures, e)
  BY FailuresRan
<1>2. \A a, x : Turn("failures", 0, a, x) = AddFailedAttempt(a, x.key, x.ev)
  BY DEF Turn
<1>3. \A a, b : Leads("device", 0, a, b) <=> Grows(a, b)
  BY DEF Leads
<1> HIDE DEF e
<1>4. Leads("device", 0, d, d)
  BY <1>3, GrowsFrom
<1>5. \A a, x : Known(a) => Grows(a, AddFailedAttempt(a, x.key, x.ev))
  BY AttemptGrows
<1>6. Rounds("device", 0, "failures", 0, d, failures)
  BY <1>2, <1>3, <1>5, GrowsKnown DEF Rounds
<1>7. Leads("device", 0, d, e)
  BY <1>1, <1>4, <1>6, LoopLeads
<1> QED
  BY <1>3, <1>7 DEF e

LEMMA CandidatesGrow ==
    ASSUME NEW d, Known(d), NEW rules, IsFiniteSet(rules), \A r \in rules : r[3] \subseteq d.ev
    PROVE  Grows(d, MergeCandidates(d, rules))
<1> DEFINE e == MergeCandidates(d, rules)
<1>1. Ran("candidates", 0, d, rules, e)
  BY CandidatesRan
<1>2. \A a, x : Turn("candidates", 0, a, x) = MergeCandidate(a, x[1], x[2], x[3])
  BY DEF Turn
<1>3. \A a, b : Leads("device", 0, a, b) <=> Grows(a, b)
  BY DEF Leads
<1> HIDE DEF e
<1>4. Leads("device", 0, d, d)
  BY <1>3, GrowsFrom
<1>5. \A a, x : Known(a) /\ x[3] \subseteq a.ev => Grows(a, MergeCandidate(a, x[1], x[2], x[3]))
  BY CandidateGrows
<1>6. Rounds("device", 0, "candidates", 0, d, rules)
  <2> SUFFICES ASSUME NEW a, NEW x \in rules, Grows(d, a) PROVE Grows(a, MergeCandidate(a, x[1], x[2], x[3]))
    BY <1>2, <1>3 DEF Rounds
  <2>1. Known(a) /\ d.ev \subseteq a.ev
    BY GrowsKnown
  <2>2. x[3] \subseteq a.ev
    BY <2>1
  <2> QED
    BY <1>5, <2>1, <2>2
<1>7. Leads("device", 0, d, e)
  BY <1>1, <1>4, <1>6, LoopLeads
<1> QED
  BY <1>3, <1>7 DEF e

-----------------------------------------------------------------------------
(* What the upstream targets leave on record, and how sure their class is. *)

UpRecord(e, ip) == HasId(e) /\ e.ip = ip /\ IsFiniteSet(e.ports)

LEMMA SafePortsFinite == \A ports : IsFiniteSet(ports \cap SafeUpstreamPorts)
<1>1. \A ports : ports \cap SafeUpstreamPorts \in SUBSET Nat /\ \A p \in ports \cap SafeUpstreamPorts : p <= 8443
  BY DEF SafeUpstreamPorts
<1> QED
  BY <1>1, FS_BoundedSetOfNaturals

LEMMA UpstreamRecords ==
    ASSUME NEW ip, NEW answer
    PROVE  LET ev == EvidenceOf(ip, answer)
           IN  IsSlice(ev) /\ \A i \in DOMAIN ev : ev[i].ip = ip /\ IsFiniteSet(ev[i].ports) /\ \E kind : ev[i].id = EvID(kind, ip, i)
<1> DEFINE open == answer.ports \cap SafeUpstreamPorts
           Each(kind, ports) == [i \in DOMAIN ports |-> [Fact(kind, ip) EXCEPT !.port = ports[i]]]
           web == InOrder(open \cap DOMAIN answer.pages, <<80, 8080, 443, 8443>>)
           tls == InOrder(open \cap DOMAIN answer.certs, <<443, 8443>>)
           ping == [Fact("icmp_echo", ip) EXCEPT !.failed = ~answer.icmp]
           tcp == [Fact("tcp_connect", ip) EXCEPT !.ports = open]
           a == <<ping>>
           b == IF open = {} THEN <<>> ELSE <<tcp>>
           c == Each("http_fingerprint", web)
           d == Each("tls_fingerprint", tls)
           facts == ((a \o b) \o c) \o d
           Fine(s) == IsSlice(s) /\ \A e \in ToSet(s) : UpRecord(e, ip)
           ev == EvidenceOf(ip, answer)
<1>1. ev = [i \in DOMAIN facts |-> [facts[i] EXCEPT !.id = EvID(facts[i].kind, ip, i)]]
  <2> HIDE DEF open
  <2> QED
    BY DEF EvidenceOf, open
<1>2. IsFiniteSet(open)
  BY SafePortsFinite
<1>3. ASSUME NEW kind, NEW f, f = Fact(kind, ip)
      PROVE  \A v : UpRecord([f EXCEPT !.port = v], ip) /\ UpRecord([f EXCEPT !.failed = v], ip) /\ UpRecord([f EXCEPT !.ports = open], ip)
  <2>1. {"id", "kind", "ip", "mac", "host", "ports", "port"} \subseteq DOMAIN f /\ f.kind = kind /\ f.ip = ip /\ IsFiniteSet(f.ports)
    BY <1>3, FactIs
  <2> HIDE DEF open
  <2> QED
    BY <1>2, <2>1 DEF UpRecord, HasId
<1>4. IsSlice(web) /\ IsSlice(tls)
  <2> DEFINE webPorts == <<80, 8080, 443, 8443>>
             tlsPorts == <<443, 8443>>
  <2>1. webPorts \in Seq(Nat) /\ tlsPorts \in Seq(Nat)
    OBVIOUS
  <2> HIDE DEF webPorts, tlsPorts
  <2>2. \A S : Those(webPorts, S) \in Seq(Nat) /\ Those(tlsPorts, S) \in Seq(Nat)
    BY <2>1, ThoseIn
  <2>3. web = InOrder(open \cap DOMAIN answer.pages, webPorts) /\ tls = InOrder(open \cap DOMAIN answer.certs, tlsPorts)
    BY DEF webPorts, tlsPorts
  <2> HIDE DEF web, tls, webPorts, tlsPorts
  <2>4. web \in Seq(Nat) /\ tls \in Seq(Nat)
    BY <2>2, <2>3 DEF InOrder
  <2> QED
    BY <2>4, SliceOf
<1> HIDE DEF web, tls, open
<1>5. ASSUME NEW kind, NEW ports, IsSlice(ports) PROVE Fine(Each(kind, ports))
  <2> DEFINE s == Each(kind, ports)
             fact == Fact(kind, ip)
  <2>1. Len(ports) \in Nat /\ DOMAIN ports = 1..Len(ports)
    BY <1>5, SliceIs
  <2>2. \A v : UpRecord([fact EXCEPT !.port = v], ip)
    BY <1>3
  <2> HIDE DEF fact
  <2>3. s = [i \in 1..Len(ports) |-> [fact EXCEPT !.port = ports[i]]]
    BY <2>1 DEF fact
  <2> HIDE DEF s
  <2>4. s \in Seq({s[i] : i \in 1..Len(ports)}) /\ DOMAIN s = 1..Len(ports) /\ \A i \in 1..Len(ports) : UpRecord(s[i], ip)
    BY <2>1, <2>2, <2>3
  <2>5. IsSlice(s)
    BY <2>4, SliceOf
  <2>6. Fine(s)
    BY <2>4, <2>5 DEF ToSet
  <2> QED
    BY <2>6 DEF s
<1>6. \A e : UpRecord(e, ip) => Fine(<<e>>) /\ Fine(<<>>)
  BY DEF IsSlice, ToSet
<1>7. UpRecord(ping, ip) /\ UpRecord(tcp, ip)
  <2>1. \A f : f = Fact("icmp_echo", ip) => \A v : UpRecord([f EXCEPT !.failed = v], ip)
    BY <1>3
  <2>2. \A f : f = Fact("tcp_connect", ip) => UpRecord([f EXCEPT !.ports = open], ip)
    BY <1>3
  <2> QED
    BY <2>1, <2>2, Zenon
<1> HIDE DEF Fine, Each, ping, tcp
<1>8. Fine(a) /\ Fine(b) /\ Fine(c) /\ Fine(d)
  BY <1>4, <1>5, <1>6, <1>7
<1> HIDE DEF a, b, c, d
<1>9. \A s, t : Fine(s) /\ Fine(t) => Fine(s \o t)
  BY SliceJoin DEF Fine
<1>10. Fine(facts)
  BY <1>8, <1>9, Zenon
<1> HIDE DEF facts, ev
<1>11. Len(facts) \in Nat /\ DOMAIN facts = 1..Len(facts) /\ \A i \in DOMAIN facts : UpRecord(facts[i], ip)
  BY <1>10, SliceIs DEF Fine, ToSet
<1>12. IsSlice(ev) /\ DOMAIN ev = DOMAIN facts
  <2>1. ev \in Seq({ev[i] : i \in 1..Len(facts)}) /\ DOMAIN ev = DOMAIN facts
    BY <1>1, <1>11
  <2> QED
    BY <2>1, SliceOf
<1>13. ASSUME NEW i \in DOMAIN ev PROVE ev[i].ip = ip /\ IsFiniteSet(ev[i].ports) /\ \E kind : ev[i].id = EvID(kind, ip, i)
  <2> DEFINE x == facts[i]
             y == EvID(facts[i].kind, ip, i)
  <2>1. ev[i] = [x EXCEPT !.id = y]
    BY <1>1, <1>12
  <2>2. UpRecord(x, ip)
    BY <1>11, <1>12
  <2> HIDE DEF x, y
  <2>3. ev[i].ip = ip /\ IsFiniteSet(ev[i].ports) /\ ev[i].id = y
    BY <2>1, <2>2 DEF UpRecord, HasId
  <2> QED
    BY <2>3 DEF y
<1> QED
  BY <1>12, <1>13 DEF ev

LEMMA ElevenFinite == \A a, b, c, d, e, g, h, i, j, k, l : IsFiniteSet({a, b, c, d, e, g, h, i, j, k, l})
<1> TAKE a, b, c, d, e, g, h, i, j, k, l
<1>0. \A S, x : IsFiniteSet(S) => IsFiniteSet(S \cup {x})
  BY FS_AddElement
<1> DEFINE s1 == {} \cup {a}
           s2 == s1 \cup {b}
           s3 == s2 \cup {c}
           s4 == s3 \cup {d}
           s5 == s4 \cup {e}
           s6 == s5 \cup {g}
           s7 == s6 \cup {h}
           s8 == s7 \cup {i}
           s9 == s8 \cup {j}
           s10 == s9 \cup {k}
           s11 == s10 \cup {l}
           T == {a, b, c, d, e, g, h, i, j, k, l}
<1>1. T = s11
  OBVIOUS
<1> HIDE DEF T, s11
<1>2. IsFiniteSet(s1) /\ (IsFiniteSet(s10) => IsFiniteSet(s11))
  BY <1>0, FS_EmptySet, Zenon DEF s11
<1> HIDE DEF s10
<1>3. (IsFiniteSet(s8) => IsFiniteSet(s9)) /\ (IsFiniteSet(s9) => IsFiniteSet(s10))
  BY <1>0, Zenon DEF s10
<1> HIDE DEF s9, s8
<1>4. (IsFiniteSet(s6) => IsFiniteSet(s7)) /\ (IsFiniteSet(s7) => IsFiniteSet(s8))
  BY <1>0, Zenon DEF s8
<1> HIDE DEF s7, s6
<1>5. (IsFiniteSet(s4) => IsFiniteSet(s5)) /\ (IsFiniteSet(s5) => IsFiniteSet(s6))
  BY <1>0, Zenon DEF s6
<1> HIDE DEF s5, s4
<1>6. (IsFiniteSet(s2) => IsFiniteSet(s3)) /\ (IsFiniteSet(s3) => IsFiniteSet(s4))
  BY <1>0, Zenon DEF s4
<1> HIDE DEF s3, s2
<1>7. IsFiniteSet(s1) => IsFiniteSet(s2)
  BY <1>0, Zenon DEF s2
<1> HIDE DEF s1
<1>8. IsFiniteSet(T)
  BY <1>1, <1>2, <1>3, <1>4, <1>5, <1>6, <1>7, Zenon
<1> QED
  BY <1>8 DEF T

LEMMA ClassConf ==
    ASSUME NEW f
    PROVE  Classify(f).conf \in 0..100
<1> DEFINE signals == Signals(f)
           sum == Points(signals)
           conf == IF sum > 100 THEN 100 ELSE sum
           tags == DeriveTags(f, conf)
<1>1. Classify(f) = [role |-> tags.role, conf |-> conf, tags |-> tags.tags, signals |-> {s[1] : s \in Signals(f)}, warnings |-> tags.warnings]
  BY Zenon DEF Classify
<1>2. \A s \in signals : s[2] \in Nat
  BY DEF Signals
<1>3. IsFiniteSet(signals)
  <2> DEFINE all == {<<"reachable_by_icmp", 18, f.icmp>>, <<"reachable_by_tcp", 12, f.tcp>>, <<"visible_in_traceroute", 15, f.target.inGatewayChain>>,
            <<"private_upstream_hop", 15, UpstreamHop(f)>>, <<"has_http_admin_page", 12, f.http.admin>>, <<"router_like_http", 18, f.http.routerLike>>,
            <<"upnp_root_device", 15, f.target.hasUPnPRoot>>, <<"gateway_router_mac_oui", 12, f.target.macVendor \in {"isp", "router"}>>,
            <<"dns_service", 10, 53 \in f.open>>, <<"tr069_cwmp_port", 12, 7547 \in f.open>>, <<"open_services", 6, f.open # {}>>}
  <2>2. IsFiniteSet(all)
    <3> DEFINE t1 == <<"reachable_by_icmp", 18, f.icmp>>
               t2 == <<"reachable_by_tcp", 12, f.tcp>>
               t3 == <<"visible_in_traceroute", 15, f.target.inGatewayChain>>
               t4 == <<"private_upstream_hop", 15, UpstreamHop(f)>>
               t5 == <<"has_http_admin_page", 12, f.http.admin>>
               t6 == <<"router_like_http", 18, f.http.routerLike>>
               t7 == <<"upnp_root_device", 15, f.target.hasUPnPRoot>>
               t8 == <<"gateway_router_mac_oui", 12, f.target.macVendor \in {"isp", "router"}>>
               t9 == <<"dns_service", 10, 53 \in f.open>>
               t10 == <<"tr069_cwmp_port", 12, 7547 \in f.open>>
               t11 == <<"open_services", 6, f.open # {}>>
    <3>1. all = {t1, t2, t3, t4, t5, t6, t7, t8, t9, t10, t11}
      BY Zenon
    <3> HIDE DEF all, t1, t2, t3, t4, t5, t6, t7, t8, t9, t10, t11
    <3> QED
      BY <3>1, ElevenFinite
  <2>3. signals \subseteq all
    BY DEF Signals
  <2> HIDE DEF all, signals
  <2> QED
    BY <2>2, <2>3, FS_Subset
<1> HIDE DEF signals
<1>4. Ran("points", 0, 0, signals, sum)
  BY <1>3, PointsRan
<1> HIDE DEF sum
<1>5. \A a, x : Turn("points", 0, a, x) = a + x[2]
  BY DEF Turn
<1>6. \A a, b : Leads("sum", 0, a, b) <=> a \in Nat /\ b \in Nat
  BY DEF Leads
<1>7. Rounds("sum", 0, "points", 0, 0, signals)
  BY <1>2, <1>5, <1>6 DEF Rounds
<1>8. Leads("sum", 0, 0, 0)
  BY <1>6
<1>9. Leads("sum", 0, 0, sum)
  BY <1>4, <1>7, <1>8, LoopLeads
<1>10. conf \in 0..100
  BY <1>6, <1>9
<1> HIDE DEF conf, tags
<1> QED
  BY <1>1, <1>10

-----------------------------------------------------------------------------
(* What enriching adds to the report.                                      *)

SoundGateway(g) ==
    g.ip \in Nat \cup {None} /\ g.conf \in Nat /\ IsFiniteSet(g.ports) /\ IsFiniteSet(g.http) /\ IsFiniteSet(g.tls) /\ IsFiniteSet(g.failed)

SoundContext(c) ==
    /\ IsSlice(c.hops) /\ \A h \in ToSet(c.hops) : h.ip \in Nat /\ IsPrivateIP(h.ip)
    /\ c.conf \in 0..100 /\ c.gateway \in Nat \cup {None} /\ c.default \in Nat \cup {None}
    /\ IsFiniteSet(c.devices) /\ IsFiniteSet(c.cpes) /\ \A g \in c.devices \cup c.cpes : SoundGateway(g)

LEMMA PrivateNumber == \A ip : IsPrivateIP(ip) => ip \in Nat
<1> SUFFICES ASSUME NEW ip, IsPrivateIP(ip) PROVE ip \in Nat
  OBVIOUS
<1>1. PICK b \in PrivateBlocks : ip \in b.base .. (b.base + 2 ^ (Bits - b.len) - 1)
  BY DEF IsPrivateIP, BlocksOf
<1>2. b.base \in Nat /\ b.len \in 0 .. Bits /\ Bits \in Nat
  BY BlocksAssumption, LimitAssumption
<1>3. Bits - b.len \in Nat
  BY <1>2
<1>4. 2 ^ (Bits - b.len) \in Nat
  BY <1>3, TwoPositive
<1> QED
  BY <1>1, <1>2, <1>4

LEMMA ContextsSound ==
    ASSUME NEW c \in Contexts \cup {NoContext}
    PROVE  SoundContext(c)
<1>1. CASE c \in Contexts
  <2>1. /\ c.hops \in Seq(ToSet(c.hops)) /\ \A h \in ToSet(c.hops) : IsPrivateIP(h.ip)
        /\ c.conf \in 0..100 /\ {c.gateway, c.default} \subseteq Nat \cup {None}
        /\ IsFiniteSet(c.devices) /\ IsFiniteSet(c.cpes)
        /\ \A g \in c.devices \cup c.cpes :
             /\ g.ip \in Nat \cup {None} /\ g.conf \in Nat
             /\ IsFiniteSet(g.ports) /\ IsFiniteSet(g.http \cup g.tls \cup g.failed)
    BY <1>1, ContextsAssumption
  <2>2. \A S, T : T \subseteq S /\ IsFiniteSet(S) => IsFiniteSet(T)
    BY FS_Subset
  <2>3. \A g : IsFiniteSet(g.http \cup g.tls \cup g.failed) => IsFiniteSet(g.http) /\ IsFiniteSet(g.tls) /\ IsFiniteSet(g.failed)
    <3> TAKE g
    <3>1. g.http \subseteq g.http \cup g.tls \cup g.failed /\ g.tls \subseteq g.http \cup g.tls \cup g.failed /\ g.failed \subseteq g.http \cup g.tls \cup g.failed
      OBVIOUS
    <3> QED
      BY <2>2, <3>1
  <2>4. \A g \in c.devices \cup c.cpes : SoundGateway(g)
    BY <2>1, <2>3 DEF SoundGateway
  <2> QED
    BY <2>1, <2>4, PrivateNumber DEF SoundContext, IsSlice
<1>2. CASE c = NoContext
  <2>1. c.hops = <<>> /\ c.conf = 0 /\ c.gateway = None /\ c.default = None /\ c.devices = {} /\ c.cpes = {}
    BY <1>2 DEF NoContext
  <2>2. IsSlice(c.hops) /\ ToSet(c.hops) = {}
    BY <2>1 DEF IsSlice, ToSet
  <2>3. IsFiniteSet(c.devices) /\ IsFiniteSet(c.cpes)
    BY <2>1, FS_EmptySet
  <2> QED
    BY <2>1, <2>2, <2>3 DEF SoundContext
<1> QED
  BY <1>1, <1>2

\* What an upstream target left on record.
UpstreamLog(ev, ip) ==
    IsSlice(ev) /\ \A i \in DOMAIN ev : ev[i].ip = ip /\ IsFiniteSet(ev[i].ports) /\ \E kind : ev[i].id = EvID(kind, ip, i)

\* The results of the upstream enrichment.
SoundResults(found) ==
    /\ IsFiniteSet(DOMAIN found) /\ DOMAIN found \subseteq Nat
    /\ \A ip \in DOMAIN found : found[ip].class.conf \in 0..100 /\ UpstreamLog(found[ip].evidence, ip)

LEMMA MentionedFinite ==
    ASSUME NEW r, r.gateway \in Nat \cup {None}, SoundEvidence(r.evidence), NEW c, SoundContext(c)
    PROVE  IsFiniteSet({t.ip : t \in Mentioned(r, c)}) /\ {t.ip : t \in Mentioned(r, c)} \subseteq Nat
<1> DEFINE three == <<r.gateway, c.gateway, c.default>>
           defaultGW == FirstKnown(three)
           ssdp == {e.ip : e \in {x \in ToSet(r.evidence) : x.kind = "ssdp"}}
           hops == {c.hops[i].ip : i \in DOMAIN c.hops}
           gates == {d.ip : d \in c.devices}
           ips == (hops \cup gates \cup {defaultGW} \cup ssdp) \ {None}
           told == {Target(ip, c, defaultGW, ssdp) : ip \in ips}
<1>1. Mentioned(r, c) = told
  BY Zenon DEF Mentioned
<1>2. defaultGW \in Nat \cup {None}
  <2> DEFINE known == {i \in DOMAIN three : three[i] # None}
  <2>1. DOMAIN three = 1..3 /\ \A i \in 1..3 : three[i] \in Nat \cup {None}
    BY DEF SoundContext
  <2>2. defaultGW = IF known = {} THEN None ELSE three[Min(known)]
    BY Zenon DEF FirstKnown
  <2> HIDE DEF three, defaultGW
  <2>3. known \in SUBSET Nat /\ known \subseteq 1..3
    BY <2>1
  <2> HIDE DEF known
  <2>4. known # {} => Min(known) \in known
    BY <2>3, MinIn
  <2> QED
    BY <2>1, <2>2, <2>3, <2>4
<1> HIDE DEF defaultGW
<1>3. hops \subseteq Nat /\ IsFiniteSet(hops)
  <2>1. Len(c.hops) \in Nat /\ DOMAIN c.hops = 1..Len(c.hops)
    BY SliceIs DEF SoundContext
  <2>2. \A i \in 1..Len(c.hops) : c.hops[i].ip \in Nat
    BY <2>1 DEF SoundContext, ToSet
  <2> DEFINE f == [i \in 1..Len(c.hops) |-> c.hops[i].ip]
  <2>3. hops = {f[i] : i \in 1..Len(c.hops)}
    BY <2>1
  <2> HIDE DEF f
  <2>4. IsFiniteSet(1..Len(c.hops))
    BY <2>1, FS_Interval
  <2>5. IsFiniteSet({f[i] : i \in 1..Len(c.hops)})
    BY <2>4, ImageFinite
  <2> QED
    BY <2>1, <2>2, <2>3, <2>5
<1>4. gates \subseteq Nat \cup {None} /\ IsFiniteSet(gates)
  <2> DEFINE f == [d \in c.devices |-> d.ip]
  <2>1. gates = {f[d] : d \in c.devices}
    OBVIOUS
  <2> HIDE DEF f
  <2>2. IsFiniteSet({f[d] : d \in c.devices})
    BY ImageFinite DEF SoundContext
  <2>3. \A d \in c.devices : d.ip \in Nat \cup {None}
    BY DEF SoundContext, SoundGateway
  <2> QED
    BY <2>1, <2>2, <2>3
<1>5. ssdp \subseteq Nat \cup {None} /\ IsFiniteSet(ssdp)
  <2>1. Len(r.evidence) \in Nat /\ DOMAIN r.evidence = 1..Len(r.evidence)
    BY SliceIs DEF SoundEvidence
  <2> DEFINE f == [i \in 1..Len(r.evidence) |-> r.evidence[i].ip]
  <2>2. ssdp \subseteq {f[i] : i \in 1..Len(r.evidence)}
    BY <2>1 DEF ToSet
  <2> HIDE DEF f
  <2>4. IsFiniteSet(1..Len(r.evidence))
    BY <2>1, FS_Interval
  <2>5. IsFiniteSet({f[i] : i \in 1..Len(r.evidence)})
    BY <2>4, ImageFinite
  <2>6. \A e \in ToSet(r.evidence) : e.ip \in Nat \cup {None}
    BY DEF SoundEvidence
  <2>7. ssdp \subseteq Nat \cup {None}
    BY <2>6
  <2> QED
    BY <2>2, <2>5, <2>7, FS_Subset
<1>6. {t.ip : t \in told} = ips
  <2>1. \A ip : Target(ip, c, defaultGW, ssdp).ip = ip
    BY DEF Target
  <2> HIDE DEF ips, ssdp
  <2> QED
    BY <2>1
<1> HIDE DEF hops, gates, ssdp, told
<1>7. IsFiniteSet(ips)
  <2>1. IsFiniteSet({defaultGW})
    BY FS_Singleton
  <2>2. \A S, T : IsFiniteSet(S) /\ IsFiniteSet(T) => IsFiniteSet(S \cup T)
    BY FS_Union
  <2>3. IsFiniteSet(hops \cup gates \cup {defaultGW} \cup ssdp)
    BY <1>3, <1>4, <1>5, <2>1, <2>2
  <2> QED
    BY <2>3, FS_Subset
<1>8. ips \subseteq Nat
  BY <1>2, <1>3, <1>4, <1>5
<1> QED
  BY <1>1, <1>6, <1>7, <1>8

LEMMA Enriching ==
    ASSUME NEW r, SoundReport(r), NEW c, SoundContext(c), NEW answers
    PROVE  SoundResults(EnrichReport(r, c, answers))
<1> DEFINE targets == CollectTargets(r, c)
           TargetOf(ip) == CHOOSE t \in targets : t.ip = ip
           ips == {t.ip : t \in targets}
           found == [ip \in ips |-> EnrichOne(TargetOf(ip), r.scope.net, answers[ip])]
<1>1. EnrichReport(r, c, answers) = found
  BY Zenon DEF EnrichReport
<1>2. targets \subseteq Mentioned(r, c)
  BY DEF CollectTargets
<1>3. IsFiniteSet(ips) /\ ips \subseteq Nat
  <2>1. r.gateway \in Nat \cup {None} /\ SoundEvidence(r.evidence)
    BY DEF SoundReport
  <2>2. IsFiniteSet({t.ip : t \in Mentioned(r, c)}) /\ {t.ip : t \in Mentioned(r, c)} \subseteq Nat
    BY <2>1, MentionedFinite
  <2> HIDE DEF targets
  <2>3. ips \subseteq {t.ip : t \in Mentioned(r, c)}
    BY <1>2
  <2> QED
    BY <2>2, <2>3, FS_Subset
<1> HIDE DEF targets
<1>4. ASSUME NEW ip \in ips PROVE found[ip].class.conf \in 0..100 /\ UpstreamLog(found[ip].evidence, ip)
  <2> DEFINE t == TargetOf(ip)
             answer == answers[ip]
             net == r.scope.net
  <2>1. t.ip = ip
    OBVIOUS
  <2>2. found[ip] = EnrichOne(t, net, answer)
    OBVIOUS
  <2> HIDE DEF t, answer, net, found
  <2> DEFINE f == Facts(t, NetContains(net, t.ip), answer)
             one == EnrichOne(t, net, answer)
  <2>3. one.class = Classify(f) /\ one.evidence = EvidenceOf(t.ip, answer)
    BY DEF EnrichOne
  <2> HIDE DEF f, one
  <2>4. Classify(f).conf \in 0..100
    BY ClassConf
  <2>5. UpstreamLog(EvidenceOf(ip, answer), ip)
    BY UpstreamRecords DEF UpstreamLog
  <2> QED
    BY <2>1, <2>2, <2>3, <2>4, <2>5 DEF one
<1>5. DOMAIN found = ips
  OBVIOUS
<1> HIDE DEF found, ips
<1>6. SoundResults(found)
  BY <1>3, <1>4, <1>5 DEF SoundResults
<1> QED
  BY <1>1, <1>6

LEMMA JoinDistinct ==
    ASSUME NEW s, IsSlice(s), DistinctIds(s), NEW t, IsSlice(t), DistinctIds(t), Ids(s) \cap Ids(t) = {}
    PROVE  DistinctIds(s \o t)
<1> DEFINE u == s \o t
           m == Len(s)
           n == Len(t)
<1>1. m \in Nat /\ n \in Nat /\ DOMAIN s = 1..m /\ DOMAIN t = 1..n
  BY SliceIs
<1>2. DOMAIN u = 1..m + n /\ \A i \in 1..m + n : u[i] = IF i <= m THEN s[i] ELSE t[i - m]
  BY SliceJoin
<1>3. \A i \in 1..m, j \in 1..n : s[i].id # t[j].id
  BY <1>1 DEF Ids, ToSet
<1> HIDE DEF u, m, n
<1>4. ASSUME NEW i \in 1..m + n, NEW j \in 1..m + n, u[i].id = u[j].id PROVE i = j
  <2>1. CASE i <= m /\ j <= m
    <3>1. i \in DOMAIN s /\ j \in DOMAIN s
      BY <1>1, <2>1
    <3> QED
      BY <1>2, <1>4, <2>1, <3>1 DEF DistinctIds
  <2>2. CASE i > m /\ j > m
    <3>1. i - m \in DOMAIN t /\ j - m \in DOMAIN t
      BY <1>1, <2>2
    <3>2. u[i] = t[i - m] /\ u[j] = t[j - m]
      BY <1>1, <1>2, <2>2
    <3>3. i - m = j - m
      BY <1>4, <3>1, <3>2 DEF DistinctIds
    <3> QED
      BY <1>1, <3>3
  <2>3. CASE i <= m /\ j > m
    <3>1. i \in 1..m /\ j - m \in 1..n /\ u[i] = s[i] /\ u[j] = t[j - m]
      BY <1>1, <1>2, <2>3
    <3> QED
      BY <1>3, <1>4, <3>1
  <2>4. CASE i > m /\ j <= m
    <3>1. j \in 1..m /\ i - m \in 1..n /\ u[j] = s[j] /\ u[i] = t[i - m]
      BY <1>1, <1>2, <2>4
    <3> QED
      BY <1>3, <1>4, <3>1
  <2> QED
    BY <1>1, <2>1, <2>2, <2>3, <2>4
<1> QED
  BY <1>2, <1>4 DEF DistinctIds, u

\* The id of a record of an upstream target tells its number and its target.
LEMMA UpstreamIds ==
    /\ \A k, l, a, b, m, n : EvID(k, a, m) = EvID(l, b, n) => a = b /\ m = n
    /\ \A k, a, m, n : EvID(k, a, m) # EvNo(n)
<1>1. \A k, l, a, b, m, n : EvID(k, a, m) = EvID(l, b, n) => a = b /\ m = n
  BY DEF EvID
<1>2. ASSUME NEW k, NEW a, NEW m, NEW n, EvID(k, a, m) = EvNo(n) PROVE FALSE
  <2>1. EvID(k, a, m)[1] = "up"
    BY DEF EvID
  <2>2. EvNo(n)[1] = "ev"
    BY Zenon DEF EvNo
  <2>3. "up" = "ev"
    BY <1>2, <2>1, <2>2, Zenon
  <2> QED
    BY <2>3
<1> QED
  BY <1>1, <1>2

\* A record of the scan itself, or of one of these targets.
Sourced(e, evidence, ips) == e \in ToSet(evidence) \/ \E ip \in ips : \E kind, n : e.id = EvID(kind, ip, n)

AppendedLog(log, evidence, ips) == SoundEvidence(log) /\ Adds(evidence, log) /\ \A e \in ToSet(log) : Sourced(e, evidence, ips)

LEMMA AppendStep ==
    ASSUME NEW evidence, Numbered(evidence), NEW log, NEW ips, AppendedLog(log, evidence, ips), NEW ip \in Nat, ip \notin ips,
           NEW ev, UpstreamLog(ev, ip)
    PROVE  AppendedLog(log \o ev, evidence, ips \cup {ip})
<1> DEFINE all == log \o ev
<1>0. IsSlice(log) /\ IsSlice(ev) /\ DistinctIds(log)
  BY DEF AppendedLog, SoundEvidence, UpstreamLog
<1>1. IsSlice(all) /\ ToSet(all) = ToSet(log) \cup ToSet(ev)
  BY <1>0, SliceJoin
<1>2. \A e \in ToSet(ev) : e.ip = ip /\ IsFiniteSet(e.ports) /\ \E kind, n : e.id = EvID(kind, ip, n)
  BY DEF UpstreamLog, ToSet
<1>3. DistinctIds(ev)
  BY UpstreamIds DEF UpstreamLog, DistinctIds
<1>4. \A e \in ToSet(evidence) : \E n : e.id = EvNo(n)
  BY DEF Numbered, ToSet
<1>5. \A d \in ToSet(log), e \in ToSet(ev) : d.id # e.id
  <2> TAKE d \in ToSet(log), e \in ToSet(ev)
  <2>1. PICK kind, n : e.id = EvID(kind, ip, n)
    BY <1>2
  <2>2. Sourced(d, evidence, ips)
    BY DEF AppendedLog
  <2>3. CASE d \in ToSet(evidence)
    BY <1>4, <2>1, <2>3, UpstreamIds
  <2>4. CASE d \notin ToSet(evidence)
    <3>1. PICK jp \in ips : \E k, m : d.id = EvID(k, jp, m)
      BY <2>2, <2>4 DEF Sourced
    <3>2. PICK k, m : d.id = EvID(k, jp, m)
      BY <3>1
    <3>3. jp # ip
      OBVIOUS
    <3> QED
      BY <2>1, <3>2, <3>3, UpstreamIds
  <2> QED
    BY <2>3, <2>4
<1>6. DistinctIds(all)
  <2>1. Ids(log) \cap Ids(ev) = {}
    BY <1>5 DEF Ids
  <2> QED
    BY <1>0, <1>3, <2>1, JoinDistinct
<1>7. Adds(log, all)
  BY <1>0, <1>6, JoinAdds
<1> HIDE DEF all
<1>8. SoundEvidence(all)
  BY <1>1, <1>2, <1>6 DEF SoundEvidence, AppendedLog
<1>9. Adds(evidence, all)
  BY <1>7, AddsOn DEF AppendedLog
<1>10. \A e \in ToSet(all) : Sourced(e, evidence, ips \cup {ip})
  BY <1>1, <1>2 DEF Sourced, AppendedLog
<1>11. AppendedLog(all, evidence, ips \cup {ip})
  BY <1>8, <1>9, <1>10 DEF AppendedLog
<1> QED
  BY <1>11 DEF all

LEMMA EvidenceAppended ==
    ASSUME NEW evidence, Numbered(evidence), SoundEvidence(evidence), NEW found, SoundResults(found),
           NEW order \in Arrangements(DOMAIN found)
    PROVE  SoundEvidence(Appended(evidence, found, order)) /\ Adds(evidence, Appended(evidence, found, order))
<1>1. Cardinality(DOMAIN found) \in Nat
  BY FS_CardinalityType DEF SoundResults
<1>2. /\ order \in [1..Cardinality(DOMAIN found) -> DOMAIN found]
      /\ \A i, j \in DOMAIN order : order[i] = order[j] => i = j
  BY DEF Arrangements
<1>3. order \in Seq(DOMAIN found)
  BY <1>1, <1>2
<1>4. IsSlice(order) /\ Len(order) \in Nat /\ DOMAIN order = 1..Len(order) /\ \A i \in 1..Len(order) : order[i] \in DOMAIN found
  BY <1>3, SliceOf
<1>5. PICK acc : Turns(acc, "append", found, evidence, order) /\ acc[Len(order)] = Appended(evidence, found, order)
  BY <1>4, AppendRun
<1>6. acc[0] = evidence /\ \A k \in 1..Len(order) : acc[k] = acc[k - 1] \o found[order[k]].evidence
  BY <1>5 DEF Turns, Turn
<1> DEFINE Taken(k) == {order[i] : i \in 1..k}
           G == {k \in Nat : AppendedLog(acc[k], evidence, Taken(k))}
<1>7. 0 \in G
  <2>1. Taken(0) = {}
    OBVIOUS
  <2>2. Adds(evidence, evidence)
    BY DEF Adds
  <2> HIDE DEF Taken
  <2>3. AppendedLog(acc[0], evidence, Taken(0))
    BY <1>6, <2>1, <2>2 DEF AppendedLog, Sourced
  <2> QED
    BY <2>3
<1>8. ASSUME NEW k \in 0..Len(order) - 1, k \in G PROVE k + 1 \in G
  <2>1. k \in Nat /\ k + 1 \in 1..Len(order) /\ (k + 1) - 1 = k /\ 1..k + 1 = 1..k \cup {k + 1}
    BY <1>4
  <2> DEFINE ip == order[k + 1]
             ev == found[ip].evidence
  <2>2. Taken(k + 1) = Taken(k) \cup {ip}
    BY <2>1
  <2>3. ip \notin Taken(k)
    <3>1. \A i \in 1..k : i \in DOMAIN order /\ i # k + 1
      BY <1>4, <2>1
    <3>2. \A i \in 1..k : order[i] # order[k + 1]
      BY <1>2, <1>4, <2>1, <3>1
    <3> QED
      BY <3>2
  <2>4. ip \in Nat /\ UpstreamLog(ev, ip)
    BY <1>4, <2>1 DEF SoundResults
  <2>5. acc[k + 1] = acc[k] \o ev
    BY <1>6, <2>1
  <2>6. AppendedLog(acc[k], evidence, Taken(k))
    BY <1>8
  <2> HIDE DEF Taken, ip, ev
  <2>7. AppendedLog(acc[k] \o ev, evidence, Taken(k) \cup {ip})
    BY <2>3, <2>4, <2>6, AppendStep
  <2>8. AppendedLog(acc[k + 1], evidence, Taken(k + 1))
    BY <2>2, <2>5, <2>7
  <2> QED
    BY <2>1, <2>8
<1>9. AppendedLog(acc[Len(order)], evidence, Taken(Len(order)))
  <2>1. G \in SUBSET Nat
    OBVIOUS
  <2> HIDE DEF G
  <2>2. \A k \in 0..Len(order) : k \in G
    BY <1>4, <1>7, <1>8, <2>1, UpTo
  <2>3. Len(order) \in G
    BY <1>4, <2>2
  <2> QED
    BY <2>3 DEF G
<1> QED
  BY <1>5, <1>9 DEF AppendedLog

\* Appending records leaves a sound report sound.
LEMMA ReportAppended ==
    ASSUME NEW r, SoundReport(r), NEW evidence, SoundEvidence(evidence), Adds(r.evidence, evidence)
    PROVE  /\ SoundReport([r EXCEPT !.evidence = evidence])
           /\ [r EXCEPT !.evidence = evidence].root = r.root /\ [r EXCEPT !.evidence = evidence].scope = r.scope
<1> DEFINE s == [r EXCEPT !.evidence = evidence]
<1>1. /\ DOMAIN s = DOMAIN r /\ s.devices = r.devices /\ s.edges = r.edges /\ s.summary = r.summary /\ s.nodes = r.nodes
      /\ s.links = r.links /\ s.gateway = r.gateway /\ s.root = r.root /\ s.scope = r.scope
  OBVIOUS
<1>2. s.evidence = evidence
  BY DEF SoundReport, ReportParts
<1> HIDE DEF s
<1>3. \A i \in DOMAIN s.devices : SoundDevice(s.devices[i], s.evidence)
  BY <1>1, <1>2, StaysSound DEF SoundReport
<1>4. \A ips : \A e : SoundEdge(e, ips, Ids(r.evidence)) => SoundEdge(e, ips, Ids(s.evidence))
  BY <1>2 DEF SoundEdge, Adds
<1>5. SoundReport(s)
  BY <1>1, <1>2, <1>3, <1>4 DEF SoundReport
<1> QED
  BY <1>1, <1>5 DEF s

-----------------------------------------------------------------------------
(* The steps of the store.                                                 *)

\* The device of an address as a pass finds it, and the store with what the pass makes of it.
Before(s, ip) == At(s.devices, ip, NewDevice(ip))

Upserted(s, ip, d) == [s EXCEPT !.devices = Put(@, ip, d)]

LEMMA BeforeKnown ==
    ASSUME NEW r, NEW s, KnownStore(r, s), NEW ip
    PROVE  /\ Known(Before(s, ip)) /\ Before(s, ip).ip = ip
           /\ ip \in DOMAIN s.devices => Before(s, ip) = s.devices[ip]
  BY NewKnown DEF Before, At, KnownStore

LEMMA UpsertedStore ==
    ASSUME NEW r, NEW s, KnownStore(r, s), NEW ip \in Nat, NEW d, Known(d), d.ip = ip
    PROVE  /\ KnownStore(r, Upserted(s, ip, d)) /\ Upserted(s, ip, d).obs = s.obs
           /\ DOMAIN Upserted(s, ip, d).devices = DOMAIN s.devices \cup {ip} /\ Upserted(s, ip, d).devices[ip] = d
           /\ \A jp \in DOMAIN s.devices : jp # ip => Upserted(s, ip, d).devices[jp] = s.devices[jp]
<1> DEFINE u == Upserted(s, ip, d)
           devices == Put(s.devices, ip, d)
<1>1. DOMAIN u = {"devices", "obs"} /\ u.obs = s.obs /\ u.devices = devices
  BY DEF Upserted, KnownStore
<1>2. /\ DOMAIN devices = DOMAIN s.devices \cup {ip} /\ devices[ip] = d
      /\ \A jp \in DOMAIN s.devices : jp # ip => devices[jp] = s.devices[jp]
  BY DEF Put
<1> HIDE DEF u, devices
<1>3. IsFiniteSet(DOMAIN s.devices \cup {ip})
  BY FS_AddElement DEF KnownStore
<1>4. KnownStore(r, u)
  BY <1>1, <1>2, <1>3 DEF KnownStore, Traced
<1> QED
  BY <1>1, <1>2, <1>4 DEF u

\* A pass that lets the device of an address grow lets the store grow.
LEMMA UpsertGrows ==
    ASSUME NEW r, NEW s, KnownStore(r, s), NEW ip \in Nat, NEW d, Grows(Before(s, ip), d)
    PROVE  StoreGrew(r, s, Upserted(s, ip, d)) /\ ip \in DOMAIN Upserted(s, ip, d).devices /\ Upserted(s, ip, d).devices[ip] = d
<1> DEFINE u == Upserted(s, ip, d)
<1>1. Known(d) /\ d.ip = ip /\ (ip \in DOMAIN s.devices => Grows(s.devices[ip], d))
  BY BeforeKnown, GrowsKnown
<1>2. /\ KnownStore(r, u) /\ u.obs = s.obs /\ DOMAIN u.devices = DOMAIN s.devices \cup {ip} /\ u.devices[ip] = d
      /\ \A jp \in DOMAIN s.devices : jp # ip => u.devices[jp] = s.devices[jp]
  BY <1>1, UpsertedStore
<1> HIDE DEF u
<1>3. \A jp \in DOMAIN s.devices : Grows(s.devices[jp], u.devices[jp])
  BY <1>1, <1>2, GrowsFrom DEF KnownStore
<1>4. StoreGrew(r, s, u)
  BY <1>2, <1>3 DEF StoreGrew
<1> QED
  BY <1>2, <1>4 DEF u

\* Records registered for a device, when no allowed target but that one is known by a new one of them.
LEMMA Registering ==
    ASSUME NEW r, NEW s, KnownStore(r, s), NEW records, NEW dev, NEW conf,
           \A e \in records : \/ \E o \in s.obs : o.id = e.id
                              \/ \A x \in ToSet(r.evidence) : e.id = x.id /\ TargetAllowed(r, x.ip) => dev = x.ip
    PROVE  LET u == RegisterEvidence(s, records, dev, conf)
           IN  StoreGrew(r, s, u) /\ u.devices = s.devices /\ \A e \in records : \E o \in u.obs : o.id = e.id
<1> DEFINE u == RegisterEvidence(s, records, dev, conf)
           known == {o.id : o \in s.obs}
           added == {Observation(e, dev, conf) : e \in {x \in records : x.id \notin known}}
<1>1. DOMAIN u = {"devices", "obs"} /\ u.devices = s.devices /\ u.obs = s.obs \cup added
  BY DEF RegisterEvidence, KnownStore
<1>2. \A e : Observation(e, dev, conf).id = e.id /\ Observation(e, dev, conf).dev = dev
  BY DEF Observation
<1>3. \A o \in added : o.dev = dev /\ \E e \in records : o.id = e.id /\ e.id \notin known
  BY <1>2
<1>4. \A e \in records : e.id \in known \/ \E o \in added : o.id = e.id
  BY <1>2
<1> HIDE DEF added, u
<1>5. Traced(r, u)
  <2> SUFFICES ASSUME NEW o \in u.obs, NEW x \in ToSet(r.evidence), o.id = x.id, TargetAllowed(r, x.ip) PROVE o.dev = x.ip
    BY DEF Traced
  <2>1. CASE o \in s.obs
    BY <2>1 DEF KnownStore, Traced
  <2>2. CASE o \in added
    BY <1>3, <2>2
  <2> QED
    BY <1>1, <2>1, <2>2
<1>6. KnownStore(r, u)
  BY <1>1, <1>5 DEF KnownStore
<1>7. StoreGrew(r, s, u)
  BY <1>1, <1>6, GrowsFrom DEF StoreGrew, KnownStore
<1>8. \A e \in records : \E o \in u.obs : o.id = e.id
  BY <1>1, <1>4
<1> QED
  BY <1>1, <1>7, <1>8 DEF u

\* What the records of a kind say of a device.
LEMMA RecordGrows ==
    ASSUME NEW d, Known(d), NEW e, IsFiniteSet(e.ports)
    PROVE  Grows(d, WithRecord(d, e))
<1> DEFINE c == Cite(d, {e.id})
           services == {[port |-> p, ev |-> {e.id}] : p \in e.ports}
           icmp == <<"icmp", 0>>
           key == <<"upstream", e.port>>
           m == AddMAC(c, e.mac, {e.id}, 65)
           h == AddHostname(c, e.host, {e.id}, 45)
           v == AddServices(c, services, 75)
           a == AddFailedAttempt(c, icmp, e.id)
           w == AddHTTPObservation(c, key, e.id)
           t == AddTLSObservation(c, key, e.id)
<1>1. WithRecord(d, e) =
         CASE e.kind = "arp_table" -> m
           [] e.kind = "reverse_dns" -> h
           [] e.kind = "tcp_connect" -> v
           [] e.kind = "icmp_echo" -> (IF e.failed THEN a ELSE c)
           [] e.kind = "http_fingerprint" -> w
           [] e.kind = "tls_fingerprint" -> t
           [] OTHER -> c
  BY Zenon DEF WithRecord
<1>2. Grows(d, c)
  BY CiteGrows
<1>3. Known(c)
  BY <1>2, GrowsKnown
<1> HIDE DEF c
<1>4. IsFiniteSet(services)
  <2> DEFINE f == [p \in e.ports |-> [port |-> p, ev |-> {e.id}]]
  <2>1. services = {f[p] : p \in e.ports}
    OBVIOUS
  <2> HIDE DEF f
  <2> QED
    BY <2>1, ImageFinite
<1> HIDE DEF services, icmp, key
<1>5. Grows(c, c) /\ Grows(c, m) /\ Grows(c, h) /\ Grows(c, v) /\ Grows(c, a) /\ Grows(c, w) /\ Grows(c, t)
  <2>1. 65 \in Nat /\ 45 \in Nat
    OBVIOUS
  <2> QED
    BY <1>3, <1>4, <2>1, GrowsFrom, MACGrows, HostnameGrows, ServicesGrow, AttemptGrows, PageGrows, CertificateGrows
<1> HIDE DEF m, h, v, a, w, t
<1>6. \E b \in {c, m, h, v, a, w, t} : WithRecord(d, e) = b
  BY <1>1
<1>7. Grows(c, WithRecord(d, e))
  BY <1>5, <1>6
<1> QED
  BY <1>2, <1>7, GrowsOn

\* A device of the report, with its evidence, ports and flags, is in the store.
Ingested(x, s) ==
    /\ x.ip \in DOMAIN s.devices
    /\ x.ev \subseteq s.devices[x.ip].ev /\ {v.port : v \in x.services} \subseteq DOMAIN s.devices[x.ip].services
    /\ SameFlags(x, s.devices[x.ip])

LEMMA TopologyDeviceGrows ==
    ASSUME NEW d, Known(d), NEW src, src.conf \in Nat, IsFiniteSet(src.services)
    PROVE  LET w == WithTopologyDevice(d, src)
           IN  /\ DeviceGrew(d, w) /\ SameFlags(src, w) /\ src.ev \subseteq w.ev
               /\ {v.port : v \in src.services} \subseteq DOMAIN w.services
<1> DEFINE first == FirstEvidence(src.ev)
           named == AddHostname(d, src.host, first, 55)
           flagged == [named EXCEPT !.roles = @ \cup src.roles, !.agent = src.agent, !.gateway = src.gateway]
           sure == AtLeast(flagged, src.conf)
           seen == Cite(sure, src.ev)
           mac == AddMAC(seen, src.mac, first, 60)
           base == IF src.mac = "" THEN seen ELSE mac
           w == AddServices(base, src.services, 75)
<1>1. WithTopologyDevice(d, src) = w
  BY Zenon DEF WithTopologyDevice
<1>0. 55 \in Nat /\ 60 \in Nat
  OBVIOUS
<1>2. Grows(d, named)
  BY <1>0, HostnameGrows
<1>3. Known(named) /\ named.ip = d.ip /\ d.ev \subseteq named.ev /\ DOMAIN d.services \subseteq DOMAIN named.services
  BY <1>2, GrowsKnown
<1> HIDE DEF named
<1>4. /\ DOMAIN flagged = DOMAIN named /\ flagged.ip = named.ip /\ flagged.conf = named.conf /\ flagged.ev = named.ev
      /\ flagged.services = named.services /\ flagged.cands = named.cands /\ flagged.upnp = named.upnp /\ flagged.proven = named.proven
      /\ flagged.agent = src.agent /\ flagged.gateway = src.gateway
  BY <1>3 DEF Known, DeviceFields
<1> HIDE DEF flagged
<1>5. Known(flagged)
  BY <1>3, <1>4 DEF Known
<1>6. Grows(flagged, sure)
  BY <1>5, AtLeastGrows
<1>7. Known(sure)
  BY <1>6, GrowsKnown
<1> HIDE DEF sure
<1>8. Grows(sure, seen) /\ seen.ev = sure.ev \cup src.ev
  BY <1>7, CiteGrows
<1>9. Known(seen)
  BY <1>8, GrowsKnown
<1> HIDE DEF seen
<1>10. Grows(seen, mac) /\ Grows(seen, seen)
  BY <1>0, <1>9, MACGrows, GrowsFrom
<1> HIDE DEF mac
<1>11. Grows(seen, base)
  BY <1>10
<1>12. Known(base)
  BY <1>11, GrowsKnown
<1> HIDE DEF base
<1>13. Grows(base, w) /\ \A v \in src.services : v.port \in DOMAIN w.services
  BY <1>12, ServicesGrow
<1> HIDE DEF w
<1>14. Grows(flagged, w) /\ Grows(seen, w)
  BY <1>6, <1>8, <1>11, <1>13, GrowsOn
<1>15. /\ Known(w) /\ w.ip = flagged.ip /\ flagged.ev \subseteq w.ev /\ DOMAIN flagged.services \subseteq DOMAIN w.services /\ seen.ev \subseteq w.ev
  BY <1>14, GrowsKnown
<1>16. DeviceGrew(d, w)
  BY <1>3, <1>4, <1>15 DEF DeviceGrew
<1>17. SameFlags(src, w)
  BY <1>4, <1>14 DEF Grows, SameFlags
<1>18. src.ev \subseteq w.ev /\ {v.port : v \in src.services} \subseteq DOMAIN w.services
  BY <1>8, <1>13, <1>15
<1> QED
  BY <1>1, <1>16, <1>17, <1>18

LEMMA ListedGrows ==
    ASSUME NEW r, NEW a, NEW b, ListGrew(r, a, b) \/ StoreGrew(r, a, b), NEW x \in ToSet(r.devices), Ingested(x, a)
    PROVE  Ingested(x, b)
<1>1. x.ip \in DOMAIN a.devices
  BY DEF Ingested
<1>2. CASE ListGrew(r, a, b)
  <2>1. x.ip \in DOMAIN b.devices /\ DeviceGrew(a.devices[x.ip], b.devices[x.ip]) /\ SameFlags(x, b.devices[x.ip])
    BY <1>1, <1>2 DEF ListGrew, Flagged, ToSet
  <2> QED
    BY <2>1 DEF Ingested, DeviceGrew
<1>3. CASE StoreGrew(r, a, b)
  <2>1. x.ip \in DOMAIN b.devices /\ Grows(a.devices[x.ip], b.devices[x.ip])
    BY <1>1, <1>3 DEF StoreGrew
  <2> QED
    BY <2>1 DEF Ingested, DeviceGrew, Grows, SameFlags
<1> QED
  BY <1>2, <1>3

\* Evidence a device cites is registered for that device.
LEMMA CitedRegistering ==
    ASSUME NEW r, NEW s, KnownStore(r, s), NEW dev, NEW ids, NEW conf,
           \A e \in ToSet(r.evidence) : e.id \in ids => e.ip = dev, DistinctIds(r.evidence)
    PROVE  LET u == RegisterEvidenceIDs(s, r.evidence, dev, ids, conf)
           IN  StoreGrew(r, s, u) /\ u.devices = s.devices
<1> DEFINE records == {e \in ToSet(r.evidence) : e.id \in ids}
           u == RegisterEvidence(s, records, dev, conf)
<1>1. RegisterEvidenceIDs(s, r.evidence, dev, ids, conf) = u
  BY Zenon DEF RegisterEvidenceIDs
<1>2. \A e \in records : \A x \in ToSet(r.evidence) : e.id = x.id /\ TargetAllowed(r, x.ip) => dev = x.ip
  OBVIOUS
<1> HIDE DEF records, u
<1>3. StoreGrew(r, s, u) /\ u.devices = s.devices
  BY <1>2, Registering DEF u
<1> QED
  BY <1>1, <1>3

LEMMA TopologyTurn ==
    ASSUME NEW r, SoundReport(r), NEW s, KnownStore(r, s), Flagged(r, s), NEW x \in ToSet(r.devices)
    PROVE  LET t == IngestTopologyDevice(r, s, x)
           IN  ListGrew(r, s, t) /\ (TargetAllowed(r, x.ip) => Ingested(x, t))
<1> DEFINE w == WithTopologyDevice(Before(s, x.ip), x)
           u == Upserted(s, x.ip, w)
           known == RegisterEvidenceIDs(u, r.evidence, x.ip, x.ev, x.conf)
           ports == UNION {v.ev : v \in x.services}
           full == RegisterEvidenceIDs(known, r.evidence, x.ip, ports, 75)
           t == IngestTopologyDevice(r, s, x)
<1>1. t = IF ~TargetAllowed(r, x.ip) THEN s ELSE full
  BY Zenon DEF IngestTopologyDevice, UpsertDevice, Upserted, Before
<1>2. PICK i \in DOMAIN r.devices : x = r.devices[i]
  BY DEF ToSet
<1>3. /\ SoundDevice(x, r.evidence) /\ x.ip \in Nat /\ DistinctIds(r.evidence)
      /\ \A j \in DOMAIN r.devices : r.devices[j].ip = x.ip => j = i
  BY <1>2 DEF SoundReport, SoundEvidence
<1>4. x.conf \in Nat /\ IsFiniteSet(x.services) /\ \A e \in ToSet(r.evidence) : e.id \in Cited(x) => e.ip = x.ip
  BY <1>3 DEF SoundDevice
<1>5. \A e \in ToSet(r.evidence) : (e.id \in x.ev => e.ip = x.ip) /\ (e.id \in ports => e.ip = x.ip)
  BY <1>4 DEF Cited
<1> HIDE DEF ports
<1>6. Known(Before(s, x.ip)) /\ Before(s, x.ip).ip = x.ip /\ (x.ip \in DOMAIN s.devices => Before(s, x.ip) = s.devices[x.ip])
  BY BeforeKnown
<1>7. /\ DeviceGrew(Before(s, x.ip), w) /\ SameFlags(x, w) /\ x.ev \subseteq w.ev
      /\ {v.port : v \in x.services} \subseteq DOMAIN w.services
  BY <1>4, <1>6, TopologyDeviceGrows
<1> HIDE DEF w
<1>8. Known(w) /\ w.ip = x.ip
  BY <1>6, <1>7 DEF DeviceGrew
<1>9. /\ KnownStore(r, u) /\ u.obs = s.obs /\ DOMAIN u.devices = DOMAIN s.devices \cup {x.ip} /\ u.devices[x.ip] = w
      /\ \A jp \in DOMAIN s.devices : jp # x.ip => u.devices[jp] = s.devices[jp]
  BY <1>3, <1>8, UpsertedStore
<1> HIDE DEF u
<1>10. StoreGrew(r, u, known) /\ known.devices = u.devices
  <2>1. KnownStore(r, u) /\ DistinctIds(r.evidence) /\ \A e \in ToSet(r.evidence) : e.id \in x.ev => e.ip = x.ip
    BY <1>3, <1>5, <1>9
  <2> QED
    BY <2>1, CitedRegistering
<1> HIDE DEF known
<1>11. KnownStore(r, known)
  BY <1>10 DEF StoreGrew
<1>12. StoreGrew(r, known, full) /\ full.devices = known.devices
  BY <1>3, <1>5, <1>11, CitedRegistering
<1> HIDE DEF full
<1>13. KnownStore(r, full) /\ full.devices = u.devices
  BY <1>10, <1>12 DEF StoreGrew
<1>14. \A d : Known(d) => DeviceGrew(d, d)
  BY DEF DeviceGrew, Known
<1>15. \A jp \in DOMAIN s.devices : jp \in DOMAIN full.devices /\ DeviceGrew(s.devices[jp], full.devices[jp])
  BY <1>6, <1>7, <1>9, <1>13, <1>14 DEF KnownStore
<1>16. Flagged(r, full)
  <2> SUFFICES ASSUME NEW j \in DOMAIN r.devices, r.devices[j].ip \in DOMAIN full.devices
               PROVE  SameFlags(r.devices[j], full.devices[r.devices[j].ip])
    BY DEF Flagged
  <2>1. CASE r.devices[j].ip = x.ip
    <3>1. j = i
      BY <1>3, <2>1
    <3> QED
      BY <1>2, <1>7, <1>9, <1>13, <3>1
  <2>2. CASE r.devices[j].ip # x.ip
    BY <1>9, <1>13, <2>2 DEF Flagged
  <2> QED
    BY <2>1, <2>2
<1>17. ListGrew(r, s, full) /\ ListGrew(r, s, s)
  BY <1>13, <1>14, <1>15, <1>16 DEF ListGrew, KnownStore
<1>18. Ingested(x, full)
  BY <1>7, <1>9, <1>13 DEF Ingested
<1> QED
  BY <1>1, <1>17, <1>18

LEMMA EmptyKnown == \A r : KnownStore(r, EmptyStore) /\ Flagged(r, EmptyStore) /\ ListGrew(r, EmptyStore, EmptyStore)
<1>1. DOMAIN Nothing = {}
  BY DEF Nothing
<1>2. DOMAIN EmptyStore = {"devices", "obs"} /\ EmptyStore.devices = Nothing /\ EmptyStore.obs = {}
  BY DEF EmptyStore
<1> QED
  BY <1>1, <1>2, FS_EmptySet DEF KnownStore, Flagged, ListGrew, Traced

LEMMA TopologyPassed ==
    ASSUME NEW r, SoundReport(r)
    PROVE  LET s == IngestTopologyDevices(r, EmptyStore)
           IN  KnownStore(r, s) /\ \A x \in ToSet(r.devices) : TargetAllowed(r, x.ip) => Ingested(x, s)
<1> DEFINE s == IngestTopologyDevices(r, EmptyStore)
           S == ToSet(r.devices)
<1>0. IsSlice(r.devices)
  BY DEF SoundReport
<1>1. Ran("topology", r, EmptyStore, S, s)
  BY <1>0, TopologyRan
<1> HIDE DEF s
<1>2. \A a, x : Turn("topology", r, a, x) = IngestTopologyDevice(r, a, x)
  BY DEF Turn
<1>3. \A a, b : Leads("list", r, a, b) <=> ListGrew(r, a, b)
  BY DEF Leads
<1>4. \A a : \A x \in S : KnownStore(r, a) /\ Flagged(r, a) =>
         /\ ListGrew(r, a, IngestTopologyDevice(r, a, x))
         /\ TargetAllowed(r, x.ip) => Ingested(x, IngestTopologyDevice(r, a, x))
  BY TopologyTurn
<1>5. Rounds("list", r, "topology", r, EmptyStore, S)
  BY <1>2, <1>3, <1>4 DEF Rounds, ListGrew
<1>6. Leads("list", r, EmptyStore, EmptyStore)
  BY <1>3, EmptyKnown
<1>7. Leads("list", r, EmptyStore, s) /\ \A x \in S : Passed("list", r, "topology", r, EmptyStore, x, s)
  BY <1>1, <1>5, <1>6, LoopLeads
<1>8. ASSUME NEW x \in S, TargetAllowed(r, x.ip) PROVE Ingested(x, s)
  <2>1. PICK a : /\ ListGrew(r, EmptyStore, a) /\ ListGrew(r, a, IngestTopologyDevice(r, a, x))
                 /\ ListGrew(r, IngestTopologyDevice(r, a, x), s)
    BY <1>2, <1>3, <1>7 DEF Passed
  <2>2. Ingested(x, IngestTopologyDevice(r, a, x))
    BY <1>4, <1>8, <2>1 DEF ListGrew
  <2> QED
    BY <2>1, <2>2, ListedGrows
<1>9. KnownStore(r, s)
  BY <1>3, <1>7 DEF ListGrew
<1> QED
  BY <1>8, <1>9 DEF s

LEMMA RecordTurn ==
    ASSUME NEW r, SoundReport(r), NEW s, KnownStore(r, s), NEW e \in ToSet(r.evidence)
    PROVE  LET t == IngestEvidenceRecord(r, s, e)
           IN  StoreGrew(r, s, t) /\ (TargetAllowed(r, e.ip) => \E o \in t.obs : o.id = e.id)
<1> DEFINE w == WithRecord(Before(s, e.ip), e)
           u == Upserted(s, e.ip, w)
           conf == EvidenceConfidence(e.kind)
           full == RegisterEvidence(u, {e}, e.ip, conf)
           t == IngestEvidenceRecord(r, s, e)
<1>1. t = IF ~TargetAllowed(r, e.ip) THEN s ELSE full
  BY Zenon DEF IngestEvidenceRecord, UpsertDevice, Upserted, Before
<1>2. DistinctIds(r.evidence) /\ IsFiniteSet(e.ports) /\ e.ip \in Nat \cup {None}
  BY DEF SoundReport, SoundEvidence
<1>3. StoreGrew(r, s, s)
  BY GrowsFrom DEF StoreGrew, KnownStore
<1> HIDE DEF conf, t
<1>4. ASSUME TargetAllowed(r, e.ip) PROVE StoreGrew(r, s, full) /\ \E o \in full.obs : o.id = e.id
  <2>1. e.ip \in Nat
    BY <1>2, <1>4 DEF TargetAllowed
  <2>2. Known(Before(s, e.ip))
    BY BeforeKnown
  <2>3. Grows(Before(s, e.ip), w)
    BY <1>2, <2>2, RecordGrows
  <2> HIDE DEF w
  <2>4. StoreGrew(r, s, u)
    BY <2>1, <2>3, UpsertGrows
  <2> HIDE DEF u
  <2>5. KnownStore(r, u)
    BY <2>4 DEF StoreGrew
  <2>6. \A x \in ToSet(r.evidence) : e.id = x.id => x = e
    BY <1>2, OneRecord
  <2> DEFINE records == {e}
  <2>7. \A d \in records : \/ \E o \in u.obs : o.id = d.id
                           \/ \A x \in ToSet(r.evidence) : d.id = x.id /\ TargetAllowed(r, x.ip) => e.ip = x.ip
    BY <2>6
  <2>8. e \in records
    OBVIOUS
  <2> HIDE DEF records
  <2>9. StoreGrew(r, u, RegisterEvidence(u, records, e.ip, conf)) /\ \E o \in RegisterEvidence(u, records, e.ip, conf).obs : o.id = e.id
    BY <2>5, <2>7, <2>8, Registering
  <2>10. full = RegisterEvidence(u, records, e.ip, conf)
    BY Zenon DEF records
  <2> HIDE DEF full
  <2> QED
    BY <2>4, <2>9, <2>10, StoreGrewOn
<1> HIDE DEF full
<1> QED
  BY <1>1, <1>3, <1>4 DEF t

LEMMA RecordsPassed ==
    ASSUME NEW r, SoundReport(r), NEW base, KnownStore(r, base)
    PROVE  StoreGrew(r, base, IngestEvidenceRecords(r, base)) /\ Recorded(r, IngestEvidenceRecords(r, base))
<1> DEFINE s == IngestEvidenceRecords(r, base)
           S == ToSet(r.evidence)
<1>0. IsSlice(r.evidence)
  BY DEF SoundReport, SoundEvidence
<1>1. Ran("records", r, base, S, s)
  BY <1>0, RecordsRan
<1> HIDE DEF s
<1>2. \A a, x : Turn("records", r, a, x) = IngestEvidenceRecord(r, a, x)
  BY DEF Turn
<1>3. \A a, b : Leads("store", r, a, b) <=> StoreGrew(r, a, b)
  BY DEF Leads
<1>4. \A a : \A x \in S : KnownStore(r, a) =>
         /\ StoreGrew(r, a, IngestEvidenceRecord(r, a, x))
         /\ TargetAllowed(r, x.ip) => \E o \in IngestEvidenceRecord(r, a, x).obs : o.id = x.id
  BY RecordTurn
<1>5. Rounds("store", r, "records", r, base, S)
  BY <1>2, <1>3, <1>4 DEF Rounds, StoreGrew
<1>6. Leads("store", r, base, base)
  BY <1>3, GrowsFrom DEF StoreGrew, KnownStore
<1>7. Leads("store", r, base, s) /\ \A x \in S : Passed("store", r, "records", r, base, x, s)
  BY <1>1, <1>5, <1>6, LoopLeads
<1>8. ASSUME NEW x \in S, TargetAllowed(r, x.ip) PROVE \E o \in s.obs : o.id = x.id
  <2>1. PICK a : StoreGrew(r, a, IngestEvidenceRecord(r, a, x)) /\ StoreGrew(r, IngestEvidenceRecord(r, a, x), s)
    BY <1>2, <1>3, <1>7 DEF Passed
  <2>2. \E o \in IngestEvidenceRecord(r, a, x).obs : o.id = x.id
    BY <1>4, <1>8, <2>1 DEF StoreGrew
  <2> QED
    BY <2>1, <2>2 DEF StoreGrew
<1>9. StoreGrew(r, base, s) /\ Recorded(r, s)
  BY <1>3, <1>7, <1>8 DEF Recorded
<1> QED
  BY <1>9 DEF s

-----------------------------------------------------------------------------
(* What the detected context adds to a store that has every record.        *)

LEMMA HopGrows ==
    ASSUME NEW d, Known(d), NEW hop, NEW conf \in Nat
    PROVE  Grows(d, WithHop(d, hop, conf)) /\ hop.ev \in WithHop(d, hop, conf).ev
<1> DEFINE cited == Cite(d, {hop.ev})
           c == AtLeast(cited, conf)
           g == AsGateway(c)
           u == AsUpstream(c)
<1>1. WithHop(d, hop, conf) =
         CASE hop.role = "default_gateway" -> g
           [] hop.role = "upstream_private_gateway" -> u
           [] OTHER -> c
  BY Zenon DEF WithHop
<1>2. Grows(d, cited) /\ hop.ev \in cited.ev
  BY CiteGrows
<1>3. Known(cited)
  BY <1>2, GrowsKnown
<1> HIDE DEF cited
<1>4. Grows(cited, c)
  BY <1>3, AtLeastGrows
<1>5. Known(c)
  BY <1>4, GrowsKnown
<1> HIDE DEF c
<1>6. Grows(c, g) /\ Grows(c, u) /\ Grows(c, c)
  BY <1>5, GatewayGrows, UpstreamGrows, GrowsFrom
<1> HIDE DEF g, u
<1>7. Grows(c, WithHop(d, hop, conf))
  BY <1>1, <1>6
<1>8. Grows(cited, WithHop(d, hop, conf))
  BY <1>4, <1>7, GrowsOn
<1> QED
  BY <1>2, <1>8, GrowsOn, GrowsKnown

LEMMA IngestGrows ==
    ASSUME NEW d, Known(d), NEW g, SoundGateway(g), NEW conf
    PROVE  Grows(d, Ingest(d, g, conf))
<1> DEFINE cited == Cite(d, g.ev)
           services == {[port |-> p, ev |-> g.ev] : p \in g.ports}
           served == AddServices(cited, services, conf)
           paged == AddPages(served, g.http)
           certified == AddCertificates(paged, g.tls)
           tried == AddFailures(certified, g.failed)
           announced == [tried EXCEPT !.upnp = g.ev]
           base == IF g.upnp THEN announced ELSE tried
           w == AtLeast(base, g.conf)
<1>1. Ingest(d, g, conf) = w
  BY Zenon DEF Ingest
<1>0. IsFiniteSet(g.ports) /\ IsFiniteSet(g.http) /\ IsFiniteSet(g.tls) /\ IsFiniteSet(g.failed) /\ g.conf \in Nat
  BY DEF SoundGateway
<1>2. Grows(d, cited) /\ g.ev \subseteq cited.ev
  BY CiteGrows
<1>3. Known(cited)
  BY <1>2, GrowsKnown
<1> HIDE DEF cited
<1>4. IsFiniteSet(services)
  <2> DEFINE f == [p \in g.ports |-> [port |-> p, ev |-> g.ev]]
  <2>1. services = {f[p] : p \in g.ports}
    OBVIOUS
  <2> HIDE DEF f
  <2> QED
    BY <1>0, <2>1, ImageFinite
<1> HIDE DEF services
<1>5. Grows(cited, served)
  BY <1>3, <1>4, ServicesGrow
<1>6. Known(served)
  BY <1>5, GrowsKnown
<1> HIDE DEF served
<1>7. Grows(served, paged)
  BY <1>0, <1>6, PagesGrow
<1>8. Known(paged)
  BY <1>7, GrowsKnown
<1> HIDE DEF paged
<1>9. Grows(paged, certified)
  BY <1>0, <1>8, CertificatesGrow
<1>10. Known(certified)
  BY <1>9, GrowsKnown
<1> HIDE DEF certified
<1>11. Grows(certified, tried)
  BY <1>0, <1>10, FailuresGrow
<1>12. Grows(cited, tried)
  BY <1>5, <1>7, <1>9, <1>11, GrowsOn
<1>13. Known(tried) /\ g.ev \subseteq tried.ev
  BY <1>2, <1>12, GrowsKnown
<1> HIDE DEF tried
<1>14. Grows(tried, announced)
  <2>1. /\ DOMAIN announced = DOMAIN tried /\ announced.ip = tried.ip /\ announced.conf = tried.conf /\ announced.ev = tried.ev
        /\ announced.services = tried.services /\ announced.cands = tried.cands /\ announced.proven = tried.proven
        /\ announced.agent = tried.agent /\ announced.gateway = tried.gateway /\ announced.upnp = g.ev
    BY <1>13 DEF Known, DeviceFields
  <2> HIDE DEF announced
  <2>2. Known(announced)
    BY <1>13, <2>1 DEF Known
  <2> QED
    BY <1>13, <2>1, <2>2 DEF Grows, DeviceGrew, SameFlags
<1>15. Grows(tried, base)
  BY <1>13, <1>14, GrowsFrom
<1>16. Known(base)
  BY <1>15, GrowsKnown
<1> HIDE DEF base
<1>17. Grows(base, w)
  BY <1>0, <1>16, AtLeastGrows
<1> HIDE DEF w
<1>18. Grows(d, tried)
  BY <1>2, <1>12, GrowsOn
<1>19. Grows(d, w)
  BY <1>15, <1>17, <1>18, GrowsOn
<1> QED
  BY <1>1, <1>19

LEMMA GatewayDeviceGrows ==
    ASSUME NEW d, Known(d), NEW g, SoundGateway(g)
    PROVE  Grows(d, WithGatewayDevice(d, g)) /\ Grows(d, WithCPE(d, g))
<1> DEFINE a == AsGateway(d)
           b == AsUpstream(d)
           x == CASE g.role = "default_gateway" -> a
                  [] g.role \in {"upstream_private_gateway", "possible_cpe"} -> b
                  [] OTHER -> d
           y == IF g.role = "default_gateway" THEN a ELSE b
<1>1. WithGatewayDevice(d, g) = Ingest(x, g, 80)
  BY Zenon DEF WithGatewayDevice
<1>2. WithCPE(d, g) = Ingest(y, g, 75)
  BY Zenon DEF WithCPE
<1>3. Grows(d, a) /\ Grows(d, b) /\ Grows(d, d)
  BY GatewayGrows, UpstreamGrows, GrowsFrom
<1> HIDE DEF a, b
<1>4. Grows(d, x) /\ Grows(d, y)
  BY <1>3
<1> HIDE DEF x, y
<1>5. Known(x) /\ Known(y)
  BY <1>4, GrowsKnown
<1>6. Grows(x, Ingest(x, g, 80)) /\ Grows(y, Ingest(y, g, 75))
  BY <1>5, IngestGrows
<1> QED
  BY <1>1, <1>2, <1>4, <1>6, GrowsOn

\* Nothing is registered again.
LEMMA SettledRegistering ==
    ASSUME NEW r, SoundReport(r), NEW s, KnownStore(r, s), Recorded(r, s), NEW dev, NEW ids, NEW conf
    PROVE  StoreGrew(r, s, RegisterEvidenceIDs(s, r.evidence, dev, ids, conf))
<1> DEFINE records == {e \in ToSet(r.evidence) : e.id \in ids}
           u == RegisterEvidence(s, records, dev, conf)
<1>1. RegisterEvidenceIDs(s, r.evidence, dev, ids, conf) = u
  BY Zenon DEF RegisterEvidenceIDs
<1>2. DistinctIds(r.evidence)
  BY DEF SoundReport, SoundEvidence
<1>3. \A d, e \in ToSet(r.evidence) : d.id = e.id => d = e
  BY <1>2, OneRecord
<1>4. \A e \in records : \/ \E o \in s.obs : o.id = e.id
                         \/ \A x \in ToSet(r.evidence) : e.id = x.id /\ TargetAllowed(r, x.ip) => dev = x.ip
  BY <1>3 DEF Recorded
<1> HIDE DEF records, u
<1>5. StoreGrew(r, s, u)
  BY <1>4, Registering DEF u
<1> QED
  BY <1>1, <1>5

Settles(r, a, b) == StoreGrew(r, a, b) /\ Recorded(r, a)

LEMMA SettlesSelf == \A r, s : KnownStore(r, s) /\ Recorded(r, s) => Settles(r, s, s)
  BY GrowsFrom DEF Settles, StoreGrew, KnownStore

LEMMA HopTurn ==
    ASSUME NEW r, NEW c, SoundContext(c), NEW s, KnownStore(r, s), Recorded(r, s), NEW h \in ToSet(c.hops)
    PROVE  Settles(r, s, IngestHop(r, c, s, h)) /\ h.ip \in DOMAIN IngestHop(r, c, s, h).devices
<1> DEFINE w == WithHop(Before(s, h.ip), h, c.conf)
           u == Upserted(s, h.ip, w)
<1>1. IngestHop(r, c, s, h) = IF TargetAllowed(r, h.ip) THEN u ELSE s
  BY Zenon DEF IngestHop, UpsertDevice, Upserted, Before
<1>2. h.ip \in Nat /\ IsPrivateIP(h.ip) /\ c.conf \in Nat
  BY DEF SoundContext
<1>3. TargetAllowed(r, h.ip)
  BY <1>2 DEF TargetAllowed, None
<1>4. Known(Before(s, h.ip))
  BY BeforeKnown
<1>5. Grows(Before(s, h.ip), w)
  BY <1>2, <1>4, HopGrows
<1> HIDE DEF w
<1>6. StoreGrew(r, s, u) /\ h.ip \in DOMAIN u.devices
  BY <1>2, <1>5, UpsertGrows
<1> HIDE DEF u
<1> QED
  BY <1>1, <1>3, <1>6 DEF Settles

LEMMA GatewayTurn ==
    ASSUME NEW r, SoundReport(r), NEW s, KnownStore(r, s), Recorded(r, s), NEW g, SoundGateway(g)
    PROVE  Settles(r, s, IngestGatewayDevice(r, s, g)) /\ Settles(r, s, IngestCPECandidate(r, s, g))
<1>0. Settles(r, s, s)
  BY SettlesSelf
<1>1. ASSUME TargetAllowed(r, g.ip), NEW w, Grows(Before(s, g.ip), w)
      PROVE  Settles(r, s, RegisterEvidenceIDs(Upserted(s, g.ip, w), r.evidence, g.ip, g.ev, g.conf))
  <2> DEFINE u == Upserted(s, g.ip, w)
  <2>1. g.ip \in Nat
    BY <1>1 DEF SoundGateway, TargetAllowed
  <2>2. StoreGrew(r, s, u)
    BY <1>1, <2>1, UpsertGrows
  <2> HIDE DEF u
  <2>3. KnownStore(r, u) /\ Recorded(r, u)
    BY <2>2 DEF StoreGrew, Recorded
  <2>4. StoreGrew(r, u, RegisterEvidenceIDs(u, r.evidence, g.ip, g.ev, g.conf))
    BY <2>3, SettledRegistering
  <2>5. Settles(r, s, RegisterEvidenceIDs(u, r.evidence, g.ip, g.ev, g.conf))
    BY <2>2, <2>4, StoreGrewOn DEF Settles
  <2> QED
    BY <2>5 DEF u
<1> DEFINE a == WithGatewayDevice(Before(s, g.ip), g)
           b == WithCPE(Before(s, g.ip), g)
           x == RegisterEvidenceIDs(Upserted(s, g.ip, a), r.evidence, g.ip, g.ev, g.conf)
           y == RegisterEvidenceIDs(Upserted(s, g.ip, b), r.evidence, g.ip, g.ev, g.conf)
<1>2. IngestGatewayDevice(r, s, g) = IF TargetAllowed(r, g.ip) THEN x ELSE s
  BY Zenon DEF IngestGatewayDevice, UpsertDevice, Upserted, Before
<1>3. IngestCPECandidate(r, s, g) = IF TargetAllowed(r, g.ip) THEN y ELSE s
  BY Zenon DEF IngestCPECandidate, UpsertDevice, Upserted, Before
<1>4. Known(Before(s, g.ip))
  BY BeforeKnown
<1>5. Grows(Before(s, g.ip), a) /\ Grows(Before(s, g.ip), b)
  BY <1>4, GatewayDeviceGrows
<1> HIDE DEF a, b
<1>6. TargetAllowed(r, g.ip) => Settles(r, s, x) /\ Settles(r, s, y)
  BY <1>1, <1>5
<1> HIDE DEF x, y
<1> QED
  BY <1>0, <1>2, <1>3, <1>6

LEMMA SettlesKnown == \A r, a, b : Settles(r, a, b) => KnownStore(r, b) /\ Recorded(r, b)
  BY DEF Settles, StoreGrew, Recorded

LEMMA HopsPassed ==
    ASSUME NEW r, NEW c, SoundContext(c), NEW base, KnownStore(r, base), Recorded(r, base)
    PROVE  /\ Settles(r, base, IngestHops(r, c, base))
           /\ \A h \in ToSet(c.hops) : h.ip \in DOMAIN IngestHops(r, c, base).devices
<1> DEFINE s == IngestHops(r, c, base)
           S == ToSet(c.hops)
           p == <<r, c>>
<1>0. IsSlice(c.hops)
  BY DEF SoundContext
<1>1. Ran("hops", p, base, S, s)
  BY <1>0, HopsRan
<1> HIDE DEF s
<1>2. \A a, x : Turn("hops", p, a, x) = IngestHop(r, c, a, x)
  BY DEF Turn
<1> HIDE DEF p
<1>3. \A a, b : Leads("settled", r, a, b) <=> Settles(r, a, b)
  BY DEF Leads, Settles
<1>4. \A a : \A x \in S : KnownStore(r, a) /\ Recorded(r, a) =>
         Settles(r, a, IngestHop(r, c, a, x)) /\ x.ip \in DOMAIN IngestHop(r, c, a, x).devices
  BY HopTurn
<1>5. Rounds("settled", r, "hops", p, base, S)
  BY <1>2, <1>3, <1>4, SettlesKnown DEF Rounds
<1>6. Leads("settled", r, base, base)
  BY <1>3, SettlesSelf
<1>7. Leads("settled", r, base, s) /\ \A x \in S : Passed("settled", r, "hops", p, base, x, s)
  BY <1>1, <1>5, <1>6, LoopLeads
<1>8. ASSUME NEW x \in S PROVE x.ip \in DOMAIN s.devices
  <2>1. PICK a : Settles(r, base, a) /\ Settles(r, a, IngestHop(r, c, a, x)) /\ Settles(r, IngestHop(r, c, a, x), s)
    BY <1>2, <1>3, <1>7 DEF Passed
  <2>2. x.ip \in DOMAIN IngestHop(r, c, a, x).devices
    BY <1>4, <2>1, SettlesKnown
  <2> QED
    BY <2>1, <2>2 DEF Settles, StoreGrew
<1> QED
  BY <1>3, <1>7, <1>8 DEF s

LEMMA GatewaysPassed ==
    ASSUME NEW r, SoundReport(r), NEW base, KnownStore(r, base), Recorded(r, base), NEW devices, IsFiniteSet(devices),
           \A g \in devices : SoundGateway(g)
    PROVE  Settles(r, base, IngestGatewayDevices(r, base, devices)) /\ Settles(r, base, IngestCPECandidates(r, base, devices))
<1> DEFINE s == IngestGatewayDevices(r, base, devices)
           t == IngestCPECandidates(r, base, devices)
<1>1. Ran("gateways", r, base, devices, s) /\ Ran("cpes", r, base, devices, t)
  BY GatewaysRan, CPEsRan
<1> HIDE DEF s, t
<1>2. \A a, x : Turn("gateways", r, a, x) = IngestGatewayDevice(r, a, x) /\ Turn("cpes", r, a, x) = IngestCPECandidate(r, a, x)
  BY DEF Turn
<1>3. \A a, b : Leads("settled", r, a, b) <=> Settles(r, a, b)
  BY DEF Leads, Settles
<1>4. \A a : \A x \in devices : KnownStore(r, a) /\ Recorded(r, a) =>
         Settles(r, a, IngestGatewayDevice(r, a, x)) /\ Settles(r, a, IngestCPECandidate(r, a, x))
  BY GatewayTurn
<1>5. Rounds("settled", r, "gateways", r, base, devices) /\ Rounds("settled", r, "cpes", r, base, devices)
  BY <1>2, <1>3, <1>4, SettlesKnown DEF Rounds
<1>6. Leads("settled", r, base, base)
  BY <1>3, SettlesSelf
<1>7. Leads("settled", r, base, s) /\ Leads("settled", r, base, t)
  BY <1>1, <1>5, <1>6, LoopLeads
<1> QED
  BY <1>3, <1>7 DEF s, t

LEMMA ContextPassed ==
    ASSUME NEW r, SoundReport(r), NEW c, SoundContext(c), NEW base, KnownStore(r, base), Recorded(r, base)
    PROVE  LET s == IngestAccessContext(r, c, base)
           IN  StoreGrew(r, base, s) /\ Recorded(r, s) /\ \A h \in ToSet(c.hops) : h.ip \in DOMAIN s.devices
<1> DEFINE a == IngestHops(r, c, base)
           b == IngestGatewayDevices(r, a, c.devices)
           s == IngestCPECandidates(r, b, c.cpes)
<1>1. IngestAccessContext(r, c, base) = s
  BY Zenon DEF IngestAccessContext
<1>2. /\ IsFiniteSet(c.devices) /\ IsFiniteSet(c.cpes)
      /\ (\A g \in c.devices : SoundGateway(g)) /\ (\A g \in c.cpes : SoundGateway(g))
  BY DEF SoundContext
<1>3. Settles(r, base, a) /\ \A h \in ToSet(c.hops) : h.ip \in DOMAIN a.devices
  BY HopsPassed
<1>4. KnownStore(r, a) /\ Recorded(r, a)
  BY <1>3, SettlesKnown
<1> HIDE DEF a
<1>5. Settles(r, a, b)
  BY <1>2, <1>4, GatewaysPassed
<1>6. KnownStore(r, b) /\ Recorded(r, b)
  BY <1>5, SettlesKnown
<1> HIDE DEF b
<1>7. Settles(r, b, s)
  BY <1>2, <1>6, GatewaysPassed
<1> HIDE DEF s
<1>8. StoreGrew(r, a, s) /\ StoreGrew(r, base, s) /\ Recorded(r, s)
  BY <1>3, <1>5, <1>7, StoreGrewOn, SettlesKnown DEF Settles
<1>9. \A h \in ToSet(c.hops) : h.ip \in DOMAIN s.devices
  BY <1>3, <1>8 DEF StoreGrew
<1> QED
  BY <1>1, <1>8, <1>9

-----------------------------------------------------------------------------
(* The edges of the intelligence section, and what the devices learn of    *)
(* them.                                                                   *)

\* The types of the edges a scan links: drawn, converted or of the gateway chain.
LinkTypes == DrawnTypes \cup {"default_gateway_route", "same_subnet_inferred", "upstream_private_gateway"}

\* An edge that can be drawn between these addresses, and does not claim to be physical.
Linkable(e, ips) == e.type \in LinkTypes /\ e.conf \in 0..100 /\ ~e.physical /\ {e.source, e.target} \subseteq ips

LEMMA ConvertedEdge ==
    ASSUME NEW e, NEW ips, NEW known, SoundEdge(e, ips, known)
    PROVE  Linkable(ConvertEdge(e), ips)
<1> DEFINE type == MapEdgeType(e.type)
           conf == EdgeConfidence(e)
           inferred == e.type \in {"gateway_default", "inferred_l2", "route_hop"}
           physical == e.type \in PhysicalTypes
           x == ConvertEdge(e)
<1>1. x = [id |-> e.id, source |-> e.source, target |-> e.target, type |-> type, conf |-> conf, ev |-> e.ev,
           inferred |-> inferred, physical |-> physical]
  BY Zenon DEF ConvertEdge
<1>2. e.conf \in 0..100 /\ (e.type = "gateway_default" \/ e.type = "inferred_l2") /\ {e.source, e.target} \subseteq ips
  BY DEF SoundEdge, DrawnTypes
<1>3. conf \in 0..100
  <2>1. e.type = "inferred_l2" => conf = Lesser(e.conf, 35)
    BY DEF EdgeConfidence
  <2>2. e.type = "gateway_default" => conf = Lesser(Greater(e.conf, 45), 60)
    BY DEF EdgeConfidence
  <2> HIDE DEF conf
  <2> QED
    BY <1>2, <2>1, <2>2 DEF Lesser, Greater
<1>4. ~physical
  BY <1>2 DEF PhysicalTypes
<1>41. type \in LinkTypes
  BY <1>2 DEF MapEdgeType, LinkTypes
<1> HIDE DEF type, conf, inferred, physical, x
<1>5. x.type = type /\ x.source = e.source /\ x.target = e.target /\ x.conf = conf /\ x.physical = physical
  BY <1>1
<1>6. Linkable(x, ips)
  BY <1>2, <1>3, <1>4, <1>41, <1>5 DEF Linkable
<1> QED
  BY <1>6 DEF x

LEMMA ChainEdges ==
    ASSUME NEW c, SoundContext(c), NEW ips, \A h \in ToSet(c.hops) : h.ip \in ips
    PROVE  IsFiniteSet(GatewayChainEdges(c)) /\ \A e \in GatewayChainEdges(c) : Linkable(e, ips)
<1> DEFINE Pair(i) == <<c.hops[i].ip, c.hops[i + 1].ip>>
           pairs == {i \in 1 .. Len(c.hops) - 1 : \A j \in 1 .. i - 1 : Pair(j) # Pair(i)}
           Edge(i) == [id |-> <<i, None, "upstream">>, source |-> Pair(i)[1], target |-> Pair(i)[2], type |-> "upstream_private_gateway",
                       conf |-> Greater(c.conf, 60), ev |-> {c.hops[i].ev, c.hops[i + 1].ev}, inferred |-> TRUE, physical |-> FALSE]
           f == [i \in pairs |-> Edge(i)]
<1>1. GatewayChainEdges(c) = {Edge(i) : i \in pairs}
  BY Zenon DEF GatewayChainEdges
<1>2. Len(c.hops) \in Nat /\ DOMAIN c.hops = 1..Len(c.hops)
  BY SliceIs DEF SoundContext
<1>3. \A i \in pairs : i \in 1..Len(c.hops) /\ i + 1 \in 1..Len(c.hops)
  BY <1>2
<1>4. IsFiniteSet(pairs)
  <2>1. Len(c.hops) - 1 \in Int /\ 1 \in Int
    BY <1>2
  <2>2. IsFiniteSet(1 .. Len(c.hops) - 1)
    BY <2>1, FS_Interval
  <2>3. pairs \subseteq 1 .. Len(c.hops) - 1
    OBVIOUS
  <2> HIDE DEF pairs
  <2> QED
    BY <2>2, <2>3, FS_Subset
<1> HIDE DEF pairs
<1>5. \A i \in pairs : c.hops[i].ip \in ips /\ c.hops[i + 1].ip \in ips
  BY <1>2, <1>3 DEF ToSet
<1>6. Greater(c.conf, 60) \in 0..100
  BY DEF Greater, SoundContext
<1>7. \A i \in pairs : Linkable(Edge(i), ips)
  <2> TAKE i \in pairs
  <2> DEFINE conf == Greater(c.conf, 60)
             id == <<i, None, "upstream">>
             ev == {c.hops[i].ev, c.hops[i + 1].ev}
             x == c.hops[i].ip
             y == c.hops[i + 1].ip
             pair == Pair(i)
  <2>1. pair[1] = x /\ pair[2] = y
    OBVIOUS
  <2>2. x \in ips /\ y \in ips /\ conf \in 0..100
    BY <1>5, <1>6
  <2>3. Edge(i) = [id |-> id, source |-> pair[1], target |-> pair[2], type |-> "upstream_private_gateway", conf |-> conf, ev |-> ev,
                   inferred |-> TRUE, physical |-> FALSE]
    BY Zenon
  <2> HIDE DEF conf, id, ev, x, y, pair, Edge
  <2>4. /\ Edge(i).source = x /\ Edge(i).target = y /\ Edge(i).conf = conf /\ Edge(i).physical = FALSE
        /\ Edge(i).type = "upstream_private_gateway"
    BY <2>1, <2>3
  <2> QED
    BY <2>2, <2>4 DEF Linkable, LinkTypes
<1>8. {Edge(i) : i \in pairs} = {f[i] : i \in pairs}
  <2> HIDE DEF Edge
  <2> QED
    OBVIOUS
<1> HIDE DEF Edge, f
<1>9. IsFiniteSet({f[i] : i \in pairs})
  BY <1>4, ImageFinite
<1> QED
  BY <1>1, <1>7, <1>8, <1>9

LEMMA ConvertedEdges ==
    ASSUME NEW r, SoundReport(r), NEW c, SoundContext(c), NEW ips,
           \A x \in ToSet(r.devices) : x.ip \in ips, \A h \in ToSet(c.hops) : h.ip \in ips
    PROVE  IsFiniteSet(ConvertEdges(r, c)) /\ \A e \in ConvertEdges(r, c) : Linkable(e, ips)
<1> DEFINE own == {ConvertEdge(e) : e \in r.edges}
           chain == GatewayChainEdges(c)
           f == [e \in r.edges |-> ConvertEdge(e)]
           listed == {r.devices[i].ip : i \in DOMAIN r.devices}
<1>1. ConvertEdges(r, c) = own \cup chain
  BY Zenon DEF ConvertEdges
<1>2. IsFiniteSet(chain) /\ \A e \in chain : Linkable(e, ips)
  BY ChainEdges
<1>3. IsFiniteSet(r.edges) /\ \A e \in r.edges : SoundEdge(e, listed, Ids(r.evidence))
  BY DEF SoundReport
<1>4. listed \subseteq ips
  BY DEF ToSet
<1> HIDE DEF chain, listed
<1>5. \A e \in r.edges : Linkable(ConvertEdge(e), ips)
  <2> TAKE e \in r.edges
  <2>1. Linkable(ConvertEdge(e), listed)
    BY <1>3, ConvertedEdge
  <2> QED
    BY <1>4, <2>1 DEF Linkable
<1>6. own = {f[e] : e \in r.edges}
  OBVIOUS
<1> HIDE DEF f
<1>7. IsFiniteSet(own)
  BY <1>3, <1>6, ImageFinite
<1>8. \A e \in own : Linkable(e, ips)
  BY <1>5
<1> HIDE DEF own
<1>9. IsFiniteSet(own \cup chain)
  BY <1>2, <1>7, FS_Union
<1> QED
  BY <1>1, <1>2, <1>8, <1>9

LEMMA HintGrows ==
    ASSUME NEW d, Known(d), NEW e, ~e.physical
    PROVE  Grows(d, WithHint(d, e))
<1> DEFINE h == WithHint(d, e)
<1>1. /\ DOMAIN h = DOMAIN d /\ h.ip = d.ip /\ h.conf = d.conf /\ h.ev = d.ev /\ h.services = d.services /\ h.cands = d.cands
      /\ h.upnp = d.upnp /\ h.agent = d.agent /\ h.gateway = d.gateway
  BY DEF WithHint
<1>2. h.proven = (d.proven \/ e.physical)
  BY DEF WithHint, Known, DeviceFields
<1> HIDE DEF h
<1>3. Known(h)
  BY <1>1, <1>2 DEF Known
<1>4. Grows(d, h)
  BY <1>1, <1>3 DEF Grows, DeviceGrew, SameFlags
<1> QED
  BY <1>4 DEF h

LEMMA HintTurn ==
    ASSUME NEW r, NEW s, KnownStore(r, s), NEW e, ~e.physical
    PROVE  StoreGrew(r, s, AddEdgeHint(s, e))
<1> DEFINE devices == [ip \in DOMAIN s.devices |-> IF ip \in {e.source, e.target} THEN WithHint(s.devices[ip], e) ELSE s.devices[ip]]
           t == [s EXCEPT !.devices = devices]
<1>1. AddEdgeHint(s, e) = t
  BY Zenon DEF AddEdgeHint
<1>2. \A ip \in DOMAIN s.devices : Grows(s.devices[ip], WithHint(s.devices[ip], e))
  BY HintGrows DEF KnownStore
<1>3. /\ DOMAIN devices = DOMAIN s.devices
      /\ \A ip \in DOMAIN s.devices : devices[ip] = s.devices[ip] \/ devices[ip] = WithHint(s.devices[ip], e)
  OBVIOUS
<1> HIDE DEF devices
<1>4. DOMAIN t = {"devices", "obs"} /\ t.devices = devices /\ t.obs = s.obs
  BY DEF KnownStore
<1> HIDE DEF t
<1>5. \A ip \in DOMAIN s.devices : ip \in DOMAIN t.devices /\ Grows(s.devices[ip], t.devices[ip])
  BY <1>2, <1>3, <1>4, GrowsFrom DEF KnownStore
<1>6. KnownStore(r, t)
  BY <1>3, <1>4, <1>5, GrowsKnown DEF KnownStore, Traced
<1> QED
  BY <1>1, <1>4, <1>5, <1>6 DEF StoreGrew

LEMMA HintsPassed ==
    ASSUME NEW r, NEW base, KnownStore(r, base), NEW edges, IsFiniteSet(edges), \A e \in edges : ~e.physical
    PROVE  StoreGrew(r, base, AddEdgeHints(base, edges))
<1> DEFINE s == AddEdgeHints(base, edges)
<1>1. Ran("hints", 0, base, edges, s)
  BY HintsRan
<1> HIDE DEF s
<1>2. \A a, x : Turn("hints", 0, a, x) = AddEdgeHint(a, x)
  BY DEF Turn
<1>3. \A a, b : Leads("store", r, a, b) <=> StoreGrew(r, a, b)
  BY DEF Leads
<1>4. \A a : \A x \in edges : KnownStore(r, a) => StoreGrew(r, a, AddEdgeHint(a, x))
  BY HintTurn
<1>5. Rounds("store", r, "hints", 0, base, edges)
  BY <1>2, <1>3, <1>4 DEF Rounds, StoreGrew
<1>6. Leads("store", r, base, base)
  BY <1>3, GrowsFrom DEF StoreGrew, KnownStore
<1>7. Leads("store", r, base, s)
  BY <1>1, <1>5, <1>6, LoopLeads
<1> QED
  BY <1>3, <1>7 DEF s

\* The store a report and a context fill.
Filled(r, c) == IngestAccessContext(r, c, IngestEvidenceRecords(r, IngestTopologyDevices(r, EmptyStore)))

Hinted(r, c) == AddEdgeHints(Filled(r, c), ConvertEdges(r, c))

LEMMA StoreFilled ==
    ASSUME NEW r, SoundReport(r), NEW c, SoundContext(c)
    PROVE  /\ KnownStore(r, Hinted(r, c)) /\ Recorded(r, Hinted(r, c))
           /\ \A x \in ToSet(r.devices) : TargetAllowed(r, x.ip) => Ingested(x, Hinted(r, c))
           /\ \A h \in ToSet(c.hops) : h.ip \in DOMAIN Hinted(r, c).devices
           /\ \A e \in ConvertEdges(r, c) :
                 Linkable(e, {x.ip : x \in ToSet(r.devices)} \cup DOMAIN Hinted(r, c).devices)
           /\ IsFiniteSet(ConvertEdges(r, c))
<1> DEFINE topo == IngestTopologyDevices(r, EmptyStore)
           recs == IngestEvidenceRecords(r, topo)
           filled == IngestAccessContext(r, c, recs)
           edges == ConvertEdges(r, c)
           hinted == AddEdgeHints(filled, edges)
           every == {x.ip : x \in ToSet(r.devices)} \cup DOMAIN hinted.devices
<1>0. Hinted(r, c) = hinted
  BY Zenon DEF Hinted, Filled
<1>1. KnownStore(r, topo) /\ \A x \in ToSet(r.devices) : TargetAllowed(r, x.ip) => Ingested(x, topo)
  BY TopologyPassed
<1> HIDE DEF topo
<1>2. StoreGrew(r, topo, recs) /\ Recorded(r, recs)
  BY <1>1, RecordsPassed
<1>3. KnownStore(r, recs)
  BY <1>2 DEF StoreGrew
<1> HIDE DEF recs
<1>4. StoreGrew(r, recs, filled) /\ Recorded(r, filled) /\ \A h \in ToSet(c.hops) : h.ip \in DOMAIN filled.devices
  BY <1>2, <1>3, ContextPassed
<1>5. KnownStore(r, filled)
  BY <1>4 DEF StoreGrew
<1> HIDE DEF filled
<1>6. IsFiniteSet(edges) /\ \A e \in edges : Linkable(e, {x.ip : x \in ToSet(r.devices)} \cup {h.ip : h \in ToSet(c.hops)})
  BY ConvertedEdges
<1>7. \A e \in edges : ~e.physical
  BY <1>6 DEF Linkable
<1> HIDE DEF edges
<1>8. StoreGrew(r, filled, hinted)
  BY <1>5, <1>6, <1>7, HintsPassed
<1> HIDE DEF hinted
<1>9. StoreGrew(r, topo, hinted)
  BY <1>2, <1>4, <1>8, StoreGrewOn
<1>10. KnownStore(r, hinted) /\ Recorded(r, hinted)
  BY <1>4, <1>8 DEF StoreGrew, Recorded
<1>11. \A x \in ToSet(r.devices) : TargetAllowed(r, x.ip) => Ingested(x, hinted)
  BY <1>1, <1>9, ListedGrows
<1>12. \A h \in ToSet(c.hops) : h.ip \in DOMAIN hinted.devices
  BY <1>4, <1>8 DEF StoreGrew
<1>13. \A e \in edges : Linkable(e, every)
  BY <1>6, <1>12 DEF Linkable
<1> HIDE DEF every
<1> QED
  BY <1>0, <1>6, <1>10, <1>11, <1>12, <1>13 DEF edges, every

-----------------------------------------------------------------------------
(* What classifying a device makes of it.                                  *)

\* All a classified device cites for what it is taken to be.
Claimed(d) == d.type.ev \cup d.os.ev \cup (UNION {f.ev : f \in d.findings}) \cup (UNION {d.cands[t].ev : t \in DOMAIN d.cands})

SoundIntel(d) == DOMAIN d = DeviceFields /\ d.conf \in 0..100 /\ ~d.proven /\ Claimed(d) \subseteq d.ev

\* The device of the section keeps what the store knew.
Kept(x, d) == d.ip = x.ip /\ x.ev \subseteq d.ev /\ DOMAIN x.services \subseteq DOMAIN d.services /\ SameFlags(x, d)

LEMMA PortEvidence ==
    ASSUME NEW d, Known(d)
    PROVE  \A ports : EvidenceIDsForPorts(d, ports) \subseteq d.ev
  BY DEF EvidenceIDsForPorts, Known

LEMMA RolesGrow ==
    ASSUME NEW d, Known(d)
    PROVE  Grows(d, AddServiceRoles(d))
<1> DEFINE w == AddServiceRoles(d)
<1>1. /\ DOMAIN w = DOMAIN d /\ w.ip = d.ip /\ w.conf = d.conf /\ w.ev = d.ev /\ w.services = d.services
      /\ w.cands = d.cands /\ w.upnp = d.upnp /\ w.agent = d.agent /\ w.gateway = d.gateway /\ w.proven = d.proven
  BY DEF AddServiceRoles
<1> HIDE DEF w
<1> QED
  BY <1>1, SameGrows DEF w

LEMMA ProtocolGrows ==
    ASSUME NEW d, Known(d)
    PROVE  Grows(d, AddProtocolInfo(d))
<1> DEFINE told == EvidenceIDsForPorts(d, {1900})
           w == [d EXCEPT !.upnp = told]
<1>1. AddProtocolInfo(d) = IF HasAnyPort(d, {1900}) THEN w ELSE d
  BY Zenon DEF AddProtocolInfo
<1>2. told \subseteq d.ev
  BY PortEvidence
<1> HIDE DEF told
<1>3. /\ DOMAIN w = DOMAIN d /\ w.ip = d.ip /\ w.conf = d.conf /\ w.ev = d.ev /\ w.services = d.services
      /\ w.cands = d.cands /\ w.agent = d.agent /\ w.gateway = d.gateway /\ w.proven = d.proven
  OBVIOUS
<1>4. w.upnp = told
  BY DEF Known, DeviceFields
<1> HIDE DEF w
<1>5. Known(w)
  BY <1>2, <1>3, <1>4 DEF Known
<1>6. Grows(d, w)
  BY <1>3, <1>5 DEF Grows, DeviceGrew, SameFlags
<1> QED
  BY <1>1, <1>6, GrowsFrom

LEMMA RulesCite ==
    ASSUME NEW d, Known(d), NEW prints
    PROVE  IsFiniteSet(CandidateRules(d, prints)) /\ \A r \in CandidateRules(d, prints) : r[3] \subseteq d.ev
<1> DEFINE Ports(ports) == EvidenceIDsForPorts(d, ports)
           windows == {135, 139, 5357}
           t1 == <<"gateway_router", IF HasAnyPort(d, WebPorts \cup {53}) THEN 82 ELSE 70, d.ev, d.gateway>>
           t2 == <<"upstream_gateway_cpe_candidate", 60, d.ev, d.upstream>>
           t3 == <<"printer", 65, Ports({515, 631, 9100}), HasAnyPort(d, {515, 631, 9100})>>
           t4 == <<"windows_pc_or_server", IF HasAnyPort(d, windows) THEN 74 ELSE 60, Ports(windows \cup {445}), HasAnyPort(d, {445})>>
           t5 == <<"nas", 62, Ports({5000, 5001}), HasAnyPort(d, {5000, 5001})>>
           t6 == <<"smart_tv_or_media_device", 68, Ports({8008, 8009, 32400}), HasAnyPort(d, {8008, 8009, 32400})>>
           t7 == <<"ip_camera", 55, Ports({554}), HasAnyPort(d, {554})>>
           t8 == <<"iot_device", 58, Ports({1883}), HasAnyPort(d, {1883})>>
           t9 == <<"home_automation_server", 72, Ports({8123}), HasAnyPort(d, {8123})>>
           t10 == <<IF prints.os = "android" THEN "android_device" ELSE "macos_ios_device", Greater(prints.conf, 45), d.ev, prints.os # "unknown">>
           t11 == <<"server", 52, Ports(WebPorts \cup {22}), HasAnyPort(d, {22}) /\ HasAnyPort(d, WebPorts) /\ ~d.gateway>>
           rules == CandidateRules(d, prints)
<1>1. rules = {t1, t2, t3, t4, t5, t6, t7, t8, t9, t10, t11}
  BY DEF CandidateRules
<1>2. \A ports : Ports(ports) \subseteq d.ev
  BY PortEvidence
<1> HIDE DEF Ports, rules
<1>3. t1[3] \subseteq d.ev /\ t2[3] \subseteq d.ev /\ t3[3] \subseteq d.ev /\ t4[3] \subseteq d.ev
  BY <1>2
<1>4. t5[3] \subseteq d.ev /\ t6[3] \subseteq d.ev /\ t7[3] \subseteq d.ev /\ t8[3] \subseteq d.ev
  BY <1>2
<1>5. t9[3] \subseteq d.ev /\ t10[3] \subseteq d.ev /\ t11[3] \subseteq d.ev
  BY <1>2
<1> HIDE DEF t1, t2, t3, t4, t5, t6, t7, t8, t9, t10, t11
<1>6. IsFiniteSet(rules)
  BY <1>1, ElevenFinite
<1>7. \A r \in rules : r[3] \subseteq d.ev
  BY <1>1, <1>3, <1>4, <1>5
<1> QED
  BY <1>6, <1>7 DEF rules

LEMMA CandidatesAdded ==
    ASSUME NEW d, Known(d), NEW prints
    PROVE  Grows(d, AddDeviceTypeCandidates(d, prints))
<1> DEFINE rules == {r \in CandidateRules(d, prints) : r[4]}
<1>1. AddDeviceTypeCandidates(d, prints) = MergeCandidates(d, rules)
  BY Zenon DEF AddDeviceTypeCandidates
<1>2. IsFiniteSet(rules) /\ \A r \in rules : r[3] \subseteq d.ev
  BY RulesCite, FS_Subset
<1> HIDE DEF rules
<1>3. Grows(d, MergeCandidates(d, rules))
  BY <1>2, CandidatesGrow
<1> QED
  BY <1>1, <1>3

LEMMA TypeCited ==
    ASSUME NEW d, Known(d)
    PROVE  PickPrimaryType(d).ev \subseteq d.ev
<1> DEFINE Better(s, t) == d.cands[s].conf > d.cands[t].conf
           best == {i \in DOMAIN TypeOrder : /\ TypeOrder[i] \in DOMAIN d.cands
                                             /\ \A t \in DOMAIN d.cands : ~Better(t, TypeOrder[i])}
           top == TypeOrder[Min(best)]
           weak == [Unidentified EXCEPT !.conf = d.cands[top].conf]
           found == [primary |-> top, conf |-> d.cands[top].conf, ev |-> d.cands[top].ev]
<1>1. PickPrimaryType(d) = IF best = {} THEN Unidentified ELSE IF d.cands[top].conf < 50 THEN weak ELSE found
  BY Zenon DEF PickPrimaryType
<1>2. DOMAIN TypeOrder \subseteq Nat
  BY DEF TypeOrder
<1>3. best \in SUBSET Nat
  BY <1>2
<1>4. best # {} => top \in DOMAIN d.cands
  <2> HIDE DEF best
  <2>1. best # {} => Min(best) \in best
    BY <1>3, MinIn
  <2> QED
    BY <2>1 DEF best
<1> HIDE DEF best, top
<1>5. Unidentified.ev = {} /\ weak.ev = {} /\ found.ev = d.cands[top].ev
  <2>1. DOMAIN Unidentified = {"primary", "conf", "ev"} /\ Unidentified.ev = {}
    BY DEF Unidentified
  <2> QED
    BY <2>1
<1>6. best # {} => found.ev \subseteq d.ev
  BY <1>4, <1>5 DEF Known
<1> HIDE DEF weak, found
<1> QED
  BY <1>1, <1>5, <1>6

LEMMA OSCited ==
    ASSUME NEW d, Known(d), NEW prints
    PROVE  GuessOS(d, prints).ev \subseteq d.ev
<1> DEFINE smb == EvidenceIDsForPorts(d, {135, 139, 445, 5357})
           told == [family |-> prints.os, conf |-> prints.conf, ev |-> d.ev]
           windows == [family |-> "windows", conf |-> 72, ev |-> smb]
<1>1. GuessOS(d, prints) =
        IF prints.os # "unknown" THEN told
        ELSE IF HasAnyPort(d, {445}) /\ HasAnyPort(d, {135, 139, 5357}) THEN windows ELSE UnknownOS
  BY Zenon DEF GuessOS
<1>2. smb \subseteq d.ev
  BY PortEvidence
<1> HIDE DEF smb
<1>3. told.ev = d.ev /\ windows.ev = smb /\ UnknownOS.ev = {}
  BY DEF UnknownOS
<1> HIDE DEF told, windows
<1> QED
  BY <1>1, <1>2, <1>3

LEMMA FindingsCited ==
    ASSUME NEW d, Known(d), NEW type
    PROVE  \A f \in SecurityFindings(d, type) : f.ev \subseteq d.ev
<1> DEFINE p1 == EvidenceIDsForPorts(d, {23})
           p2 == EvidenceIDsForPorts(d, {445})
           p3 == EvidenceIDsForPorts(d, {80, 8080})
           p4 == EvidenceIDsForPorts(d, {9100})
           o1 == HasAnyPort(d, {23})
           o2 == HasAnyPort(d, {445})
           o3 == HasAnyPort(d, {80, 8080}) /\ (d.gateway \/ d.upstream)
           o4 == HasAnyPort(d, {9100})
           o5 == d.upnp # {}
           o6 == type.primary = "unknown"
           o7 == d.agent /\ Cardinality(DOMAIN d.services) >= 5
           f1 == [id |-> "open_telnet", severity |-> "high", ev |-> p1, on |-> o1]
           f2 == [id |-> "open_smb", severity |-> "medium", ev |-> p2, on |-> o2]
           f3 == [id |-> "open_http_management", severity |-> "medium", ev |-> p3, on |-> o3]
           f4 == [id |-> "printer_raw_9100", severity |-> "medium", ev |-> p4, on |-> o4]
           f5 == [id |-> "upnp_exposed_lan", severity |-> "low", ev |-> d.upnp, on |-> o5]
           f6 == [id |-> "unknown_device", severity |-> "low", ev |-> d.ev, on |-> o6]
           f7 == [id |-> "many_services_on_agent", severity |-> "info", ev |-> d.ev, on |-> o7]
           all == {f1, f2, f3, f4, f5, f6, f7}
<1>1. SecurityFindings(d, type) = {f \in all : f.on}
  BY DEF SecurityFindings
<1>2. p1 \subseteq d.ev /\ p2 \subseteq d.ev /\ p3 \subseteq d.ev /\ p4 \subseteq d.ev /\ d.upnp \subseteq d.ev
  BY PortEvidence DEF Known
<1> HIDE DEF p1, p2, p3, p4, o1, o2, o3, o4, o5, o6, o7
<1>3. f1.ev = p1 /\ f2.ev = p2 /\ f3.ev = p3 /\ f4.ev = p4 /\ f5.ev = d.upnp /\ f6.ev = d.ev /\ f7.ev = d.ev
  OBVIOUS
<1> HIDE DEF f1, f2, f3, f4, f5, f6, f7
<1>4. \A f \in all : f.ev \subseteq d.ev
  BY <1>2, <1>3
<1> QED
  BY <1>1, <1>4

LEMMA FinalConfidence ==
    ASSUME NEW d, Known(d), NEW type
    PROVE  FinalizeConfidence(d, type) \in 0..100
<1> DEFINE S == {d.conf} \cup (IF d.agent THEN {95} ELSE {}) \cup (IF d.gateway THEN {90} ELSE {}) \cup (IF d.upstream THEN {60} ELSE {})
                     \cup (IF d.macs # {} THEN {55} ELSE {})
                     \cup (IF d.services # Nothing \/ d.http # {} \/ d.tls # {} THEN {75} ELSE {})
           floor == Max(S)
           low == Lesser(Greater(floor, 45), 60)
           high == Lesser(floor, 100)
           all == {d.conf} \cup (55..95)
<1>1. FinalizeConfidence(d, type) = IF type.primary = "unknown" /\ d.services = Nothing /\ ~d.gateway /\ ~d.upstream THEN low ELSE high
  BY Zenon DEF FinalizeConfidence
<1>2. S \subseteq all /\ d.conf \in S /\ d.conf \in Nat
  BY DEF Known
<1>3. IsFiniteSet(all)
  <2>1. 55 \in Int /\ 95 \in Int
    OBVIOUS
  <2>2. IsFiniteSet(55..95) /\ IsFiniteSet({d.conf})
    BY <2>1, FS_Interval, FS_Singleton
  <2> QED
    BY <2>2, FS_Union
<1>4. all \in SUBSET Nat
  BY <1>2
<1> HIDE DEF S, all
<1>5. IsFiniteSet(S) /\ S \in SUBSET Int /\ S # {} /\ S \in SUBSET Nat
  <2>1. \A X, T : T \subseteq X /\ IsFiniteSet(X) => IsFiniteSet(T)
    BY FS_Subset
  <2>2. IsFiniteSet(S)
    BY <1>2, <1>3, <2>1
  <2> QED
    BY <1>2, <1>4, <2>2
<1>6. floor \in Nat
  BY <1>5, MaxOfInts
<1> HIDE DEF floor
<1>7. low \in 0..100 /\ high \in 0..100
  BY <1>6 DEF Lesser, Greater
<1> QED
  BY <1>1, <1>7

LEMMA ClassifiedSound ==
    ASSUME NEW x, Known(x), NEW prints
    PROVE  SoundIntel(ClassifyDevice(x, prints)) /\ Kept(x, ClassifyDevice(x, prints))
<1> DEFINE roled == AddServiceRoles(x)
           known == AddProtocolInfo(roled)
           full == AddDeviceTypeCandidates(known, prints)
           type == PickPrimaryType(full)
           lost == IF DOMAIN full.cands = {} THEN {"unknown_host"} ELSE {}
           findings == SecurityFindings(full, type)
           conf == FinalizeConfidence(full, type)
           os == GuessOS(full, prints)
           risk == RiskLevel(findings)
           d == [full EXCEPT !.roles = @ \cup lost, !.conf = conf, !.type = type, !.os = os, !.findings = findings, !.risk = risk]
<1>1. ClassifyDevice(x, prints) = d
  BY Zenon DEF ClassifyDevice
<1>2. Grows(x, roled)
  BY RolesGrow
<1>3. Known(roled)
  BY <1>2, GrowsKnown
<1> HIDE DEF roled
<1>4. Grows(roled, known)
  BY <1>3, ProtocolGrows
<1>5. Known(known)
  BY <1>4, GrowsKnown
<1> HIDE DEF known
<1>6. Grows(known, full)
  BY <1>5, CandidatesAdded
<1>7. Known(full)
  BY <1>6, GrowsKnown
<1>8. Grows(x, full)
  BY <1>2, <1>4, <1>6, GrowsOn
<1> HIDE DEF full
<1>9. type.ev \subseteq full.ev
  BY <1>7, TypeCited
<1> HIDE DEF type
<1>10. \A f \in findings : f.ev \subseteq full.ev
  BY <1>7, FindingsCited
<1>11. conf \in 0..100
  BY <1>7, FinalConfidence
<1>12. os.ev \subseteq full.ev
  BY <1>7, OSCited
<1> HIDE DEF lost, findings, conf, os, risk
<1>13. DOMAIN full = DeviceFields
  BY <1>7 DEF Known
<1>14. /\ DOMAIN d = DOMAIN full /\ d.ip = full.ip /\ d.ev = full.ev /\ d.services = full.services /\ d.cands = full.cands
       /\ d.agent = full.agent /\ d.gateway = full.gateway /\ d.proven = full.proven
  OBVIOUS
<1>15. d.conf = conf /\ d.type = type /\ d.os = os /\ d.findings = findings
  BY <1>13 DEF DeviceFields
<1> HIDE DEF d
<1>16. Claimed(d) \subseteq d.ev
  <2>1. \A t \in DOMAIN d.cands : d.cands[t].ev \subseteq d.ev
    BY <1>7, <1>14 DEF Known
  <2>2. d.type.ev \subseteq d.ev /\ d.os.ev \subseteq d.ev /\ \A f \in d.findings : f.ev \subseteq d.ev
    BY <1>9, <1>10, <1>12, <1>14, <1>15
  <2> QED
    BY <2>1, <2>2 DEF Claimed
<1>17. SoundIntel(d)
  BY <1>7, <1>11, <1>13, <1>14, <1>15, <1>16 DEF SoundIntel, Known
<1>18. Kept(x, d)
  BY <1>8, <1>14 DEF Kept, Grows, DeviceGrew, SameFlags
<1> QED
  BY <1>1, <1>17, <1>18

\* What the upstream results add to a device.
Attached(d, found) ==
    [AtLeast(d, found[d.ip].class.conf) EXCEPT !.tags = found[d.ip].class.tags, !.routing = found[d.ip].routing.kind]

LEMMA AttachedSound ==
    ASSUME NEW d, SoundIntel(d), NEW found, found[d.ip].class.conf \in 0..100
    PROVE  /\ SoundIntel(Attached(d, found)) /\ d.conf <= Attached(d, found).conf
           /\ \A x : Kept(x, d) => Kept(x, Attached(d, found))
<1> DEFINE more == found[d.ip].class.conf
           conf == Greater(d.conf, more)
           tags == found[d.ip].class.tags
           kind == found[d.ip].routing.kind
           w == [[d EXCEPT !.conf = conf] EXCEPT !.tags = tags, !.routing = kind]
<1>1. Attached(d, found) = w
  BY Zenon DEF Attached, AtLeast
<1>2. conf \in 0..100 /\ d.conf <= conf
  <2>1. more \in 0..100 /\ d.conf \in 0..100
    BY DEF SoundIntel
  <2> HIDE DEF more
  <2> QED
    BY <2>1 DEF Greater
<1> HIDE DEF conf, tags, kind
<1>3. /\ DOMAIN w = DOMAIN d /\ w.ip = d.ip /\ w.ev = d.ev /\ w.services = d.services /\ w.cands = d.cands /\ w.agent = d.agent
      /\ w.gateway = d.gateway /\ w.proven = d.proven /\ w.type = d.type /\ w.os = d.os /\ w.findings = d.findings
  OBVIOUS
<1>4. w.conf = conf
  BY DEF SoundIntel, DeviceFields
<1> HIDE DEF w
<1>5. SoundIntel(w)
  BY <1>2, <1>3, <1>4 DEF SoundIntel, Claimed
<1>6. \A x : Kept(x, d) => Kept(x, w)
  BY <1>3 DEF Kept, SameFlags
<1> QED
  BY <1>1, <1>2, <1>4, <1>5, <1>6

-----------------------------------------------------------------------------
(* The intelligence section.                                               *)

\* A device of the section has all the report said of x.
Shows(x, d) ==
    /\ d.ip = x.ip /\ x.ev \subseteq d.ev /\ {v.port : v \in x.services} \subseteq DOMAIN d.services
    /\ SameFlags(x, d)

SoundSection(r, s) ==
    /\ "devices" \in DOMAIN s /\ IsFiniteSet(s.devices) /\ IsFiniteSet(s.edges)
    /\ \A d \in s.devices : SoundIntel(d) /\ d.ip \in Nat
    /\ \A d, e \in s.devices : d.ip = e.ip => d = e
    /\ \A x \in ToSet(r.devices) : TargetAllowed(r, x.ip) => \E d \in s.devices : Shows(x, d)
    /\ \A e \in s.edges : Linkable(e, {x.ip : x \in ToSet(r.devices)} \cup {d.ip : d \in s.devices})
    /\ \A e \in ToSet(r.evidence) : TargetAllowed(r, e.ip) => \E o \in s.obs : o.id = e.id /\ o.dev = e.ip

LEMMA BuiltSection ==
    ASSUME NEW r, SoundReport(r), NEW c, SoundContext(c), NEW prints
    PROVE  SoundSection(r, BuildIntel(r, c, prints))
<1> DEFINE hinted == Hinted(r, c)
           edges == ConvertEdges(r, c)
           D == DOMAIN hinted.devices
           devices == {ClassifyDevice(hinted.devices[ip], prints[ip]) : ip \in DOMAIN hinted.devices}
           f == [ip \in D |-> ClassifyDevice(hinted.devices[ip], prints[ip])]
           summary == Summarize(devices, edges)
           cards == {[ip |-> d.ip, conf |-> d.conf, type |-> d.type.primary] : d \in devices}
           s == [devices |-> devices, edges |-> edges, obs |-> hinted.obs, summary |-> summary, cards |-> cards]
           own == {x.ip : x \in ToSet(r.devices)}
<1>1. BuildIntel(r, c, prints) = s
  BY Zenon DEF BuildIntel, Hinted, Filled
<1>2. /\ KnownStore(r, hinted) /\ Recorded(r, hinted) /\ IsFiniteSet(edges)
      /\ \A x \in ToSet(r.devices) : TargetAllowed(r, x.ip) => Ingested(x, hinted)
      /\ \A e \in edges : Linkable(e, own \cup D)
  BY StoreFilled
<1>3. devices = {f[ip] : ip \in D}
  OBVIOUS
<1> HIDE DEF summary, cards, edges, own, hinted
<1>4. \A ip \in D : Known(hinted.devices[ip]) /\ hinted.devices[ip].ip = ip
  BY <1>2 DEF KnownStore
<1>5. \A ip \in D : SoundIntel(f[ip]) /\ Kept(hinted.devices[ip], f[ip])
  BY <1>4, ClassifiedSound
<1>6. DOMAIN s = {"devices", "edges", "obs", "summary", "cards"} /\ s.devices = devices /\ s.edges = edges /\ s.obs = hinted.obs
  OBVIOUS
<1> HIDE DEF s, devices, f
<1>7. IsFiniteSet(D) /\ D \subseteq Nat
  BY <1>2 DEF KnownStore
<1>8. IsFiniteSet(devices)
  BY <1>3, <1>7, ImageFinite
<1>9. \A ip \in D : f[ip].ip = ip /\ f[ip] \in devices
  BY <1>3, <1>4, <1>5 DEF Kept
<1>10. \A d \in devices : d.ip \in D /\ d = f[d.ip]
  BY <1>3, <1>9
<1>11. \A d \in devices : SoundIntel(d) /\ d.ip \in Nat
  BY <1>5, <1>7, <1>10
<1>12. {d.ip : d \in devices} = D
  BY <1>9, <1>10
<1>13. ASSUME NEW x \in ToSet(r.devices), TargetAllowed(r, x.ip) PROVE \E d \in devices : Shows(x, d)
  <2>1. Ingested(x, hinted)
    BY <1>2, <1>13
  <2>2. Kept(hinted.devices[x.ip], f[x.ip]) /\ f[x.ip] \in devices /\ f[x.ip].ip = x.ip
    BY <1>5, <1>9, <2>1 DEF Ingested
  <2>3. Shows(x, f[x.ip])
    BY <2>1, <2>2 DEF Ingested, Kept, Shows, SameFlags
  <2> QED
    BY <2>2, <2>3
<1>14. ASSUME NEW e \in ToSet(r.evidence), TargetAllowed(r, e.ip) PROVE \E o \in hinted.obs : o.id = e.id /\ o.dev = e.ip
  BY <1>2, <1>14 DEF KnownStore, Recorded, Traced
<1>15. \A e \in s.edges : Linkable(e, {x.ip : x \in ToSet(r.devices)} \cup {d.ip : d \in s.devices})
  BY <1>2, <1>6, <1>12 DEF own
<1> QED
  BY <1>1, <1>2, <1>6, <1>8, <1>10, <1>11, <1>13, <1>14, <1>15 DEF SoundSection

LEMMA AttachedSection ==
    ASSUME NEW r, NEW intel0, SoundSection(r, intel0), NEW found, SoundResults(found)
    PROVE  SoundSection(r, AttachUpstreamIntel(intel0, found))
<1> DEFINE Given(d) == IF d.ip \in DOMAIN found THEN Attached(d, found) ELSE d
           f == [d \in intel0.devices |-> Given(d)]
           devices == {Given(d) : d \in intel0.devices}
           s == [intel0 EXCEPT !.devices = devices]
<1>1. AttachUpstreamIntel(intel0, found) = s
  BY Zenon DEF AttachUpstreamIntel, Attached
<1>2. devices = {f[d] : d \in intel0.devices}
  OBVIOUS
<1>3. ASSUME NEW d \in intel0.devices
      PROVE  SoundIntel(Given(d)) /\ \A x : Kept(x, d) => Kept(x, Given(d))
  <2>1. SoundIntel(d)
    BY DEF SoundSection
  <2>2. CASE d.ip \in DOMAIN found
    <3>1. found[d.ip].class.conf \in 0..100
      BY <2>2 DEF SoundResults
    <3>2. SoundIntel(Attached(d, found)) /\ \A x : Kept(x, d) => Kept(x, Attached(d, found))
      BY <2>1, <3>1, AttachedSound
    <3>3. Given(d) = Attached(d, found)
      BY <2>2, Zenon
    <3> QED
      BY <3>2, <3>3
  <2>3. CASE d.ip \notin DOMAIN found
    BY <2>1, <2>3
  <2> QED
    BY <2>2, <2>3
<1>4. \A d \in intel0.devices : f[d] = Given(d)
  OBVIOUS
<1> HIDE DEF Given, f, devices
<1>5. s.devices = devices /\ s.edges = intel0.edges /\ s.obs = intel0.obs /\ DOMAIN s = DOMAIN intel0
  BY DEF SoundSection
<1> HIDE DEF s
<1>6. \A d \in intel0.devices : SoundIntel(f[d]) /\ \A x : Kept(x, d) => Kept(x, f[d])
  BY <1>3, <1>4
<1>7. \A d \in intel0.devices : f[d].ip = d.ip
  <2>1. \A d : Kept(d, d)
    BY DEF Kept, SameFlags
  <2> QED
    BY <1>6, <2>1 DEF Kept
<1>8. IsFiniteSet(devices)
  BY <1>2, ImageFinite DEF SoundSection
<1>9. \A d \in devices : SoundIntel(d) /\ d.ip \in Nat
  BY <1>2, <1>6, <1>7 DEF SoundSection
<1>10. \A d, e \in devices : d.ip = e.ip => d = e
  BY <1>2, <1>7 DEF SoundSection
<1>11. {d.ip : d \in devices} = {d.ip : d \in intel0.devices}
  BY <1>2, <1>7
<1>12. ASSUME NEW x \in ToSet(r.devices), TargetAllowed(r, x.ip) PROVE \E d \in devices : Shows(x, d)
  <2>1. PICK d \in intel0.devices : Shows(x, d)
    BY <1>12 DEF SoundSection
  <2>2. Kept(d, d)
    BY DEF Kept, SameFlags
  <2>3. Kept(d, f[d]) /\ f[d] \in devices
    BY <1>2, <1>6, <2>2
  <2>4. Shows(x, f[d])
    BY <2>1, <2>3 DEF Kept, Shows, SameFlags
  <2> QED
    BY <2>3, <2>4
<1>13. \A e \in s.edges : Linkable(e, {x.ip : x \in ToSet(r.devices)} \cup {d.ip : d \in s.devices})
  BY <1>5, <1>11 DEF SoundSection
<1> QED
  BY <1>1, <1>5, <1>8, <1>9, <1>10, <1>12, <1>13 DEF SoundSection

-----------------------------------------------------------------------------
(* The graph.                                                              *)

\* A node tells no less of a device than this.
Bears(n, conf, ev, macs) == conf <= n.conf /\ ev \subseteq n.ev /\ macs \subseteq n.macs

LEMMA BearsOn == \A ips, a, b, ip, conf, ev, macs :
                    NodesGrew(ips, a, b) /\ ip \in DOMAIN a /\ conf \in Int /\ Bears(a[ip], conf, ev, macs) => Bears(b[ip], conf, ev, macs)
<1>1. \A m, n, conf, ev, macs : Drawable(m) /\ Drawable(n) /\ NodeGrew(m, n) /\ conf \in Int /\ Bears(m, conf, ev, macs) => Bears(n, conf, ev, macs)
  BY DEF Bears, NodeGrew, Drawable
<1> QED
  BY <1>1 DEF NodesGrew, NodesOf

LEMMA NodePut ==
    ASSUME NEW ips, NEW nodes, NodesOf(ips, nodes), NEW ip, ip \in ips, NEW n, Drawable(n), n.ip = ip, ip \in DOMAIN nodes => NodeGrew(nodes[ip], n)
    PROVE  NodesGrew(ips, nodes, Put(nodes, ip, n)) /\ ip \in DOMAIN Put(nodes, ip, n) /\ Put(nodes, ip, n)[ip] = n
<1> DEFINE w == Put(nodes, ip, n)
<1>1. DOMAIN w = DOMAIN nodes \cup {ip} /\ w[ip] = n /\ \A k \in DOMAIN nodes : k # ip => w[k] = nodes[k]
  BY DEF Put
<1> HIDE DEF w
<1>2. NodesOf(ips, w)
  BY <1>1 DEF NodesOf
<1>3. \A m : Drawable(m) => NodeGrew(m, m)
  BY DEF NodeGrew, Drawable
<1>4. NodesGrew(ips, nodes, w)
  BY <1>1, <1>2, <1>3 DEF NodesGrew, NodesOf
<1> QED
  BY <1>1, <1>4 DEF w

LEMMA Ensured ==
    ASSUME NEW ips, NEW nodes, NodesOf(ips, nodes), NEW ip
    PROVE  /\ DOMAIN EnsureNode(nodes, ip) = NodeFields /\ EnsureNode(nodes, ip).conf \in 0..100 /\ EnsureNode(nodes, ip).ip = ip
           /\ ip \in DOMAIN nodes => EnsureNode(nodes, ip) = nodes[ip]
<1> DEFINE blank == [ip |-> ip, role |-> "unknown", type |-> "unknown", category |-> "unknown", macs |-> {}, hosts |-> {}, services |-> {},
                     conf |-> 0, ev |-> {}, risks |-> {}, agent |-> FALSE, gateway |-> FALSE, upstream |-> FALSE]
           n == EnsureNode(nodes, ip)
<1>1. n = IF ip \in DOMAIN nodes THEN nodes[ip] ELSE blank
  BY Zenon DEF EnsureNode, At
<1>2. DOMAIN blank = NodeFields /\ blank.conf = 0 /\ blank.ip = ip
  BY DEF NodeFields
<1> HIDE DEF blank, n
<1>3. DOMAIN n = NodeFields /\ n.conf \in 0..100 /\ n.ip = ip
  BY <1>1, <1>2 DEF NodesOf, Drawable
<1> QED
  BY <1>1, <1>3 DEF n

LEMMA GreaterBound ==
    ASSUME NEW a, a \in 0..100, NEW b, b \in 0..100
    PROVE  Greater(a, b) \in 0..100 /\ a <= Greater(a, b) /\ b <= Greater(a, b)
<1>1. a \in Int /\ b \in Int
  OBVIOUS
<1>2. CASE a > b
  <2>1. Greater(a, b) = a
    BY <1>2 DEF Greater
  <2> QED
    BY <1>1, <1>2, <2>1
<1>3. CASE ~(a > b)
  <2>1. Greater(a, b) = b
    BY <1>3 DEF Greater
  <2> QED
    BY <1>1, <1>3, <2>1
<1> QED
  BY <1>2, <1>3

LEMMA RootTurn ==
    ASSUME NEW ips, NEW nodes, NodesOf(ips, nodes), NEW d, d.ip \in ips, d.conf \in 0..100
    PROVE  /\ NodesGrew(ips, nodes, UpsertRootDevice(nodes, d)) /\ d.ip \in DOMAIN UpsertRootDevice(nodes, d)
           /\ Bears(UpsertRootDevice(nodes, d)[d.ip], d.conf, d.ev, {d.mac} \ {""})
<1> DEFINE n == EnsureNode(nodes, d.ip)
           role == RoleFromRoot(d)
           type == IF d.agent THEN "local_host" ELSE IF d.gateway THEN "gateway_router" ELSE "host"
           named == {d.mac} \ {""}
           called == {d.host} \ {""}
           more == {[port |-> s.port, from |-> "report"] : s \in d.services}
           conf == Greater(n.conf, d.conf)
           w == [n EXCEPT !.role = role, !.category = "device",
                          !.type = type,
                          !.macs = @ \cup named, !.hosts = @ \cup called,
                          !.services = @ \cup more,
                          !.conf = conf, !.ev = @ \cup d.ev, !.agent = d.agent, !.gateway = d.gateway]
<1>1. UpsertRootDevice(nodes, d) = Put(nodes, d.ip, w)
  BY Zenon DEF UpsertRootDevice
<1>2. role \in {"local_agent", "gateway", "router", "wired_client"}
  BY DEF RoleFromRoot
<1>3. DOMAIN n = NodeFields /\ n.conf \in 0..100 /\ n.ip = d.ip /\ (d.ip \in DOMAIN nodes => n = nodes[d.ip])
  BY Ensured
<1> HIDE DEF n
<1>4. conf \in 0..100 /\ n.conf <= conf /\ d.conf <= conf
  BY <1>3, GreaterBound
<1> HIDE DEF role, type, named, called, more, conf
<1>5. DOMAIN w = NodeFields /\ w.role = role /\ w.conf = conf /\ w.macs = n.macs \cup named /\ w.ev = n.ev \cup d.ev /\ w.ip = n.ip
  <2>1. {"ip", "role", "conf", "macs", "ev"} \subseteq DOMAIN n
    BY <1>3 DEF NodeFields
  <2>2. DOMAIN w = NodeFields
    BY <1>3
  <2>3. w.role = role
    BY <2>1
  <2>4. w.conf = conf
    BY <2>1
  <2>5. w.macs = n.macs \cup named
    BY <2>1
  <2>6. w.ev = n.ev \cup d.ev
    BY <2>1
  <2>7. w.ip = n.ip
    BY <2>1
  <2> QED
    BY <2>2, <2>3, <2>4, <2>5, <2>6, <2>7
<1> HIDE DEF w
<1>6. Drawable(w)
  BY <1>2, <1>4, <1>5 DEF Drawable
<1>7. NodeGrew(n, w) /\ Bears(w, d.conf, d.ev, named)
  BY <1>4, <1>5 DEF NodeGrew, Bears
<1>8. NodesGrew(ips, nodes, Put(nodes, d.ip, w)) /\ d.ip \in DOMAIN Put(nodes, d.ip, w) /\ Put(nodes, d.ip, w)[d.ip] = w
  BY <1>3, <1>5, <1>6, <1>7, NodePut
<1> QED
  BY <1>1, <1>7, <1>8, Zenon DEF named

LEMMA IntelTurn ==
    ASSUME NEW ips, NEW nodes, NodesOf(ips, nodes), NEW d, d.ip \in ips, d.conf \in 0..100
    PROVE  /\ NodesGrew(ips, nodes, UpsertIntelDevice(nodes, d)) /\ d.ip \in DOMAIN UpsertIntelDevice(nodes, d)
           /\ Bears(UpsertIntelDevice(nodes, d)[d.ip], d.conf, d.ev, d.macs)
<1> DEFINE n == EnsureNode(nodes, d.ip)
           role == RoleFromIntel(d)
           category == IF d.gateway \/ d.upstream THEN "network" ELSE "device"
           more == {[port |-> p, from |-> "intel"] : p \in DOMAIN d.services}
           risks == {f.id : f \in d.findings}
           conf == Greater(n.conf, d.conf)
           w == [n EXCEPT !.role = role, !.category = category,
                          !.type = d.type.primary, !.macs = @ \cup d.macs, !.hosts = @ \cup d.hosts,
                          !.services = @ \cup more,
                          !.conf = conf, !.ev = @ \cup d.ev, !.risks = @ \cup risks,
                          !.agent = d.agent, !.gateway = d.gateway, !.upstream = d.upstream]
<1>1. UpsertIntelDevice(nodes, d) = Put(nodes, d.ip, w)
  BY Zenon DEF UpsertIntelDevice
<1>2. role \in {"local_agent", "gateway", "router", "wired_client"}
  BY DEF RoleFromIntel
<1>3. DOMAIN n = NodeFields /\ n.conf \in 0..100 /\ n.ip = d.ip /\ (d.ip \in DOMAIN nodes => n = nodes[d.ip])
  BY Ensured
<1> HIDE DEF n
<1>4. conf \in 0..100 /\ n.conf <= conf /\ d.conf <= conf
  BY <1>3, GreaterBound
<1> HIDE DEF role, category, more, risks, conf
<1>5. DOMAIN w = NodeFields /\ w.role = role /\ w.conf = conf /\ w.macs = n.macs \cup d.macs /\ w.ev = n.ev \cup d.ev /\ w.ip = n.ip
  <2>1. {"ip", "role", "conf", "macs", "ev"} \subseteq DOMAIN n
    BY <1>3 DEF NodeFields
  <2>2. DOMAIN w = NodeFields
    BY <1>3
  <2>3. w.role = role
    BY <2>1
  <2>4. w.conf = conf
    BY <2>1
  <2>5. w.macs = n.macs \cup d.macs
    BY <2>1
  <2>6. w.ev = n.ev \cup d.ev
    BY <2>1
  <2>7. w.ip = n.ip
    BY <2>1
  <2> QED
    BY <2>2, <2>3, <2>4, <2>5, <2>6, <2>7
<1> HIDE DEF w
<1>6. Drawable(w)
  BY <1>2, <1>4, <1>5 DEF Drawable
<1>7. NodeGrew(n, w) /\ Bears(w, d.conf, d.ev, d.macs)
  BY <1>4, <1>5 DEF NodeGrew, Bears
<1>8. NodesGrew(ips, nodes, Put(nodes, d.ip, w)) /\ d.ip \in DOMAIN Put(nodes, d.ip, w) /\ Put(nodes, d.ip, w)[d.ip] = w
  BY <1>3, <1>5, <1>6, <1>7, NodePut
<1> QED
  BY <1>1, <1>7, <1>8, Zenon

LEMMA GrowSelf == \A ips, a : NodesOf(ips, a) => NodesGrew(ips, a, a)
<1>1. \A n : Drawable(n) => NodeGrew(n, n)
  BY DEF NodeGrew, Drawable
<1> QED
  BY <1>1 DEF NodesGrew, NodesOf

LEMMA RootsPassed ==
    ASSUME NEW ips, NEW devices, IsSlice(devices), \A d \in ToSet(devices) : d.ip \in ips /\ d.conf \in 0..100
    PROVE  /\ NodesOf(ips, RootNodes(devices))
           /\ \A d \in ToSet(devices) : /\ d.ip \in DOMAIN RootNodes(devices)
                                        /\ Bears(RootNodes(devices)[d.ip], d.conf, d.ev, {d.mac} \ {""})
<1> DEFINE result == RootNodes(devices)
           loop == "roots"
           Own(d) == {d.mac} \ {""}
<1>1. Ran(loop, 0, Nothing, ToSet(devices), result)
  BY RootsRan
<1> HIDE DEF result
<1>2. \A a, x : Turn(loop, 0, a, x) = UpsertRootDevice(a, x)
  BY DEF Turn
<1>3. \A a, b : Leads("nodes", ips, a, b) <=> NodesGrew(ips, a, b)
  BY DEF Leads
<1>4. \A a : \A x \in ToSet(devices) : NodesOf(ips, a) =>
        /\ NodesGrew(ips, a, UpsertRootDevice(a, x)) /\ x.ip \in DOMAIN UpsertRootDevice(a, x)
        /\ Bears(UpsertRootDevice(a, x)[x.ip], x.conf, x.ev, Own(x))
  BY RootTurn
<1> HIDE DEF loop, Own
<1>5. Rounds("nodes", ips, loop, 0, Nothing, ToSet(devices))
  BY <1>2, <1>3, <1>4 DEF Rounds, NodesGrew
<1>6. Leads("nodes", ips, Nothing, Nothing)
  <2>1. DOMAIN Nothing = {}
    BY DEF Nothing
  <2> QED
    BY <1>3, <2>1 DEF NodesGrew, NodesOf
<1>7. Leads("nodes", ips, Nothing, result) /\ \A x \in ToSet(devices) : Passed("nodes", ips, loop, 0, Nothing, x, result)
  BY <1>1, <1>5, <1>6, LoopLeads
<1>8. ASSUME NEW x \in ToSet(devices) PROVE x.ip \in DOMAIN result /\ Bears(result[x.ip], x.conf, x.ev, Own(x))
  <2>1. PICK a : NodesGrew(ips, Nothing, a) /\ NodesGrew(ips, a, UpsertRootDevice(a, x)) /\ NodesGrew(ips, UpsertRootDevice(a, x), result)
    BY <1>2, <1>3, <1>7 DEF Passed
  <2>2. x.ip \in DOMAIN UpsertRootDevice(a, x) /\ Bears(UpsertRootDevice(a, x)[x.ip], x.conf, x.ev, Own(x))
    BY <1>4, <2>1 DEF NodesGrew
  <2>3. x.conf \in Int
    OBVIOUS
  <2>4. Bears(result[x.ip], x.conf, x.ev, Own(x))
    BY <2>1, <2>2, <2>3, BearsOn
  <2> QED
    BY <2>1, <2>2, <2>4 DEF NodesGrew
<1>9. NodesOf(ips, result)
  BY <1>3, <1>7 DEF NodesGrew
<1> QED
  BY <1>8, <1>9, Zenon DEF result, Own

LEMMA IntelsPassed ==
    ASSUME NEW ips, NEW nodes, NodesOf(ips, nodes), NEW devices, IsFiniteSet(devices), \A d \in devices : d.ip \in ips /\ d.conf \in 0..100
    PROVE  /\ NodesGrew(ips, nodes, IntelNodes(nodes, devices))
           /\ \A d \in devices : /\ d.ip \in DOMAIN IntelNodes(nodes, devices)
                                 /\ Bears(IntelNodes(nodes, devices)[d.ip], d.conf, d.ev, d.macs)
<1> DEFINE result == IntelNodes(nodes, devices)
           loop == "intels"
<1>1. Ran(loop, 0, nodes, devices, result)
  BY IntelsRan
<1> HIDE DEF result
<1>2. \A a, x : Turn(loop, 0, a, x) = UpsertIntelDevice(a, x)
  BY DEF Turn
<1>3. \A a, b : Leads("nodes", ips, a, b) <=> NodesGrew(ips, a, b)
  BY DEF Leads
<1>4. \A a : \A x \in devices : NodesOf(ips, a) =>
        /\ NodesGrew(ips, a, UpsertIntelDevice(a, x)) /\ x.ip \in DOMAIN UpsertIntelDevice(a, x)
        /\ Bears(UpsertIntelDevice(a, x)[x.ip], x.conf, x.ev, x.macs)
  BY IntelTurn
<1> HIDE DEF loop
<1>5. Rounds("nodes", ips, loop, 0, nodes, devices)
  BY <1>2, <1>3, <1>4 DEF Rounds, NodesGrew
<1>6. Leads("nodes", ips, nodes, nodes)
  BY <1>3, GrowSelf
<1>7. Leads("nodes", ips, nodes, result) /\ \A x \in devices : Passed("nodes", ips, loop, 0, nodes, x, result)
  BY <1>1, <1>5, <1>6, LoopLeads
<1>8. ASSUME NEW x \in devices PROVE x.ip \in DOMAIN result /\ Bears(result[x.ip], x.conf, x.ev, x.macs)
  <2>1. PICK a : NodesGrew(ips, nodes, a) /\ NodesGrew(ips, a, UpsertIntelDevice(a, x)) /\ NodesGrew(ips, UpsertIntelDevice(a, x), result)
    BY <1>2, <1>3, <1>7 DEF Passed
  <2>2. x.ip \in DOMAIN UpsertIntelDevice(a, x) /\ Bears(UpsertIntelDevice(a, x)[x.ip], x.conf, x.ev, x.macs)
    BY <1>4, <2>1 DEF NodesGrew
  <2>3. x.conf \in Int
    OBVIOUS
  <2>4. Bears(result[x.ip], x.conf, x.ev, x.macs)
    BY <2>1, <2>2, <2>3, BearsOn
  <2> QED
    BY <2>1, <2>2, <2>4 DEF NodesGrew
<1> QED
  BY <1>3, <1>7, <1>8 DEF result

\* The addresses the graph shows.
Shown(r, s) == {x.ip : x \in ToSet(r.devices)} \cup {d.ip : d \in s.devices}

\* Every device of the report and of the section has a node that bears what they know of it.
Mapped(r, s, nodes) ==
    /\ NodesOf(Shown(r, s), nodes) /\ DOMAIN nodes = Shown(r, s)
    /\ \A x \in ToSet(r.devices) : Bears(nodes[x.ip], x.conf, x.ev, {x.mac} \ {""})
    /\ \A d \in s.devices : Bears(nodes[d.ip], d.conf, d.ev, d.macs)

LEMMA NodesDrawn ==
    ASSUME NEW r, SoundReport(r), NEW s, SoundSection(r, s)
    PROVE  Mapped(r, s, IntelNodes(RootNodes(r.devices), s.devices))
<1> DEFINE ips == Shown(r, s)
           roots == RootNodes(r.devices)
           nodes == IntelNodes(roots, s.devices)
           Own(x) == {x.mac} \ {""}
<1>1. IsSlice(r.devices) /\ \A x \in ToSet(r.devices) : x.ip \in ips /\ x.conf \in 0..100
  BY DEF SoundReport, SoundDevice, ToSet, Shown
<1>2. IsFiniteSet(s.devices) /\ \A d \in s.devices : d.ip \in ips /\ d.conf \in 0..100
  BY DEF SoundSection, SoundIntel, Shown
<1> HIDE DEF ips
<1>3. NodesOf(ips, roots) /\ \A x \in ToSet(r.devices) : x.ip \in DOMAIN roots /\ Bears(roots[x.ip], x.conf, x.ev, Own(x))
  BY <1>1, RootsPassed
<1> HIDE DEF roots, Own
<1>4. NodesGrew(ips, roots, nodes) /\ \A d \in s.devices : d.ip \in DOMAIN nodes /\ Bears(nodes[d.ip], d.conf, d.ev, d.macs)
  BY <1>2, <1>3, IntelsPassed
<1> HIDE DEF nodes
<1>5. \A x \in ToSet(r.devices) : x.ip \in DOMAIN nodes /\ Bears(nodes[x.ip], x.conf, x.ev, Own(x))
  <2> TAKE x \in ToSet(r.devices)
  <2>1. x.conf \in Int
    BY <1>1
  <2> QED
    BY <1>3, <1>4, <2>1, BearsOn DEF NodesGrew
<1>6. NodesOf(ips, nodes) /\ DOMAIN nodes \subseteq ips
  BY <1>4 DEF NodesGrew, NodesOf
<1>7. ips \subseteq DOMAIN nodes
  BY <1>4, <1>5 DEF ips, Shown
<1>8. DOMAIN nodes = ips
  BY <1>6, <1>7
<1> QED
  BY <1>4, <1>5, <1>6, <1>8, Zenon DEF Mapped, ips, nodes, roots, Own

LEMMA RootShown ==
    ASSUME NEW ips, ips \subseteq Nat, NEW nodes, \A n \in nodes : Drawable(n) /\ n.ip \in ips
    PROVE  RootNodeID(nodes) # None => \E n \in nodes : n.ip = RootNodeID(nodes)
<1> DEFINE Of(role) == {n.ip : n \in {x \in nodes : x.role = role}}
           ranks == {RoleRank[n.role] : n \in nodes}
           least == Min(ranks)
           first == {n.ip : n \in {x \in nodes : RoleRank[x.role] = least}}
           gateways == Of("gateway")
           agents == Of("local_agent")
<1>1. RootNodeID(nodes) = IF gateways # {} THEN Min(gateways) ELSE IF agents # {} THEN Min(agents)
                          ELSE IF nodes = {} THEN None ELSE Min(first)
  BY Zenon DEF RootNodeID
<1>2. \A n \in nodes : RoleRank[n.role] \in Nat
  BY DEF Drawable, RoleRank
<1>3. \A S : S \in SUBSET Nat /\ S # {} => Min(S) \in S
  BY MinIn
<1>4. ranks \in SUBSET Nat /\ (nodes # {} => ranks # {})
  BY <1>2
<1>5. nodes # {} => least \in ranks
  BY <1>3, <1>4
<1> HIDE DEF least
<1>6. nodes # {} => first # {}
  BY <1>5
<1>7. /\ gateways \in SUBSET Nat /\ agents \in SUBSET Nat /\ first \in SUBSET Nat
      /\ \A ip \in gateways \cup agents \cup first : \E n \in nodes : n.ip = ip
  OBVIOUS
<1> HIDE DEF gateways, agents, first, ranks
<1> QED
  BY <1>1, <1>3, <1>6, <1>7

LEMMA LinkTurn ==
    ASSUME NEW ips, NEW links, LinksOf(ips, links), NEW e, Linkable(e, ips)
    PROVE  LinksOf(ips, UpsertRichEdge(links, RichEdge(e)))
<1> DEFINE type == RichType(e.type)[1]
           medium == RichType(e.type)[2]
           y == [id |-> e.id, source |-> e.source, target |-> e.target, type |-> type, relation |-> e.type, medium |-> medium,
                 conf |-> e.conf, ev |-> e.ev, physical |-> e.physical, inferred |-> e.inferred, warnings |-> {}]
           same == {x \in links : x.id = y.id}
           kept == {[x EXCEPT !.ev = @ \cup y.ev] : x \in same}
           next == UpsertRichEdge(links, y)
<1>1. RichEdge(e) = y
  BY Zenon DEF RichEdge
<1>11. type # "" /\ medium # "" /\ e.type # ""
  BY DEF Linkable, LinkTypes, DrawnTypes, RichType, PhysicalTypes
<1> HIDE DEF type, medium
<1>2. /\ DOMAIN y = LinkFields /\ y.conf = e.conf /\ y.physical = e.physical /\ y.source = e.source /\ y.target = e.target
      /\ y.type = type /\ y.relation = e.type /\ y.medium = medium
  BY DEF LinkFields
<1> HIDE DEF y
<1>21. Typed(y)
  BY <1>11, <1>2, Zenon DEF Typed
<1>3. SoundLink(y, ips)
  BY <1>2, <1>21 DEF SoundLink, Linkable
<1>4. next \subseteq links \cup kept \cup {y}
  <2>1. next = IF y.source = None \/ y.target = None \/ y.source = y.target THEN links
               ELSE (links \ same) \cup (IF \E x \in same : y.conf <= x.conf THEN kept ELSE {y})
    BY Zenon DEF UpsertRichEdge
  <2> HIDE DEF same, kept, next
  <2>2. (links \ same) \cup (IF \E x \in same : y.conf <= x.conf THEN kept ELSE {y}) \subseteq links \cup kept \cup {y}
    OBVIOUS
  <2> QED
    BY <2>1, <2>2
<1>5. \A x : SoundLink(x, ips) => SoundLink([x EXCEPT !.ev = @ \cup y.ev], ips)
  <2> SUFFICES ASSUME NEW x, SoundLink(x, ips) PROVE SoundLink([x EXCEPT !.ev = @ \cup y.ev], ips)
    OBVIOUS
  <2> DEFINE z == [x EXCEPT !.ev = @ \cup y.ev]
  <2>1. /\ DOMAIN z = DOMAIN x /\ z.conf = x.conf /\ z.physical = x.physical /\ z.source = x.source /\ z.target = x.target
        /\ z.type = x.type /\ z.relation = x.relation /\ z.medium = x.medium
    BY DEF SoundLink, LinkFields
  <2> HIDE DEF z
  <2>2. Typed(z)
    BY <2>1, Zenon DEF SoundLink, Typed
  <2>3. SoundLink(z, ips)
    BY <2>1, <2>2 DEF SoundLink
  <2> QED
    BY <2>3 DEF z
<1>6. \A x \in kept : SoundLink(x, ips)
  BY <1>5 DEF LinksOf
<1> HIDE DEF same, kept, next
<1>7. LinksOf(ips, next)
  BY <1>3, <1>4, <1>6 DEF LinksOf
<1> QED
  BY <1>1, <1>7 DEF next

LEMMA LinksPassed ==
    ASSUME NEW ips, NEW drawn, LinksOf(ips, drawn), NEW edges, IsFiniteSet(edges), \A e \in edges : Linkable(e, ips)
    PROVE  LinksOf(ips, UpsertRichEdges(drawn, edges))
<1> DEFINE result == UpsertRichEdges(drawn, edges)
           loop == "links"
<1>1. Ran(loop, 0, drawn, edges, result)
  BY LinksRan
<1> HIDE DEF result
<1>2. \A a, x : Turn(loop, 0, a, x) = UpsertRichEdge(a, RichEdge(x))
  BY DEF Turn
<1>3. \A a, b : Leads("links", ips, a, b) <=> LinksOf(ips, a) /\ LinksOf(ips, b)
  BY DEF Leads
<1>4. \A a : \A x \in edges : LinksOf(ips, a) => LinksOf(ips, UpsertRichEdge(a, RichEdge(x)))
  BY LinkTurn
<1> HIDE DEF loop
<1>5. Rounds("links", ips, loop, 0, drawn, edges)
  BY <1>2, <1>3, <1>4 DEF Rounds
<1>6. Leads("links", ips, drawn, drawn)
  BY <1>3
<1>7. Leads("links", ips, drawn, result)
  BY <1>1, <1>5, <1>6, LoopLeads
<1> QED
  BY <1>3, <1>7 DEF result

LEMMA LinksDrawn ==
    ASSUME NEW r, SoundReport(r), NEW s, SoundSection(r, s)
    PROVE  LinksOf(Shown(r, s), UpsertRichEdges(UpsertRichEdges({}, r.edges), s.edges))
<1> DEFINE ips == Shown(r, s)
           listed == {r.devices[i].ip : i \in DOMAIN r.devices}
           first == UpsertRichEdges({}, r.edges)
<1>1. listed \subseteq ips
  BY DEF Shown, ToSet
<1>2. IsFiniteSet(r.edges) /\ \A e \in r.edges : SoundEdge(e, listed, Ids(r.evidence))
  BY DEF SoundReport
<1>3. IsFiniteSet(s.edges) /\ \A e \in s.edges : Linkable(e, ips)
  BY DEF SoundSection, Shown
<1> HIDE DEF ips, listed
<1>4. \A e \in r.edges : Linkable(e, ips)
  BY <1>1, <1>2 DEF SoundEdge, Linkable, LinkTypes
<1>5. LinksOf(ips, {})
  BY DEF LinksOf
<1>6. LinksOf(ips, first)
  BY <1>2, <1>4, <1>5, LinksPassed
<1> HIDE DEF first
<1>7. LinksOf(ips, UpsertRichEdges(first, s.edges))
  BY <1>3, <1>6, LinksPassed
<1> QED
  BY <1>7 DEF first, ips

LEMMA LinkWarned ==
    ASSUME NEW e, ~e.physical
    PROVE  EdgeWarnings(e) # {}
  BY DEF EdgeWarnings

-----------------------------------------------------------------------------
(* The finished report.                                                    *)

\* A link of the finished graph, between devices it shows, and saying that it is not physical.
Warned(e, ips) ==
    /\ e.conf \in 0..100 /\ ~e.physical /\ Typed(e)
    /\ {e.source, e.target} \subseteq ips /\ e.warnings # {}

\* What completing adds to the report r with the section s.
Finished(r, c, s, done) ==
    /\ done.devices = r.devices /\ done.edges = r.edges /\ done.evidence = r.evidence /\ done.summary = r.summary /\ done.scope = r.scope
    /\ Ids(r.evidence) \cup CollectReferencedEvidenceIDs(r, c, s) \subseteq done.registry
    /\ \E nodes : Mapped(r, s, nodes) /\ done.nodes = {nodes[ip] : ip \in DOMAIN nodes}
    /\ \A e \in done.links : Warned(e, Shown(r, s))
    /\ done.root # None => \E n \in done.nodes : n.ip = done.root

LEMMA ReportFinished ==
    ASSUME NEW r, SoundReport(r), NEW c, NEW s, SoundSection(r, s)
    PROVE  Finished(r, c, s, Enriched(r, c, s))
<1> DEFINE nodes == IntelNodes(RootNodes(r.devices), s.devices)
           edges == UpsertRichEdges(UpsertRichEdges({}, r.edges), s.edges)
           drawn == {nodes[ip] : ip \in DOMAIN nodes}
           notes == r.warnings \cup (IF \E e \in edges : e.type \in {"weak-inferred", "subnet-inferred"} THEN {"rich_topology_inferred_edges"} ELSE {})
           rich == [nodes |-> drawn, edges |-> edges, warnings |-> notes]
           registry == BuildEvidenceRegistry(r, c, s)
           links == {[e EXCEPT !.warnings = EdgeWarnings(e)] : e \in rich.edges}
           root == RootNodeID(rich.nodes)
           done == [r EXCEPT !.registry = registry, !.nodes = rich.nodes, !.links = links, !.root = root, !.notes = rich.warnings]
           ips == Shown(r, s)
<1>1. BuildRichTopology(r, s) = rich
  BY Zenon DEF BuildRichTopology
<1>2. Enriched(r, c, s) = done
  BY <1>1, Zenon DEF Enriched
<1>3. Mapped(r, s, nodes)
  BY NodesDrawn
<1>4. LinksOf(ips, edges)
  BY LinksDrawn
<1>5. Ids(r.evidence) \cup CollectReferencedEvidenceIDs(r, c, s) \subseteq registry
  BY DEF BuildEvidenceRegistry, Ids
<1>6. rich.nodes = drawn /\ rich.edges = edges
  OBVIOUS
<1> HIDE DEF nodes, edges, notes, rich, registry
<1>7. ASSUME NEW e \in links PROVE Warned(e, ips)
  <2>1. PICK x \in edges : e = [x EXCEPT !.warnings = EdgeWarnings(x)]
    BY <1>6
  <2>2. SoundLink(x, ips)
    BY <1>4 DEF LinksOf
  <2>3. EdgeWarnings(x) # {}
    BY <2>2, LinkWarned DEF SoundLink
  <2>4. /\ e.conf = x.conf /\ e.physical = x.physical /\ e.source = x.source /\ e.target = x.target /\ e.warnings = EdgeWarnings(x)
        /\ e.type = x.type /\ e.relation = x.relation /\ e.medium = x.medium
    BY <2>1, <2>2 DEF SoundLink, LinkFields
  <2>5. Typed(e)
    BY <2>2, <2>4, Zenon DEF SoundLink, Typed
  <2> QED
    BY <2>2, <2>3, <2>4, <2>5 DEF Warned, SoundLink
<1>8. ips \subseteq Nat
  BY DEF Shown, SoundReport, SoundSection, ToSet
<1>9. \A n \in drawn : Drawable(n) /\ n.ip \in ips
  BY <1>3 DEF Mapped, NodesOf
<1> HIDE DEF drawn, ips
<1>10. root # None => \E n \in drawn : n.ip = root
  BY <1>6, <1>8, <1>9, RootShown
<1> HIDE DEF links, root
<1>11. /\ done.devices = r.devices /\ done.edges = r.edges /\ done.evidence = r.evidence /\ done.summary = r.summary /\ done.scope = r.scope
       /\ done.registry = registry /\ done.nodes = drawn /\ done.links = links /\ done.root = root
  BY <1>6 DEF SoundReport, ReportParts
<1> HIDE DEF done
<1>12. \E n : Mapped(r, s, n) /\ done.nodes = {n[ip] : ip \in DOMAIN n}
  BY <1>3, <1>11, Zenon DEF drawn
<1>13. Finished(r, c, s, done)
  BY <1>5, <1>7, <1>10, <1>11, <1>12 DEF Finished, ips
<1> QED
  BY <1>2, <1>13

\* The four parts of what ValidateReport asks of a device, an edge, a node and a link.
LEMMA Validated ==
    ASSUME NEW r, NEW ips,
           ips = {d.ip : d \in ToSet(r.devices)} /\ None \notin ips,
           IsSlice(r.devices) /\ \A i, j \in DOMAIN r.devices : r.devices[i].ip = r.devices[j].ip => i = j,
           DistinctIds(r.evidence),
           \A d \in ToSet(r.devices) : SoundDevice(d, r.evidence),
           \A e \in r.edges : SoundEdge(e, ips, Ids(r.evidence)),
           \A x, y \in r.edges : x.id = y.id => x = y,
           \A n, m \in r.nodes : n.ip # None /\ n.conf \in 0..100 /\ (n.ip = m.ip => n = m),
           \A e \in r.links : /\ e.conf \in 0..100 /\ {e.source, e.target} \subseteq {n.ip : n \in r.nodes}
                              /\ Typed(e),
           r.summary.devices = Len(r.devices) /\ r.summary.edges = Cardinality(r.edges)
    PROVE  ValidateReport(r) = {}
<1> DEFINE ids == {d.ip : d \in ToSet(r.devices)}
           known == {e.id : e \in ToSet(r.evidence)} \cup r.registry
           nodes == {n.ip : n \in r.nodes}
           a1 == Unique(r.devices, LAMBDA d : d.ip)
           a2 == Unique(r.evidence, LAMBDA e : e.id)
           a9 == OnePer(r.edges, LAMBDA e : e.id)
           a10 == OnePer(r.nodes, LAMBDA n : n.ip)
           DeviceIssues(d) == (IF d.ip # None THEN {} ELSE {"device without an address"})
                    \cup (IF d.conf \in 0 .. 100 THEN {} ELSE {"device confidence out of range"})
                    \cup (IF d.ev \cup (UNION {s.ev : s \in d.services}) \subseteq known THEN {} ELSE {"device cites unknown evidence"})
           EdgeIssues(e) == (IF e.type \in EdgeTypes THEN {} ELSE {"unknown edge type"})
                    \cup (IF "" \notin {e.layer, e.style} THEN {} ELSE {"edge without layer or line style"})
                    \cup (IF e.conf \in 0 .. 100 THEN {} ELSE {"edge confidence out of range"})
                    \cup (IF {e.source, e.target} \subseteq ids THEN {} ELSE {"edge to an unknown device"})
                    \cup (IF e.type \in PhysicalTypes /\ e.ev = {} THEN {"physical edge without evidence"} ELSE {})
                    \cup (IF e.physical /\ e.type \notin PhysicalTypes THEN {"physical edge of an inferred type"} ELSE {})
                    \cup (IF e.ev \subseteq known THEN {} ELSE {"edge cites unknown evidence"})
           NodeIssues(n) == (IF n.ip # None THEN {} ELSE {"node without an id"})
                    \cup (IF n.conf \in 0 .. 100 THEN {} ELSE {"node confidence out of range"})
           LinkIssues(e) == (IF {e.source, e.target} \subseteq nodes THEN {} ELSE {"topology edge to an unknown node"})
                    \cup (IF None \notin {e.source, e.target} THEN {} ELSE {"topology edge without an endpoint"})
                    \cup (IF "" \notin {e.type, e.relation, e.medium} THEN {} ELSE {"topology edge without type or medium"})
                    \cup (IF e.conf \in 0 .. 100 THEN {} ELSE {"topology edge confidence out of range"})
           a3 == UNION {DeviceIssues(d) : d \in ToSet(r.devices)}
           a4 == UNION {EdgeIssues(e) : e \in r.edges}
           a5 == UNION {NodeIssues(n) : n \in r.nodes}
           a6 == UNION {LinkIssues(e) : e \in r.links}
           a7 == r.summary.devices = Len(r.devices)
           a8 == r.summary.edges = Cardinality(r.edges)
<1>1. ValidateReport(r) = (IF a1 THEN {} ELSE {"duplicate device id"}) \cup (IF a2 THEN {} ELSE {"duplicate evidence id"})
                          \cup a3 \cup (IF a9 THEN {} ELSE {"duplicate edge id"}) \cup (IF a10 THEN {} ELSE {"duplicate node id"})
                          \cup a4 \cup a5 \cup a6
                          \cup (IF a7 THEN {} ELSE {"device count"}) \cup (IF a8 THEN {} ELSE {"edge count"})
  BY Zenon DEF ValidateReport
<1>2. a1 /\ a2 /\ a9 /\ a10
  BY DEF Unique, OnePer, DistinctIds
<1>3. Ids(r.evidence) \subseteq known
  BY DEF Ids
<1> HIDE DEF known, nodes
<1> HIDE DEF a1, a2, a9, a10
<1>4. \A d \in ToSet(r.devices) : DeviceIssues(d) = {}
  <2> TAKE d \in ToSet(r.devices)
  <2>1. d.ip # None /\ d.conf \in 0 .. 100 /\ d.ev \cup (UNION {s.ev : s \in d.services}) \subseteq known
    BY <1>3 DEF SoundDevice, Cited
  <2> QED
    BY <2>1, Zenon
<1>5. \A e \in r.edges : EdgeIssues(e) = {}
  <2> TAKE e \in r.edges
  <2>1. /\ e.type \in EdgeTypes /\ e.type \notin PhysicalTypes /\ ~e.physical
        /\ e.conf \in 0 .. 100 /\ {e.source, e.target} \subseteq ids /\ e.ev \subseteq known /\ Styled(e)
    BY <1>3 DEF SoundEdge, DrawnTypes, EdgeTypes, PhysicalTypes
  <2>2. "" \notin {e.layer, e.style}
    BY <2>1, Zenon DEF Styled
  <2> QED
    BY <2>1, <2>2, Zenon
<1>6. \A n \in r.nodes : NodeIssues(n) = {}
  OBVIOUS
<1>7. \A e \in r.links : LinkIssues(e) = {}
  <2> TAKE e \in r.links
  <2>1. {e.source, e.target} \subseteq nodes /\ e.conf \in 0 .. 100 /\ Typed(e)
    BY DEF nodes
  <2>2. None \notin nodes
    BY DEF nodes
  <2>3. None \notin {e.source, e.target}
    BY <2>1, <2>2
  <2>4. "" \notin {e.type, e.relation, e.medium}
    BY <2>1, Zenon DEF Typed
  <2> QED
    BY <2>1, <2>3, <2>4, Zenon
<1> HIDE DEF DeviceIssues, EdgeIssues, NodeIssues, LinkIssues
<1>71. a7 /\ a8
  OBVIOUS
<1> HIDE DEF a7, a8
<1>8. a3 = {} /\ a4 = {} /\ a5 = {} /\ a6 = {} /\ a7 /\ a8
  <2>1. a3 = {}
    BY <1>4
  <2>2. a4 = {}
    BY <1>5
  <2>3. a5 = {}
    BY <1>6
  <2>4. a6 = {}
    BY <1>7
  <2> QED
    BY <1>71, <2>1, <2>2, <2>3, <2>4
<1> HIDE DEF a3, a4, a5, a6, a7, a8
<1> QED
  BY <1>1, <1>2, <1>8

\* The report a scan discovered validates, before anything is added to it.
LEMMA SoundValidates ==
    ASSUME NEW r, SoundReport(r)
    PROVE  ValidateReport(r) = {}
<1> DEFINE ips == {d.ip : d \in ToSet(r.devices)}
           listed == {r.devices[i].ip : i \in DOMAIN r.devices}
<1>1. ips = listed
  BY DEF ToSet
<1>2. listed \subseteq Nat /\ \A e \in r.edges : SoundEdge(e, listed, Ids(r.evidence))
  BY DEF SoundReport
<1> HIDE DEF listed
<1>3. None \notin ips
  BY <1>1, <1>2 DEF None
<1>4. ips = {d.ip : d \in ToSet(r.devices)}
  OBVIOUS
<1> HIDE DEF ips
<1>5. \A d \in ToSet(r.devices) : SoundDevice(d, r.evidence)
  BY DEF SoundReport, ToSet
<1>6. IsSlice(r.devices) /\ \A i, j \in DOMAIN r.devices : r.devices[i].ip = r.devices[j].ip => i = j
  BY DEF SoundReport
<1>7. DistinctIds(r.evidence)
  BY DEF SoundReport, SoundEvidence
<1>8. \A e \in r.edges : SoundEdge(e, ips, Ids(r.evidence))
  BY <1>1, <1>2
<1>9. /\ r.nodes = {} /\ r.links = {} /\ r.summary.devices = Len(r.devices) /\ r.summary.edges = Cardinality(r.edges)
      /\ \A x, y \in r.edges : x.id = y.id => x = y
  BY DEF SoundReport
<1> QED
  BY <1>3, <1>4, <1>5, <1>6, <1>7, <1>8, <1>9, Validated

LEMMA FinishedNodes ==
    ASSUME NEW r, NEW c, NEW s, NEW done, Finished(r, c, s, done)
    PROVE  /\ {n.ip : n \in done.nodes} = Shown(r, s) /\ \A n \in done.nodes : n.conf \in 0..100
           /\ \A n, m \in done.nodes : n.ip = m.ip => n = m
           /\ \E nodes : Mapped(r, s, nodes) /\ \A ip \in Shown(r, s) : (CHOOSE n \in done.nodes : n.ip = ip) = nodes[ip]
<1>1. PICK nodes : Mapped(r, s, nodes) /\ done.nodes = {nodes[ip] : ip \in DOMAIN nodes}
  BY DEF Finished
<1> DEFINE ips == Shown(r, s)
<1>2. DOMAIN nodes = ips /\ \A ip \in ips : nodes[ip].ip = ip /\ nodes[ip].conf \in 0..100
  BY <1>1 DEF Mapped, NodesOf, Drawable
<1> HIDE DEF ips
<1>3. /\ {n.ip : n \in done.nodes} = ips /\ \A n \in done.nodes : n.conf \in 0..100
      /\ \A n, m \in done.nodes : n.ip = m.ip => n = m
  BY <1>1, <1>2
<1>4. ASSUME NEW ip \in ips PROVE (CHOOSE n \in done.nodes : n.ip = ip) = nodes[ip]
  <2>1. nodes[ip] \in done.nodes /\ \A n \in done.nodes : n.ip = ip => n = nodes[ip]
    BY <1>1, <1>2
  <2> QED
    BY <1>2, <2>1
<1> QED
  BY <1>1, <1>3, <1>4 DEF ips

LEMMA FinishedValidates ==
    ASSUME NEW r, SoundReport(r), NEW c, NEW s, SoundSection(r, s), NEW done, Finished(r, c, s, done)
    PROVE  ValidateReport(done) = {}
<1> DEFINE ips == {d.ip : d \in ToSet(r.devices)}
           listed == {r.devices[i].ip : i \in DOMAIN r.devices}
           shown == Shown(r, s)
<1>1. ips = listed
  BY DEF ToSet
<1>2. listed \subseteq Nat /\ \A e \in r.edges : SoundEdge(e, listed, Ids(r.evidence))
  BY DEF SoundReport
<1> HIDE DEF listed
<1>3. None \notin ips
  BY <1>1, <1>2 DEF None
<1>31. None \notin shown
  <2>1. shown \subseteq Nat
    BY DEF Shown, SoundReport, SoundSection, ToSet
  <2> HIDE DEF shown
  <2> QED
    BY <2>1 DEF None
<1>4. done.devices = r.devices /\ done.edges = r.edges /\ done.evidence = r.evidence /\ done.summary = r.summary
  BY DEF Finished
<1>5. ips = {d.ip : d \in ToSet(done.devices)}
  BY <1>4
<1> HIDE DEF ips, shown
<1>6. \A d \in ToSet(done.devices) : SoundDevice(d, done.evidence)
  BY <1>4 DEF SoundReport, ToSet
<1>7. IsSlice(done.devices) /\ \A i, j \in DOMAIN done.devices : done.devices[i].ip = done.devices[j].ip => i = j
  BY <1>4 DEF SoundReport
<1>8. DistinctIds(done.evidence)
  BY <1>4 DEF SoundReport, SoundEvidence
<1>9. \A e \in done.edges : SoundEdge(e, ips, Ids(done.evidence))
  BY <1>1, <1>2, <1>4
<1>10. /\ done.summary.devices = Len(done.devices) /\ done.summary.edges = Cardinality(done.edges)
       /\ \A x, y \in done.edges : x.id = y.id => x = y
  BY <1>4 DEF SoundReport
<1>11. /\ {n.ip : n \in done.nodes} = shown /\ \A n \in done.nodes : n.conf \in 0..100
       /\ \A n, m \in done.nodes : n.ip = m.ip => n = m
  BY FinishedNodes DEF shown
<1>111. \A n, m \in done.nodes : n.ip # None /\ n.conf \in 0..100 /\ (n.ip = m.ip => n = m)
  BY <1>11, <1>31
<1>12. \A e \in done.links : e.conf \in 0..100 /\ {e.source, e.target} \subseteq shown /\ Typed(e)
  BY DEF Finished, Warned, shown
<1> QED
  BY <1>3, <1>5, <1>6, <1>7, <1>8, <1>9, <1>10, <1>11, <1>111, <1>12, Validated

\* CitationsResolve, of a report and its section.
Resolves(done, s) ==
    /\ \A d \in s.devices :
         /\ d.ev \subseteq done.registry
         /\ d.type.ev \cup d.os.ev \cup (UNION {f.ev : f \in d.findings}) \cup (UNION {d.cands[t].ev : t \in DOMAIN d.cands}) \subseteq d.ev
    /\ \A e \in done.edges \cup s.edges : e.ev \subseteq done.registry
    /\ \A e \in ToSet(done.evidence) : TargetAllowed(done, e.ip) => \E o \in s.obs : o.id = e.id /\ o.dev = e.ip

LEMMA FinishedResolves ==
    ASSUME NEW r, NEW c, NEW s, SoundSection(r, s), NEW done, Finished(r, c, s, done)
    PROVE  Resolves(done, s)
<1> DEFINE cited == CollectReferencedEvidenceIDs(r, c, s)
<1>1. /\ \A d \in s.devices : d.ev \subseteq cited
      /\ \A e \in r.edges \cup s.edges : e.ev \subseteq cited
  <2> DEFINE A == UNION {d.ev \cup (UNION {v.ev : v \in d.services}) : d \in ToSet(r.devices)}
             B == UNION {e.ev : e \in r.edges}
             C == {h.ev : h \in ToSet(c.hops)}
             D == UNION {g.ev \cup {o.ev : o \in g.http \cup g.tls \cup g.failed} : g \in c.devices \cup c.cpes}
             E == UNION {d.ev : d \in s.devices}
             F == UNION {e.ev : e \in s.edges}
  <2>1. cited = A \cup B \cup C \cup D \cup E \cup F
    BY Zenon DEF CollectReferencedEvidenceIDs
  <2>2. (\A d \in s.devices : d.ev \subseteq E) /\ (\A e \in r.edges : e.ev \subseteq B) /\ \A e \in s.edges : e.ev \subseteq F
    OBVIOUS
  <2> HIDE DEF cited, A, B, C, D, E, F
  <2> QED
    BY <2>1, <2>2
<1> HIDE DEF cited
<1>2. cited \subseteq done.registry /\ done.edges = r.edges /\ done.evidence = r.evidence /\ done.scope = r.scope
  BY DEF Finished, cited
<1>3. \A d \in s.devices : Claimed(d) \subseteq d.ev
  BY DEF SoundSection, SoundIntel
<1>4. \A e \in ToSet(r.evidence) : TargetAllowed(r, e.ip) => \E o \in s.obs : o.id = e.id /\ o.dev = e.ip
  BY DEF SoundSection
<1>5. \A ip : TargetAllowed(done, ip) <=> TargetAllowed(r, ip)
  BY <1>2 DEF TargetAllowed
<1>6. /\ \A d \in s.devices : d.ev \subseteq done.registry
      /\ \A e \in done.edges \cup s.edges : e.ev \subseteq done.registry
  BY <1>1, <1>2
<1>7. \A e \in ToSet(done.evidence) : TargetAllowed(done, e.ip) => \E o \in s.obs : o.id = e.id /\ o.dev = e.ip
  BY <1>2, <1>4, <1>5
<1> QED
  BY <1>3, <1>6, <1>7, Zenon DEF Resolves, Claimed

\* SectionsAgree, of a report and its section.
Agrees(done, s) ==
    LET Node(ip) == CHOOSE n \in done.nodes : n.ip = ip
        Intel(ip) == CHOOSE d \in s.devices : d.ip = ip
    IN  /\ {n.ip : n \in done.nodes} = {d.ip : d \in ToSet(done.devices)} \cup {d.ip : d \in s.devices}
        /\ \A d \in ToSet(done.devices) :
             /\ Node(d.ip).conf >= d.conf /\ d.ev \subseteq Node(d.ip).ev /\ {d.mac} \ {""} \subseteq Node(d.ip).macs
             /\ TargetAllowed(done, d.ip) =>
                  /\ d.ev \subseteq Intel(d.ip).ev /\ {v.port : v \in d.services} \subseteq DOMAIN Intel(d.ip).services
                  /\ d.agent = Intel(d.ip).agent /\ (d.gateway => Intel(d.ip).gateway)
        /\ \A d \in s.devices : Node(d.ip).conf >= d.conf /\ d.ev \subseteq Node(d.ip).ev /\ d.macs \subseteq Node(d.ip).macs
        /\ \A e \in done.links : IF e.physical THEN \E x \in done.edges : x.id = e.id /\ x.physical ELSE e.warnings # {}
        /\ done.summary.inferredOnly => \A d \in s.devices : ~d.proven
        /\ done.root # None => \E n \in done.nodes : n.ip = done.root

LEMMA FinishedAgrees ==
    ASSUME NEW r, SoundReport(r), NEW c, NEW s, SoundSection(r, s), NEW done, Finished(r, c, s, done)
    PROVE  Agrees(done, s)
<1> DEFINE Node(ip) == CHOOSE n \in done.nodes : n.ip = ip
           Intel(ip) == CHOOSE d \in s.devices : d.ip = ip
           Own(d) == {d.mac} \ {""}
           Ports(d) == {v.port : v \in d.services}
           a1 == {n.ip : n \in done.nodes} = {d.ip : d \in ToSet(done.devices)} \cup {d.ip : d \in s.devices}
           a2 == \A d \in ToSet(done.devices) :
                    /\ Node(d.ip).conf >= d.conf /\ d.ev \subseteq Node(d.ip).ev /\ Own(d) \subseteq Node(d.ip).macs
                    /\ TargetAllowed(done, d.ip) =>
                         /\ d.ev \subseteq Intel(d.ip).ev /\ Ports(d) \subseteq DOMAIN Intel(d.ip).services
                         /\ d.agent = Intel(d.ip).agent /\ (d.gateway => Intel(d.ip).gateway)
           a3 == \A d \in s.devices : Node(d.ip).conf >= d.conf /\ d.ev \subseteq Node(d.ip).ev /\ d.macs \subseteq Node(d.ip).macs
           a4 == \A e \in done.links : IF e.physical THEN \E x \in done.edges : x.id = e.id /\ x.physical ELSE e.warnings # {}
           a5 == done.summary.inferredOnly => \A d \in s.devices : ~d.proven
           a6 == done.root # None => \E n \in done.nodes : n.ip = done.root
<1>1. Agrees(done, s) <=> a1 /\ a2 /\ a3 /\ a4 /\ a5 /\ a6
  BY Zenon DEF Agrees
<1>2. done.devices = r.devices /\ done.scope = r.scope
  BY DEF Finished
<1>3. PICK nodes : Mapped(r, s, nodes) /\ \A ip \in Shown(r, s) : Node(ip) = nodes[ip]
  BY FinishedNodes
<1>4. {n.ip : n \in done.nodes} = Shown(r, s)
  BY FinishedNodes
<1>5. a1
  BY <1>2, <1>4 DEF Shown
<1> HIDE DEF Node, Own, Ports
<1>6. \A ip : TargetAllowed(done, ip) <=> TargetAllowed(r, ip)
  BY <1>2 DEF TargetAllowed
<1>7. \A x \in ToSet(r.devices) : x.ip \in Shown(r, s) /\ x.conf \in Int /\ Bears(nodes[x.ip], x.conf, x.ev, Own(x))
  <2>1. \A x \in ToSet(r.devices) : x.conf \in Int
    <3>1. \A x \in ToSet(r.devices) : SoundDevice(x, r.evidence)
      BY DEF SoundReport, ToSet
    <3>2. \A x \in ToSet(r.devices) : x.conf \in 0..100
      BY <3>1 DEF SoundDevice
    <3> QED
      BY <3>2
  <2>2. \A x \in ToSet(r.devices) : x.ip \in Shown(r, s)
    BY DEF Shown
  <2>3. \A x \in ToSet(r.devices) : Bears(nodes[x.ip], x.conf, x.ev, Own(x))
    BY <1>3, Zenon DEF Mapped, Own
  <2> QED
    BY <2>1, <2>2, <2>3
<1>8. \A d \in s.devices : d.ip \in Shown(r, s) /\ d.conf \in Int /\ ~d.proven /\ Bears(nodes[d.ip], d.conf, d.ev, d.macs)
  <2>1. \A d \in s.devices : SoundIntel(d)
    BY DEF SoundSection
  <2>2. \A d \in s.devices : d.conf \in 0..100 /\ ~d.proven
    BY <2>1 DEF SoundIntel
  <2>3. \A d \in s.devices : d.ip \in Shown(r, s)
    BY DEF Shown
  <2>4. \A d \in s.devices : Bears(nodes[d.ip], d.conf, d.ev, d.macs)
    BY <1>3 DEF Mapped
  <2> QED
    BY <2>2, <2>3, <2>4
<1>9. \A ip \in Shown(r, s) : nodes[ip].conf \in Int
  <2>1. \A ip \in Shown(r, s) : Drawable(nodes[ip])
    BY <1>3 DEF Mapped, NodesOf
  <2>2. \A ip \in Shown(r, s) : nodes[ip].conf \in 0..100
    BY <2>1 DEF Drawable
  <2> QED
    BY <2>2
<1>10. a3
  BY <1>3, <1>8, <1>9 DEF Bears
<1>11. \A x \in ToSet(r.devices) : TargetAllowed(r, x.ip) => Shows(x, Intel(x.ip))
  <2> TAKE x \in ToSet(r.devices)
  <2> HAVE TargetAllowed(r, x.ip)
  <2>1. PICK d \in s.devices : Shows(x, d)
    BY DEF SoundSection
  <2>2. d.ip = x.ip /\ \A e \in s.devices : e.ip = x.ip => e = d
    BY <2>1 DEF Shows, SoundSection
  <2>3. Intel(x.ip) = d
    BY <2>2
  <2> QED
    BY <2>1, <2>3
<1> HIDE DEF Intel
<1>12. a2
  <2> SUFFICES ASSUME NEW d \in ToSet(done.devices)
               PROVE  /\ Node(d.ip).conf >= d.conf /\ d.ev \subseteq Node(d.ip).ev /\ Own(d) \subseteq Node(d.ip).macs
                      /\ TargetAllowed(done, d.ip) =>
                           /\ d.ev \subseteq Intel(d.ip).ev /\ Ports(d) \subseteq DOMAIN Intel(d.ip).services
                           /\ d.agent = Intel(d.ip).agent /\ (d.gateway => Intel(d.ip).gateway)
    OBVIOUS
  <2>1. Node(d.ip).conf >= d.conf /\ d.ev \subseteq Node(d.ip).ev /\ Own(d) \subseteq Node(d.ip).macs
    BY <1>2, <1>3, <1>7, <1>9 DEF Bears
  <2>2. TargetAllowed(done, d.ip) => Shows(d, Intel(d.ip))
    BY <1>2, <1>6, <1>11
  <2>3. TargetAllowed(done, d.ip) =>
           /\ d.ev \subseteq Intel(d.ip).ev /\ Ports(d) \subseteq DOMAIN Intel(d.ip).services
           /\ d.agent = Intel(d.ip).agent /\ (d.gateway => Intel(d.ip).gateway)
    BY <2>2 DEF Shows, SameFlags, Ports
  <2> QED
    BY <2>1, <2>3
<1>13. a4
  BY DEF Finished, Warned
<1>14. a5
  BY <1>8
<1>15. a6
  BY DEF Finished
<1> HIDE DEF a1, a2, a3, a4, a5, a6
<1> QED
  BY <1>1, <1>5, <1>10, <1>12, <1>13, <1>14, <1>15

-----------------------------------------------------------------------------
(* The invariant of the scan, and what follows from it.                    *)

\* What each stage may take for granted of the ones before it. The finished report is the sound report it
\* was completed from, with the graph.
LanInv ==
    /\ stage = "scoped" => Prepared
    /\ stage \in {"discovered", "classified", "enriched", "intel"} => SoundReport(report)
    /\ stage \in {"discovered", "classified"} => Numbered(report.evidence)
    /\ SoundContext(ctx) /\ SoundResults(results)
    /\ stage = "intel" => SoundSection(report, intel)
    /\ stage = "done" => \E r : SoundReport(r) /\ SoundSection(r, intel) /\ Finished(r, ctx, intel, report)

LEMMA LanStarts == Init => LanInv
<1> SUFFICES ASSUME Init PROVE LanInv
  OBVIOUS
<1>1. stage = "start" /\ ctx = NoContext /\ results = Nothing
  BY DEF Init
<1>2. SoundContext(ctx)
  BY <1>1, ContextsSound
<1>3. DOMAIN Nothing = {}
  BY DEF Nothing
<1>4. SoundResults(results)
  BY <1>1, <1>3, FS_EmptySet DEF SoundResults
<1> QED
  BY <1>1, <1>2, <1>4 DEF LanInv

LEMMA UpstreamKeeps ==
    ASSUME LanInv, NEW answers, EnrichUpstream(answers)
    PROVE  SoundReport(report') /\ SoundResults(results') /\ stage' = "enriched" /\ UNCHANGED ctx
<1>1. stage = "classified" /\ stage' = "enriched" /\ results' = EnrichReport(report, ctx, answers) /\ UNCHANGED ctx
  BY DEF EnrichUpstream
<1> DEFINE found == EnrichReport(report, ctx, answers)
<1>2. SoundReport(report) /\ Numbered(report.evidence) /\ SoundContext(ctx)
  BY <1>1 DEF LanInv
<1>3. \E order \in Arrangements(DOMAIN found) : report' = AppendEvidence(report, found, order)
  BY DEF EnrichUpstream
<1>4. SoundResults(found)
  BY <1>2, Enriching
<1> HIDE DEF found
<1>5. PICK order \in Arrangements(DOMAIN found) : report' = AppendEvidence(report, found, order)
  BY <1>3
<1> DEFINE evidence == Appended(report.evidence, found, order)
<1>6. SoundEvidence(report.evidence)
  BY <1>2 DEF SoundReport
<1>7. SoundEvidence(evidence) /\ Adds(report.evidence, evidence)
  BY <1>2, <1>4, <1>6, EvidenceAppended
<1>8. AppendEvidence(report, found, order) = [report EXCEPT !.evidence = evidence]
  BY Zenon DEF AppendEvidence
<1> HIDE DEF evidence
<1>9. SoundReport([report EXCEPT !.evidence = evidence])
  BY <1>2, <1>7, ReportAppended
<1> QED
  BY <1>1, <1>4, <1>5, <1>8, <1>9 DEF found

LEMMA LanKeeps == LanInv /\ [Next]_vars => LanInv'
<1> SUFFICES ASSUME LanInv, [Next]_vars PROVE LanInv'
  OBVIOUS
<1>1. ASSUME NEW ifaces \in Hosts, NEW g \in Gateways, NEW r \in Requests, NEW name \in Names, NEW public \in BOOLEAN, NEW virtual \in BOOLEAN,
             Select(ifaces, g, r, public, name, virtual)
      PROVE  LanInv'
  <2>1. (stage' = "scoped" => Prepared') /\ UNCHANGED <<ctx, results>>
    BY <1>1, SelectPrepares
  <2>2. stage' \in {"refused", "scoped"}
    BY <1>1, SelectOutcome DEF Takes
  <2> QED
    BY <2>1, <2>2 DEF LanInv
<1>2. ASSUME NEW lan \in Lans, DiscoverLAN(lan) PROVE LanInv'
  <2>1. stage = "scoped" /\ stage' = "discovered" /\ UNCHANGED <<ctx, results>>
    BY <1>2 DEF DiscoverLAN
  <2>2. SoundReport(report') /\ Numbered(report'.evidence)
    BY <1>2, <2>1, DiscoverReports DEF LanInv
  <2> QED
    BY <2>1, <2>2 DEF LanInv
<1>3. ASSUME NEW detected \in Contexts \cup {NoContext}, ClassifyAccess(detected) PROVE LanInv'
  <2>1. stage = "discovered" /\ stage' = "classified" /\ ctx' = detected /\ UNCHANGED <<report, results>>
    BY <1>3 DEF ClassifyAccess
  <2>2. SoundContext(detected)
    BY ContextsSound
  <2> QED
    BY <2>1, <2>2 DEF LanInv
<1>4. ASSUME NEW answers \in Answers, EnrichUpstream(answers) PROVE LanInv'
  <2>1. SoundReport(report') /\ SoundResults(results') /\ stage' = "enriched" /\ UNCHANGED ctx
    BY <1>4, UpstreamKeeps
  <2> QED
    BY <2>1 DEF LanInv
<1>5. CASE SkipUpstream
  <2>1. stage = "classified" /\ stage' = "enriched" /\ UNCHANGED <<report, ctx, results>>
    BY <1>5 DEF SkipUpstream
  <2> QED
    BY <2>1 DEF LanInv
<1>6. ASSUME NEW fingerprints \in Mobiles, BuildDeviceIntel(fingerprints) PROVE LanInv'
  <2>1. stage = "enriched" /\ stage' = "intel" /\ intel' = BuildIntel(report, ctx, fingerprints) /\ UNCHANGED <<report, ctx, results>>
    BY <1>6 DEF BuildDeviceIntel
  <2>2. SoundReport(report) /\ SoundContext(ctx)
    BY <2>1 DEF LanInv
  <2>3. SoundSection(report, BuildIntel(report, ctx, fingerprints))
    BY <2>2, BuiltSection
  <2> QED
    BY <2>1, <2>2, <2>3 DEF LanInv
<1>7. CASE Complete
  <2> DEFINE attached == AttachUpstreamIntel(intel, results)
  <2>1. stage = "intel" /\ stage' = "done" /\ intel' = attached /\ report' = Enriched(report, ctx, attached) /\ UNCHANGED <<ctx, results>>
    BY <1>7 DEF Complete
  <2>2. SoundReport(report) /\ SoundSection(report, intel) /\ SoundResults(results)
    BY <2>1 DEF LanInv
  <2>3. SoundSection(report, attached)
    BY <2>2, AttachedSection
  <2> HIDE DEF attached
  <2>4. Finished(report, ctx, attached, Enriched(report, ctx, attached))
    BY <2>2, <2>3, ReportFinished
  <2>5. Finished(report, ctx', intel', report')
    BY <2>1, <2>4
  <2>6. \E r : SoundReport(r) /\ SoundSection(r, intel') /\ Finished(r, ctx', intel', report')
    BY <2>1, <2>2, <2>3, <2>5
  <2> QED
    BY <2>1, <2>6 DEF LanInv
<1>8. CASE UNCHANGED vars
  BY <1>8 DEF vars, LanInv, Prepared
<1> QED
  BY <1>1, <1>2, <1>3, <1>4, <1>5, <1>6, <1>7, <1>8 DEF Next

\* topology/validate.go:19-23, "every cross-reference (edge endpoints, evidence IDs, summary counts) resolves":
\* whatever the host, the network, the detected context and the upstream answers, the swept report and the
\* finished one have no duplicate device, record, edge or node, no edge or link without its ends, type, style
\* or medium, and cite nothing that is not on record.
THEOREM ReportsValidate == Spec => []ReportValidates
<1>1. LanInv => ReportValidates
  <2>1. stage = "discovered" /\ LanInv => ValidateReport(report) = {}
    BY SoundValidates DEF LanInv
  <2>2. stage = "done" /\ LanInv => ValidateReport(report) = {}
    BY FinishedValidates DEF LanInv
  <2> QED
    BY <2>1, <2>2 DEF ReportValidates
<1> QED
  BY <1>1, LanStarts, LanKeeps, PTL DEF Spec

\* RegisterEvidence (store.go:68) and buildEvidenceRegistry: whatever the scan saw and in whatever order its
\* maps were read, the citations of the intelligence section resolve, and evidence that names an address is
\* registered for the device of that address.
THEOREM CitationsAreResolved == Spec => []CitationsResolve
<1>1. LanInv => CitationsResolve
  <2>1. stage = "done" /\ LanInv => Resolves(report, intel)
    BY FinishedResolves DEF LanInv
  <2> QED
    BY <2>1, Zenon DEF CitationsResolve, Resolves
<1> QED
  BY <1>1, LanStarts, LanKeeps, PTL DEF Spec

\* rich.go:90-93: the graph never tells less of a device than the sections it is drawn from, and no link of
\* it is physical without proof.
THEOREM SectionsStayInStep == Spec => []SectionsAgree
<1>1. LanInv => SectionsAgree
  <2>1. stage = "done" /\ LanInv => Agrees(report, intel)
    BY FinishedAgrees DEF LanInv
  <2> QED
    BY <2>1, Zenon DEF SectionsAgree, Agrees
<1> QED
  BY <1>1, LanStarts, LanKeeps, PTL DEF Spec

-----------------------------------------------------------------------------
(* The order of the upstream records.                                      *)

\* Two reports that differ in the order of their records.
Matches(r, q) == q.scope = r.scope /\ q.devices = r.devices /\ q.edges = r.edges /\ ToSet(q.evidence) = ToSet(r.evidence)

LEMMA AllowedAlike ==
    ASSUME NEW r, NEW q, Matches(r, q)
    PROVE  \A ip : TargetAllowed(r, ip) <=> TargetAllowed(q, ip)
  BY DEF Matches, TargetAllowed

LEMMA RegisteredAlike ==
    ASSUME NEW r, NEW q, Matches(r, q)
    PROVE  \A s, dev, ids, conf : RegisterEvidenceIDs(s, r.evidence, dev, ids, conf) = RegisterEvidenceIDs(s, q.evidence, dev, ids, conf)
<1>1. ToSet(q.evidence) = ToSet(r.evidence)
  BY DEF Matches
<1> QED
  BY <1>1, Zenon DEF RegisterEvidenceIDs

LEMMA TopologyAlike ==
    ASSUME NEW r, NEW q, Matches(r, q)
    PROVE  \A s : IngestTopologyDevices(r, s) = IngestTopologyDevices(q, s)
<1>1. \A s, x : IngestTopologyDevice(r, s, x) = IngestTopologyDevice(q, s, x)
  <2> TAKE s, x
  <2> DEFINE up == UpsertDevice(s, x.ip, LAMBDA d : WithTopologyDevice(d, x))
             ported == UNION {y.ev : y \in x.services}
             First(p) == RegisterEvidenceIDs(up, p.evidence, x.ip, x.ev, x.conf)
             Made(p) == IF ~TargetAllowed(p, x.ip) THEN s ELSE RegisterEvidenceIDs(First(p), p.evidence, x.ip, ported, 75)
  <2>1. \A p : IngestTopologyDevice(p, s, x) = Made(p)
    BY Zenon DEF IngestTopologyDevice
  <2>2. TargetAllowed(r, x.ip) <=> TargetAllowed(q, x.ip)
    BY AllowedAlike
  <2> HIDE DEF up, ported
  <2>3. First(r) = First(q)
    BY RegisteredAlike
  <2> HIDE DEF First
  <2>4. Made(r) = Made(q)
    BY <2>2, <2>3, RegisteredAlike
  <2> QED
    BY <2>1, <2>4
<1> SUFFICES ASSUME NEW s PROVE IngestTopologyDevices(r, s) = IngestTopologyDevices(q, s)
  OBVIOUS
<1> DEFINE Sol(p, g) == g = [t \in SUBSET DOMAIN p.devices |-> IF t = {} THEN s ELSE IngestTopologyDevice(p, g[t \ {Max(t)}], p.devices[Max(t)])]
           f(p) == CHOOSE g : Sol(p, g)
<1>2. \A p : IngestTopologyDevices(p, s) = f(p)[DOMAIN p.devices]
  BY Zenon DEF FoldLeft, MapThenFoldSet, IngestTopologyDevices
<1>3. q.devices = r.devices
  BY DEF Matches
<1>4. \A g : Sol(r, g) <=> Sol(q, g)
  BY <1>1, <1>3
<1> HIDE DEF Sol
<1>5. f(r) = f(q)
  BY <1>4, Zenon
<1> QED
  BY <1>2, <1>3, <1>5

LEMMA GatewaysAlike ==
    ASSUME NEW r, NEW q, Matches(r, q)
    PROVE  \A s, devices : IngestGatewayDevices(r, s, devices) = IngestGatewayDevices(q, s, devices)
<1>1. \A s, g : IngestGatewayDevice(r, s, g) = IngestGatewayDevice(q, s, g)
  <2> TAKE s, g
  <2> DEFINE up == UpsertDevice(s, g.ip, LAMBDA d : WithGatewayDevice(d, g))
             Made(p) == IF TargetAllowed(p, g.ip) THEN RegisterEvidenceIDs(up, p.evidence, g.ip, g.ev, g.conf) ELSE s
  <2>1. \A p : IngestGatewayDevice(p, s, g) = Made(p)
    BY Zenon DEF IngestGatewayDevice
  <2> HIDE DEF up
  <2>2. Made(r) = Made(q)
    BY AllowedAlike, RegisteredAlike
  <2> QED
    BY <2>1, <2>2
<1> SUFFICES ASSUME NEW s, NEW devices PROVE IngestGatewayDevices(r, s, devices) = IngestGatewayDevices(q, s, devices)
  OBVIOUS
<1> DEFINE Sol(p, h) == h = [t \in SUBSET devices |-> IF t = {} THEN s
                                                  ELSE IngestGatewayDevice(p, h[t \ {CHOOSE x \in t : TRUE}], (CHOOSE x \in t : TRUE))]
           f(p) == CHOOSE h : Sol(p, h)
<1>2. \A p : IngestGatewayDevices(p, s, devices) = f(p)[devices]
  BY Zenon DEF FoldSet, MapThenFoldSet, IngestGatewayDevices
<1>3. \A h : Sol(r, h) <=> Sol(q, h)
  BY <1>1
<1> HIDE DEF Sol
<1>4. f(r) = f(q)
  BY <1>3, Zenon
<1> QED
  BY <1>2, <1>4

LEMMA CPEsAlike ==
    ASSUME NEW r, NEW q, Matches(r, q)
    PROVE  \A s, cpes : IngestCPECandidates(r, s, cpes) = IngestCPECandidates(q, s, cpes)
<1>1. \A s, g : IngestCPECandidate(r, s, g) = IngestCPECandidate(q, s, g)
  <2> TAKE s, g
  <2> DEFINE up == UpsertDevice(s, g.ip, LAMBDA d : WithCPE(d, g))
             Made(p) == IF TargetAllowed(p, g.ip) THEN RegisterEvidenceIDs(up, p.evidence, g.ip, g.ev, g.conf) ELSE s
  <2>1. \A p : IngestCPECandidate(p, s, g) = Made(p)
    BY Zenon DEF IngestCPECandidate
  <2> HIDE DEF up
  <2>2. Made(r) = Made(q)
    BY AllowedAlike, RegisteredAlike
  <2> QED
    BY <2>1, <2>2
<1> SUFFICES ASSUME NEW s, NEW cpes PROVE IngestCPECandidates(r, s, cpes) = IngestCPECandidates(q, s, cpes)
  OBVIOUS
<1> DEFINE Sol(p, h) == h = [t \in SUBSET cpes |-> IF t = {} THEN s
                                               ELSE IngestCPECandidate(p, h[t \ {CHOOSE x \in t : TRUE}], (CHOOSE x \in t : TRUE))]
           f(p) == CHOOSE h : Sol(p, h)
<1>2. \A p : IngestCPECandidates(p, s, cpes) = f(p)[cpes]
  BY Zenon DEF FoldSet, MapThenFoldSet, IngestCPECandidates
<1>3. \A h : Sol(r, h) <=> Sol(q, h)
  BY <1>1
<1> HIDE DEF Sol
<1>4. f(r) = f(q)
  BY <1>3, Zenon
<1> QED
  BY <1>2, <1>4

LEMMA HopsAlike ==
    ASSUME NEW r, NEW q, Matches(r, q)
    PROVE  \A c, s : IngestHops(r, c, s) = IngestHops(q, c, s)
<1>1. \A c, s, h : IngestHop(r, c, s, h) = IngestHop(q, c, s, h)
  <2> TAKE c, s, h
  <2> DEFINE up == UpsertDevice(s, h.ip, LAMBDA d : WithHop(d, h, c.conf))
  <2>1. \A p : IngestHop(p, c, s, h) = IF TargetAllowed(p, h.ip) THEN up ELSE s
    BY Zenon DEF IngestHop
  <2> HIDE DEF up
  <2> QED
    BY <2>1, AllowedAlike
<1> SUFFICES ASSUME NEW c, NEW s PROVE IngestHops(r, c, s) = IngestHops(q, c, s)
  OBVIOUS
<1> DEFINE Sol(p, g) == g = [t \in SUBSET DOMAIN c.hops |-> IF t = {} THEN s ELSE IngestHop(p, c, g[t \ {Max(t)}], c.hops[Max(t)])]
           f(p) == CHOOSE g : Sol(p, g)
<1>2. \A p : IngestHops(p, c, s) = f(p)[DOMAIN c.hops]
  BY Zenon DEF FoldLeft, MapThenFoldSet, IngestHops
<1>3. \A g : Sol(r, g) <=> Sol(q, g)
  BY <1>1
<1> HIDE DEF Sol
<1>4. f(r) = f(q)
  BY <1>3, Zenon
<1> QED
  BY <1>2, <1>4

\* The detected context adds the same to a store.
LEMMA ContextAlike ==
    ASSUME NEW r, NEW q, Matches(r, q), NEW c, NEW s
    PROVE  IngestAccessContext(r, c, s) = IngestAccessContext(q, c, s)
<1> DEFINE Hopped(p) == IngestHops(p, c, s)
           Gated(p, t) == IngestGatewayDevices(p, t, c.devices)
           Ended(p, t) == IngestCPECandidates(p, t, c.cpes)
<1>1. \A p : IngestAccessContext(p, c, s) = Ended(p, Gated(p, Hopped(p)))
  BY Zenon DEF IngestAccessContext
<1>2. Hopped(r) = Hopped(q)
  BY HopsAlike
<1>3. \A t : Gated(r, t) = Gated(q, t)
  BY GatewaysAlike
<1>4. \A t : Ended(r, t) = Ended(q, t)
  BY CPEsAlike
<1> HIDE DEF Hopped, Gated, Ended
<1> QED
  BY <1>1, <1>2, <1>3, <1>4

\* A store is its two parts, and the first one is a map.
Filed(s) == s = [devices |-> s.devices, obs |-> s.obs] /\ s.devices = [ip \in DOMAIN s.devices |-> s.devices[ip]]

LEMMA FiledUpsert ==
    ASSUME NEW s, Filed(s), NEW ip, NEW d
    PROVE  /\ Filed(Upserted(s, ip, d)) /\ Upserted(s, ip, d).obs = s.obs
           /\ DOMAIN Upserted(s, ip, d).devices = DOMAIN s.devices \cup {ip} /\ Upserted(s, ip, d).devices[ip] = d
           /\ \A jp \in DOMAIN s.devices : jp # ip => Upserted(s, ip, d).devices[jp] = s.devices[jp]
<1> DEFINE u == Upserted(s, ip, d)
           devices == Put(s.devices, ip, d)
           t == [devices |-> s.devices, obs |-> s.obs]
<1>1. s = t
  BY DEF Filed
<1>2. [t EXCEPT !.devices = devices] = [devices |-> devices, obs |-> s.obs]
  OBVIOUS
<1>3. u = [devices |-> devices, obs |-> s.obs]
  <2> HIDE DEF devices, t
  <2>1. u = [s EXCEPT !.devices = devices]
    BY DEF Upserted, devices
  <2> QED
    BY <1>1, <1>2, <2>1
<1>4. /\ DOMAIN devices = DOMAIN s.devices \cup {ip} /\ devices[ip] = d
      /\ \A jp \in DOMAIN s.devices : jp # ip => devices[jp] = s.devices[jp]
      /\ devices = [jp \in DOMAIN devices |-> devices[jp]]
  BY DEF Put
<1> HIDE DEF u, devices
<1>5. u.devices = devices /\ u.obs = s.obs
  BY <1>3
<1> QED
  BY <1>3, <1>4, <1>5 DEF Filed, u

LEMMA FiledRegister ==
    ASSUME NEW s, Filed(s), NEW records, NEW dev, NEW conf
    PROVE  LET u == RegisterEvidence(s, records, dev, conf)
               known == {o.id : o \in s.obs}
           IN  Filed(u) /\ u.devices = s.devices /\ u.obs = s.obs \cup {Observation(e, dev, conf) : e \in {x \in records : x.id \notin known}}
<1> DEFINE u == RegisterEvidence(s, records, dev, conf)
           known == {o.id : o \in s.obs}
           obs == s.obs \cup {Observation(e, dev, conf) : e \in {x \in records : x.id \notin known}}
           t == [devices |-> s.devices, obs |-> s.obs]
<1>1. s = t
  BY DEF Filed
<1>2. [t EXCEPT !.obs = obs] = [devices |-> s.devices, obs |-> obs]
  <2> HIDE DEF obs
  <2> QED
    OBVIOUS
<1>3. u = [s EXCEPT !.obs = obs]
  BY DEF RegisterEvidence
<1> HIDE DEF t, obs, u
<1>4. u = [devices |-> s.devices, obs |-> obs]
  BY <1>1, <1>2, <1>3
<1>5. u.devices = s.devices /\ u.obs = obs
  BY <1>4
<1> QED
  BY <1>4, <1>5 DEF Filed, u, obs

LEMMA FiledTopology ==
    ASSUME NEW r, IsSlice(r.devices)
    PROVE  Filed(IngestTopologyDevices(r, EmptyStore))
<1>0. Filed(EmptyStore)
  BY DEF Filed, EmptyStore, Nothing
<1>1. ASSUME NEW s, Filed(s), NEW x PROVE Filed(IngestTopologyDevice(r, s, x))
  <2> DEFINE w == WithTopologyDevice(Before(s, x.ip), x)
             up == Upserted(s, x.ip, w)
             ported == UNION {y.ev : y \in x.services}
             known == RegisterEvidenceIDs(up, r.evidence, x.ip, x.ev, x.conf)
             full == RegisterEvidenceIDs(known, r.evidence, x.ip, ported, 75)
  <2>1. IngestTopologyDevice(r, s, x) = IF ~TargetAllowed(r, x.ip) THEN s ELSE full
    BY Zenon DEF IngestTopologyDevice, UpsertDevice, Upserted, Before
  <2> HIDE DEF w
  <2>2. Filed(up)
    BY <1>1, FiledUpsert
  <2> HIDE DEF up, ported
  <2>3. \A a, dev, ids, conf : Filed(a) => Filed(RegisterEvidenceIDs(a, r.evidence, dev, ids, conf))
    BY FiledRegister DEF RegisterEvidenceIDs
  <2>4. Filed(known)
    BY <2>2, <2>3
  <2> HIDE DEF known
  <2>5. Filed(full)
    BY <2>3, <2>4
  <2> HIDE DEF full
  <2> QED
    BY <1>1, <2>1, <2>5
<1>2. PICK q, acc : /\ IsSlice(q) /\ Turns(acc, "topology", r, EmptyStore, q)
                    /\ acc[Len(q)] = IngestTopologyDevices(r, EmptyStore)
  BY TopologyRan DEF Ran
<1>3. Len(q) \in Nat /\ acc[0] = EmptyStore /\ \A k \in 1..Len(q) : acc[k] = IngestTopologyDevice(r, acc[k - 1], q[k])
  BY <1>2, SliceIs DEF Turns, Turn
<1> DEFINE G == {k \in Nat : Filed(acc[k])}
<1>4. 0 \in G
  BY <1>0, <1>3
<1>5. ASSUME NEW k \in 0..Len(q) - 1, k \in G PROVE k + 1 \in G
  <2>1. k \in Nat /\ k + 1 \in 1..Len(q) /\ (k + 1) - 1 = k /\ k + 1 \in Nat
    BY <1>3
  <2>2. acc[k + 1] = IngestTopologyDevice(r, acc[k], q[k + 1])
    BY <1>3, <2>1
  <2> QED
    BY <1>1, <1>5, <2>1, <2>2
<1>6. Len(q) \in G
  <2>1. G \in SUBSET Nat
    OBVIOUS
  <2> HIDE DEF G
  <2>2. \A k \in 0..Len(q) : k \in G
    BY <1>3, <1>4, <1>5, <2>1, UpTo
  <2> QED
    BY <1>3, <2>2
<1> QED
  BY <1>2, <1>6

\* Two stores that hold the same of an address.
Same(s, t, ip) == (ip \in DOMAIN s.devices <=> ip \in DOMAIN t.devices) /\ Before(s, ip) = Before(t, ip)

\* The observation a record leaves.
Noted(e) == Observation(e, e.ip, EvidenceConfidence(e.kind))

\* What becomes of a store that meets a record: t.
Files(r, s, e, t) ==
    /\ Filed(t)
    /\ t.obs = IF TargetAllowed(r, e.ip) /\ \A o \in s.obs : o.id # e.id THEN s.obs \cup {Noted(e)} ELSE s.obs
    /\ TargetAllowed(r, e.ip) => e.ip \in DOMAIN t.devices /\ t.devices[e.ip] = WithRecord(Before(s, e.ip), e)
    /\ ~TargetAllowed(r, e.ip) => t = s
    /\ \A ip : ip # e.ip => Same(s, t, ip)

LEMMA RecordFiled ==
    ASSUME NEW r, NEW s, Filed(s), NEW e
    PROVE  Files(r, s, e, IngestEvidenceRecord(r, s, e))
<1> DEFINE w == WithRecord(Before(s, e.ip), e)
           u == Upserted(s, e.ip, w)
           conf == EvidenceConfidence(e.kind)
           full == RegisterEvidence(u, {e}, e.ip, conf)
           t == IngestEvidenceRecord(r, s, e)
           known == {o.id : o \in s.obs}
           added == {Observation(x, e.ip, conf) : x \in {y \in {e} : y.id \notin known}}
<1>1. t = IF ~TargetAllowed(r, e.ip) THEN s ELSE full
  BY Zenon DEF IngestEvidenceRecord, UpsertDevice, Upserted, Before
<1>2. /\ Filed(u) /\ u.obs = s.obs /\ DOMAIN u.devices = DOMAIN s.devices \cup {e.ip} /\ u.devices[e.ip] = w
      /\ \A ip \in DOMAIN s.devices : ip # e.ip => u.devices[ip] = s.devices[ip]
  <2> HIDE DEF w
  <2> QED
    BY FiledUpsert
<1>3. Noted(e) = Observation(e, e.ip, conf)
  BY DEF Noted
<1>4. added = IF e.id \in known THEN {} ELSE {Noted(e)}
  <2> HIDE DEF conf, known
  <2> QED
    BY <1>3
<1>5. e.id \in known <=> ~ \A o \in s.obs : o.id # e.id
  OBVIOUS
<1> HIDE DEF w, u, conf, t
<1>6. Filed(full) /\ full.devices = u.devices /\ full.obs = s.obs \cup added
  <2> DEFINE before == {o.id : o \in u.obs}
             extra == {Observation(x, e.ip, conf) : x \in {y \in {e} : y.id \notin before}}
  <2>1. Filed(full) /\ full.devices = u.devices /\ full.obs = u.obs \cup extra
    BY <1>2, FiledRegister
  <2>2. extra = added
    BY <1>2
  <2> HIDE DEF extra, added, full
  <2> QED
    BY <1>2, <2>1, <2>2
<1> HIDE DEF full, added, known
<1>7. \A ip : ip # e.ip => Same(s, full, ip)
  BY <1>2, <1>6 DEF Same, Before, At
<1>8. \A ip : Same(s, s, ip)
  BY DEF Same
<1>9. CASE TargetAllowed(r, e.ip)
  <2>1. t = full
    BY <1>1, <1>9
  <2>2. full.obs = IF TargetAllowed(r, e.ip) /\ \A o \in s.obs : o.id # e.id THEN s.obs \cup {Noted(e)} ELSE s.obs
    BY <1>4, <1>5, <1>6, <1>9
  <2> QED
    BY <1>2, <1>6, <1>7, <1>9, <2>1, <2>2 DEF t, w, Files
<1>10. CASE ~TargetAllowed(r, e.ip)
  <2>1. t = s
    BY <1>1, <1>10
  <2> QED
    BY <1>8, <1>10, <2>1 DEF t, Files
<1> QED
  BY <1>9, <1>10

\* Records of one address are met in the same way by stores that hold the same of it; others leave it alone.
LEMMA RecordSame ==
    ASSUME NEW r, NEW s, Filed(s), NEW t, Filed(t), NEW ip, Same(s, t, ip), NEW e
    PROVE  IF e.ip = ip THEN Same(IngestEvidenceRecord(r, s, e), IngestEvidenceRecord(r, t, e), ip)
                        ELSE Same(IngestEvidenceRecord(r, s, e), t, ip) /\ Same(s, IngestEvidenceRecord(r, t, e), ip)
<1> DEFINE a == IngestEvidenceRecord(r, s, e)
           b == IngestEvidenceRecord(r, t, e)
<1>0. Files(r, s, e, a) /\ Files(r, t, e, b)
  BY RecordFiled
<1> HIDE DEF a, b
<1>1. /\ TargetAllowed(r, e.ip) => e.ip \in DOMAIN a.devices /\ a.devices[e.ip] = WithRecord(Before(s, e.ip), e)
      /\ ~TargetAllowed(r, e.ip) => a = s
      /\ \A jp : jp # e.ip => Same(s, a, jp)
  BY <1>0 DEF Files
<1>2. /\ TargetAllowed(r, e.ip) => e.ip \in DOMAIN b.devices /\ b.devices[e.ip] = WithRecord(Before(t, e.ip), e)
      /\ ~TargetAllowed(r, e.ip) => b = t
      /\ \A jp : jp # e.ip => Same(t, b, jp)
  BY <1>0 DEF Files
<1>3. CASE e.ip # ip
  BY <1>1, <1>2, <1>3 DEF Same, a, b
<1>4. CASE e.ip = ip
  <2>1. Before(s, ip) = Before(t, ip)
    BY DEF Same
  <2>2. CASE TargetAllowed(r, ip)
    <3>1. /\ ip \in DOMAIN a.devices /\ ip \in DOMAIN b.devices
          /\ a.devices[ip] = WithRecord(Before(s, ip), e) /\ b.devices[ip] = WithRecord(Before(t, ip), e)
      BY <1>1, <1>2, <1>4, <2>2
    <3>2. a.devices[ip] = b.devices[ip]
      BY <2>1, <3>1
    <3>3. Same(a, b, ip)
      BY <3>1, <3>2 DEF Same, Before, At
    <3> QED
      BY <1>4, <3>3 DEF a, b
  <2>3. CASE ~TargetAllowed(r, ip)
    BY <1>1, <1>2, <1>4, <2>3 DEF a, b
  <2> QED
    BY <2>2, <2>3
<1> QED
  BY <1>3, <1>4

\* Stores that hold the same of every address and observed the same are the same.
LEMMA SameStores ==
    ASSUME NEW s, Filed(s), NEW t, Filed(t), s.obs = t.obs, \A ip : Same(s, t, ip)
    PROVE  s = t
<1>1. DOMAIN s.devices = DOMAIN t.devices
  BY DEF Same
<1>2. \A ip \in DOMAIN s.devices : s.devices[ip] = t.devices[ip]
  BY <1>1 DEF Same, Before, At
<1>3. s.devices = [ip \in DOMAIN s.devices |-> s.devices[ip]] /\ t.devices = [ip \in DOMAIN s.devices |-> t.devices[ip]]
  BY <1>1 DEF Filed
<1>4. s.devices = t.devices
  BY <1>2, <1>3
<1> QED
  BY <1>4 DEF Filed

\* Whichever store the records started from, what has been observed is what they note.
Observed(r, base, log, k) ==
    base.obs \cup {Noted(e) : e \in {x \in {log[i] : i \in 1..k} : TargetAllowed(r, x.ip) /\ \A o \in base.obs : o.id # x.id}}

LEMMA RecordsObserved ==
    ASSUME NEW r, NEW base, Filed(base), NEW log, IsSlice(log), DistinctIds(log), NEW a, Turns(a, "records", r, base, log)
    PROVE  \A k \in 0..Len(log) : Filed(a[k]) /\ a[k].obs = Observed(r, base, log, k)
<1>0. Len(log) \in Nat /\ DOMAIN log = 1..Len(log)
  BY SliceIs
<1>1. a[0] = base /\ \A k \in 1..Len(log) : a[k] = IngestEvidenceRecord(r, a[k - 1], log[k])
  BY DEF Turns, Turn
<1> DEFINE G == {k \in Nat : Filed(a[k]) /\ a[k].obs = Observed(r, base, log, k)}
<1>2. 0 \in G
  BY <1>1 DEF Observed
<1>3. ASSUME NEW k \in 0..Len(log) - 1, k \in G PROVE k + 1 \in G
  <2>1. k \in Nat /\ k + 1 \in 1..Len(log) /\ (k + 1) - 1 = k /\ k + 1 \in Nat /\ 1..k + 1 = 1..k \cup {k + 1}
    BY <1>0
  <2> DEFINE e == log[k + 1]
             seen == {log[i] : i \in 1..k}
             Wanted(x) == TargetAllowed(r, x.ip) /\ \A o \in base.obs : o.id # x.id
             old == {x \in seen : Wanted(x)}
  <2>2. a[k + 1] = IngestEvidenceRecord(r, a[k], e)
    BY <1>1, <2>1
  <2>3. Files(r, a[k], e, a[k + 1])
    BY <1>3, <2>2, RecordFiled
  <2>4. \A x \in seen : x.id # e.id
    <3> SUFFICES ASSUME NEW i \in 1..k PROVE log[i].id # log[k + 1].id
      OBVIOUS
    <3>1. i \in DOMAIN log /\ k + 1 \in DOMAIN log /\ i # k + 1
      BY <1>0, <2>1
    <3> QED
      BY <3>1 DEF DistinctIds
  <2>5. \A x : Noted(x).id = x.id
    BY DEF Noted, Observation
  <2>6. a[k].obs = base.obs \cup {Noted(x) : x \in old}
    BY <1>3 DEF Observed
  <2>7. {log[i] : i \in 1..k + 1} = seen \cup {e}
    BY <2>1
  <2> HIDE DEF e, seen
  <2>8. (\A o \in a[k].obs : o.id # e.id) <=> \A o \in base.obs : o.id # e.id
    BY <2>4, <2>5, <2>6
  <2> DEFINE all == {x \in seen \cup {e} : Wanted(x)}
  <2>9. a[k + 1].obs = IF Wanted(e) THEN a[k].obs \cup {Noted(e)} ELSE a[k].obs
    BY <2>3, <2>8 DEF Files
  <2>10. all = IF Wanted(e) THEN old \cup {e} ELSE old
    <3> HIDE DEF Wanted
    <3> QED
      OBVIOUS
  <2> HIDE DEF Wanted, old, all
  <2>11. a[k + 1].obs = base.obs \cup {Noted(x) : x \in all}
    BY <2>6, <2>9, <2>10
  <2>12. Observed(r, base, log, k + 1) = base.obs \cup {Noted(x) : x \in all}
    BY <2>7 DEF Observed, all, Wanted
  <2> QED
    BY <2>1, <2>3, <2>11, <2>12 DEF Files
<1> QED
  <2>1. G \in SUBSET Nat
    OBVIOUS
  <2> HIDE DEF G
  <2>2. \A k \in 0..Len(log) : k \in G
    BY <1>0, <1>2, <1>3, <2>1, UpTo
  <2> QED
    BY <2>2 DEF G

\* A record that precedes another of its address in every log: the scan's own records by their number,
\* then those of the upstream target by theirs.
Earlier(e, f) ==
    /\ e.id[4] \in Nat /\ f.id[4] \in Nat
    /\ \/ e.id[1] = "ev" /\ f.id[1] = "up"
       \/ e.id[1] = f.id[1] /\ e.id[4] < f.id[4]

InTurn(log) == \A i, j \in DOMAIN log : i < j /\ log[i].ip = log[j].ip => Earlier(log[i], log[j])

LEMMA EarlierOne == \A e, f : ~(Earlier(e, f) /\ Earlier(f, e))
<1> SUFFICES ASSUME NEW e, NEW f, Earlier(e, f), Earlier(f, e) PROVE FALSE
  OBVIOUS
<1>1. e.id[4] \in Nat /\ f.id[4] \in Nat
  BY DEF Earlier
<1>2. ~(e.id[4] < f.id[4] /\ f.id[4] < e.id[4])
  BY <1>1
<1>3. "ev" # "up"
  OBVIOUS
<1> QED
  BY <1>2, <1>3 DEF Earlier

\* The first k records of a log that are about ip.
About(log, k, ip) == {x \in {log[i] : i \in 1..k} : x.ip = ip}

LEMMA AboutNext ==
    ASSUME NEW log, IsSlice(log), DistinctIds(log), NEW k \in 1..Len(log), NEW ip
    PROVE  /\ log[k].ip # ip => About(log, k, ip) = About(log, k - 1, ip)
           /\ log[k].ip = ip => log[k] \in About(log, k, ip) /\ About(log, k - 1, ip) = About(log, k, ip) \ {log[k]}
<1>0. Len(log) \in Nat /\ DOMAIN log = 1..Len(log) /\ k \in Nat /\ 1..k = 1..k - 1 \cup {k}
  BY SliceIs
<1>1. \A i \in 1..k - 1 : i \in DOMAIN log /\ k \in DOMAIN log /\ i # k
  BY <1>0
<1>2. \A i \in 1..k - 1 : log[i] # log[k]
  BY <1>1 DEF DistinctIds
<1>3. {log[i] : i \in 1..k} = {log[i] : i \in 1..k - 1} \cup {log[k]}
  BY <1>0
<1>4. log[k] \notin {log[i] : i \in 1..k - 1}
  BY <1>2
<1> DEFINE seen == {log[i] : i \in 1..k - 1}
<1> HIDE DEF seen
<1>5. About(log, k, ip) = {x \in seen \cup {log[k]} : x.ip = ip} /\ About(log, k - 1, ip) = {x \in seen : x.ip = ip} /\ log[k] \notin seen
  BY <1>3, <1>4 DEF About, seen
<1> QED
  BY <1>5

\* Where two logs are in turn and have come to the same records of an address, they are at the same record of it.
LEMMA AtTheSame ==
    ASSUME NEW log, IsSlice(log), DistinctIds(log), InTurn(log), NEW other, IsSlice(other), DistinctIds(other), InTurn(other),
           NEW ip, NEW k \in 1..Len(log), NEW l \in 1..Len(other), log[k].ip = ip, other[l].ip = ip, About(log, k, ip) = About(other, l, ip)
    PROVE  log[k] = other[l]
<1>0. /\ Len(log) \in Nat /\ DOMAIN log = 1..Len(log) /\ Len(other) \in Nat /\ DOMAIN other = 1..Len(other)
      /\ k \in DOMAIN log /\ l \in DOMAIN other
  BY SliceIs
<1>1. log[k] \in About(other, l, ip) /\ other[l] \in About(log, k, ip)
  BY AboutNext
<1>2. PICK i \in 1..k : log[i] = other[l]
  BY <1>1 DEF About
<1>3. PICK j \in 1..l : other[j] = log[k]
  BY <1>1 DEF About
<1>4. CASE i = k
  BY <1>2, <1>4
<1>5. CASE j = l
  BY <1>3, <1>5
<1>6. CASE i # k /\ j # l
  <2>1. i \in DOMAIN log /\ i < k /\ j \in DOMAIN other /\ j < l
    BY <1>0, <1>2, <1>3, <1>6
  <2>2. Earlier(other[l], log[k])
    BY <1>0, <1>2, <2>1 DEF InTurn
  <2>3. Earlier(log[k], other[l])
    BY <1>0, <1>3, <2>1 DEF InTurn
  <2> QED
    BY <2>2, <2>3, EarlierOne
<1> QED
  BY <1>4, <1>5, <1>6

\* Two logs of the same records, each in turn for every address, leave the same store.
LEMMA RunsSame ==
    ASSUME NEW r, NEW base, Filed(base),
           NEW log, IsSlice(log), DistinctIds(log), InTurn(log), NEW other, IsSlice(other), DistinctIds(other), InTurn(other),
           NEW a, Turns(a, "records", r, base, log), NEW b, Turns(b, "records", r, base, other), NEW ip
    PROVE  \A k \in 0..Len(log), l \in 0..Len(other) : About(log, k, ip) = About(other, l, ip) => Same(a[k], b[l], ip)
<1> DEFINE m == Len(log)
           n == Len(other)
           Alike(k, l) == About(log, k, ip) = About(other, l, ip) => Same(a[k], b[l], ip)
           G == {z \in Nat : \A k \in 0..m, l \in 0..n : k + l <= z => Alike(k, l)}
<1>0. m \in Nat /\ n \in Nat
  BY SliceIs
<1>1. a[0] = base /\ \A k \in 1..m : a[k] = IngestEvidenceRecord(r, a[k - 1], log[k])
  BY DEF Turns, Turn
<1>2. b[0] = base /\ \A l \in 1..n : b[l] = IngestEvidenceRecord(r, b[l - 1], other[l])
  BY DEF Turns, Turn
<1>3. (\A k \in 0..m : Filed(a[k])) /\ \A l \in 0..n : Filed(b[l])
  BY RecordsObserved
<1>4. About(log, 0, ip) = {} /\ About(other, 0, ip) = {}
  BY DEF About
<1>5. \A k \in 1..m : /\ log[k].ip # ip => About(log, k, ip) = About(log, k - 1, ip)
                      /\ log[k].ip = ip => log[k] \in About(log, k, ip) /\ About(log, k - 1, ip) = About(log, k, ip) \ {log[k]}
  BY AboutNext
<1>6. \A l \in 1..n : /\ other[l].ip # ip => About(other, l, ip) = About(other, l - 1, ip)
                      /\ other[l].ip = ip => other[l] \in About(other, l, ip) /\ About(other, l - 1, ip) = About(other, l, ip) \ {other[l]}
  BY AboutNext
<1> HIDE DEF m, n
<1>7. 0 \in G
  <2> SUFFICES ASSUME NEW k \in 0..m, NEW l \in 0..n, k + l <= 0 PROVE Alike(k, l)
    OBVIOUS
  <2>1. k = 0 /\ l = 0
    BY <1>0
  <2> QED
    BY <1>1, <1>2, <2>1 DEF Same
<1>8. ASSUME NEW z \in 0..(m + n) - 1, z \in G PROVE z + 1 \in G
  <2> SUFFICES ASSUME NEW k \in 0..m, NEW l \in 0..n, k + l <= z + 1, About(log, k, ip) = About(other, l, ip) PROVE Same(a[k], b[l], ip)
    BY <1>0
  <2>1. \A i \in 0..m, j \in 0..n : i + j <= z /\ About(log, i, ip) = About(other, j, ip) => Same(a[i], b[j], ip)
    BY <1>8
  <2>2. k \in Nat /\ l \in Nat /\ k <= m /\ l <= n /\ z \in Nat
    BY <1>0
  <2> HIDE DEF G
  <2>3. CASE k # 0 /\ log[k].ip # ip
    <3>1. k \in 1..m /\ k - 1 \in 0..m /\ (k - 1) + l <= z
      BY <1>0, <2>2, <2>3
    <3>2. Same(a[k - 1], b[l], ip)
      BY <1>5, <2>1, <2>3, <3>1
    <3>3. Same(IngestEvidenceRecord(r, a[k - 1], log[k]), b[l], ip)
      BY <1>3, <2>3, <3>1, <3>2, RecordSame
    <3> QED
      BY <1>1, <3>1, <3>3
  <2>4. CASE l # 0 /\ other[l].ip # ip
    <3>1. l \in 1..n /\ l - 1 \in 0..n /\ k + (l - 1) <= z
      BY <1>0, <2>2, <2>4
    <3>2. Same(a[k], b[l - 1], ip)
      BY <1>6, <2>1, <2>4, <3>1
    <3>3. Same(a[k], IngestEvidenceRecord(r, b[l - 1], other[l]), ip)
      BY <1>3, <2>4, <3>1, <3>2, RecordSame
    <3> QED
      BY <1>2, <3>1, <3>3
  <2>5. CASE k = 0 /\ l = 0
    BY <1>1, <1>2, <2>5 DEF Same
  <2>6. CASE (k # 0 => log[k].ip = ip) /\ (l # 0 => other[l].ip = ip) /\ ~(k = 0 /\ l = 0)
    <3>1. (k # 0 => k \in 1..m) /\ (l # 0 => l \in 1..n)
      BY <2>2
    <3>2. k # 0 /\ l # 0
      BY <1>4, <1>5, <1>6, <2>6, <3>1
    <3>3. k \in 1..m /\ l \in 1..n /\ k - 1 \in 0..m /\ l - 1 \in 0..n /\ (k - 1) + (l - 1) <= z
      BY <1>0, <2>2, <3>1, <3>2
    <3>4. log[k] = other[l]
      BY <2>6, <3>2, <3>3, AtTheSame DEF m, n
    <3>5. About(log, k - 1, ip) = About(other, l - 1, ip)
      BY <1>5, <1>6, <2>6, <3>2, <3>3, <3>4
    <3>6. Same(a[k - 1], b[l - 1], ip)
      BY <2>1, <3>3, <3>5
    <3>7. Same(IngestEvidenceRecord(r, a[k - 1], log[k]), IngestEvidenceRecord(r, b[l - 1], log[k]), ip)
      BY <1>3, <2>6, <3>2, <3>3, <3>6, RecordSame
    <3> QED
      BY <1>1, <1>2, <3>3, <3>4, <3>7
  <2> QED
    BY <2>3, <2>4, <2>5, <2>6
<1>9. m + n \in G
  <2> DEFINE t == m + n
  <2>1. G \in SUBSET Nat /\ t \in Nat
    BY <1>0
  <2> HIDE DEF G
  <2>2. \A z \in 0..t - 1 : z \in G => z + 1 \in G
    BY <1>8
  <2> HIDE DEF t
  <2>3. \A z \in 0..t : z \in G
    BY <1>7, <2>1, <2>2, UpTo
  <2>4. t \in G
    BY <2>1, <2>3
  <2> QED
    BY <2>4 DEF t
<1>10. \A k \in 0..m, l \in 0..n : Alike(k, l)
  <2>1. \A k \in 0..m, l \in 0..n : k + l <= m + n
    BY <1>0
  <2> HIDE DEF Alike
  <2> QED
    BY <1>9, <2>1
<1> QED
  BY <1>10 DEF m, n

LEMMA RecordsAlike ==
    ASSUME NEW r, NEW q, Matches(r, q), SoundEvidence(r.evidence), SoundEvidence(q.evidence), InTurn(r.evidence), InTurn(q.evidence),
           NEW base, Filed(base)
    PROVE  IngestEvidenceRecords(r, base) = IngestEvidenceRecords(q, base)
<1> DEFINE log == r.evidence
           other == q.evidence
<1>1. /\ IsSlice(log) /\ DistinctIds(log) /\ InTurn(log) /\ IsSlice(other) /\ DistinctIds(other) /\ InTurn(other)
      /\ ToSet(log) = ToSet(other)
  BY DEF SoundEvidence, Matches
<1>2. PICK a : Turns(a, "records", r, base, log) /\ a[Len(log)] = IngestEvidenceRecords(r, base)
  BY <1>1, RecordsRun
<1>3. PICK b : Turns(b, "records", q, base, other) /\ b[Len(other)] = IngestEvidenceRecords(q, base)
  BY <1>1, RecordsRun
<1> HIDE DEF log, other
<1>4. \A s, e : IngestEvidenceRecord(q, s, e) = IngestEvidenceRecord(r, s, e)
  <2> TAKE s, e
  <2> DEFINE full == RegisterEvidence(UpsertDevice(s, e.ip, LAMBDA d : WithRecord(d, e)), {e}, e.ip, EvidenceConfidence(e.kind))
  <2>1. \A p : IngestEvidenceRecord(p, s, e) = IF ~TargetAllowed(p, e.ip) THEN s ELSE full
    BY Zenon DEF IngestEvidenceRecord
  <2> HIDE DEF full
  <2> QED
    BY <2>1, AllowedAlike
<1>5. Turns(b, "records", r, base, other)
  <2>1. \A s, e : Turn("records", q, s, e) = Turn("records", r, s, e)
    BY <1>4 DEF Turn
  <2> QED
    BY <1>3, <2>1 DEF Turns
<1>6. /\ Len(log) \in Nat /\ DOMAIN log = 1..Len(log) /\ Len(other) \in Nat /\ DOMAIN other = 1..Len(other)
      /\ Len(log) \in 0..Len(log) /\ Len(other) \in 0..Len(other)
  BY <1>1, SliceIs
<1> DEFINE m == Len(log)
           n == Len(other)
<1>7. {log[i] : i \in 1..m} = ToSet(log) /\ {other[i] : i \in 1..n} = ToSet(other)
  BY <1>6 DEF ToSet
<1>8. ASSUME NEW ip PROVE Same(a[m], b[n], ip)
  <2>1. About(log, m, ip) = About(other, n, ip)
    BY <1>1, <1>7 DEF About
  <2>2. \A k \in 0..m, l \in 0..n : About(log, k, ip) = About(other, l, ip) => Same(a[k], b[l], ip)
    BY <1>1, <1>2, <1>5, RunsSame
  <2> QED
    BY <1>6, <2>1, <2>2
<1>9. Filed(a[m]) /\ Filed(b[n]) /\ a[m].obs = Observed(r, base, log, m) /\ b[n].obs = Observed(r, base, other, n)
  BY <1>1, <1>2, <1>5, <1>6, RecordsObserved
<1>10. Observed(r, base, log, m) = Observed(r, base, other, n)
  BY <1>1, <1>7 DEF Observed
<1> HIDE DEF m, n
<1>11. a[m] = b[n]
  BY <1>8, <1>9, <1>10, SameStores
<1> QED
  BY <1>2, <1>3, <1>11 DEF m, n

\* The evidence of a report and, behind it, what these targets left.
Logged(log, evidence, found, ips) ==
    /\ IsSlice(log) /\ InTurn(log)
    /\ ToSet(log) = ToSet(evidence) \cup (UNION {ToSet(found[ip].evidence) : ip \in ips})
    /\ Len(evidence) <= Len(log) /\ \A i \in 1..Len(evidence) : log[i] = evidence[i]

\* The first and the last part of the two kinds of ids.
LEMMA IdParts ==
    /\ \A n : EvNo(n)[1] = "ev" /\ EvNo(n)[4] = n
    /\ \A kind, ip, n : EvID(kind, ip, n)[1] = "up" /\ EvID(kind, ip, n)[4] = n
<1>1. \A blank, n : <<"ev", blank, None, n>>[1] = "ev" /\ <<"ev", blank, None, n>>[4] = n
  OBVIOUS
<1>2. \A n : EvNo(n)[1] = "ev" /\ EvNo(n)[4] = n
  BY <1>1, Zenon DEF EvNo
<1>3. \A kind, ip, n : EvID(kind, ip, n)[1] = "up" /\ EvID(kind, ip, n)[4] = n
  BY DEF EvID
<1> QED
  BY <1>2, <1>3

LEMMA NumberedInTurn ==
    ASSUME NEW evidence, Numbered(evidence), NEW found
    PROVE  Logged(evidence, evidence, found, {})
<1>1. Len(evidence) \in Nat /\ DOMAIN evidence = 1..Len(evidence) /\ IsSlice(evidence)
  BY SliceIs DEF Numbered
<1>2. \A i \in DOMAIN evidence : evidence[i].id[1] = "ev" /\ evidence[i].id[4] = i
  BY IdParts DEF Numbered
<1>3. InTurn(evidence)
  BY <1>1, <1>2 DEF InTurn, Earlier
<1> QED
  BY <1>1, <1>3 DEF Logged

LEMMA LoggedStep ==
    ASSUME NEW evidence, Numbered(evidence), NEW found, SoundResults(found), NEW ips \in SUBSET DOMAIN found, NEW log, Logged(log, evidence, found, ips),
           NEW ip \in DOMAIN found, ip \notin ips
    PROVE  Logged(log \o found[ip].evidence, evidence, found, ips \cup {ip})
<1> DEFINE ev == found[ip].evidence
           all == log \o ev
           n == Len(log)
<1>0. UpstreamLog(ev, ip) /\ \A jp \in ips : UpstreamLog(found[jp].evidence, jp)
  BY DEF SoundResults
<1>1. IsSlice(log) /\ IsSlice(ev) /\ n \in Nat /\ DOMAIN log = 1..n /\ Len(ev) \in Nat /\ DOMAIN ev = 1..Len(ev)
  BY <1>0, SliceIs DEF Logged, UpstreamLog
<1>2. /\ IsSlice(all) /\ ToSet(all) = ToSet(log) \cup ToSet(ev) /\ Len(all) = n + Len(ev) /\ DOMAIN all = 1..n + Len(ev)
      /\ \A i \in 1..n + Len(ev) : all[i] = IF i <= n THEN log[i] ELSE ev[i - n]
  BY <1>1, SliceJoin
<1>3. (UNION {ToSet(found[jp].evidence) : jp \in ips \cup {ip}}) = (UNION {ToSet(found[jp].evidence) : jp \in ips}) \cup ToSet(ev)
  OBVIOUS
<1>4. \A i \in 1..Len(ev) : ev[i].ip = ip /\ ev[i].id[1] = "up" /\ ev[i].id[4] = i
  BY <1>0, <1>1, IdParts DEF UpstreamLog
<1>5. \A e \in ToSet(log) : e.ip = ip => e.id[1] = "ev" /\ e.id[4] \in Nat
  <2> TAKE e \in ToSet(log)
  <2>1. CASE e \in ToSet(evidence)
    <3>1. PICK i \in DOMAIN evidence : e = evidence[i]
      BY <2>1 DEF ToSet
    <3>2. DOMAIN evidence = 1..Len(evidence) /\ Len(evidence) \in Nat
      BY SliceIs DEF Numbered
    <3> QED
      BY <3>1, <3>2, IdParts DEF Numbered
  <2>2. CASE e \notin ToSet(evidence)
    <3>1. PICK jp \in ips : e \in ToSet(found[jp].evidence)
      BY <2>2 DEF Logged
    <3>2. e.ip = jp
      BY <1>0, <3>1 DEF UpstreamLog, ToSet
    <3> QED
      BY <3>2
  <2> QED
    BY <2>1, <2>2
<1>50. \A i \in 1..n : log[i] \in ToSet(log)
  BY <1>1 DEF ToSet
<1>51. InTurn(log) /\ Len(evidence) <= n /\ \A i \in 1..Len(evidence) : log[i] = evidence[i]
  BY DEF Logged
<1>52. Len(evidence) \in Nat
  BY SliceIs DEF Numbered
<1> HIDE DEF ev, all, n
<1>6. InTurn(all)
  <2> SUFFICES ASSUME NEW i \in 1..n + Len(ev), NEW j \in 1..n + Len(ev), i < j, all[i].ip = all[j].ip PROVE Earlier(all[i], all[j])
    BY <1>2 DEF InTurn
  <2>1. CASE j <= n
    <3>1. i \in DOMAIN log /\ j \in DOMAIN log /\ all[i] = log[i] /\ all[j] = log[j]
      BY <1>1, <1>2, <2>1
    <3> QED
      BY <1>51, <3>1 DEF InTurn
  <2>2. CASE i <= n /\ ~(j <= n)
    <3>1. i \in 1..n /\ j - n \in 1..Len(ev) /\ all[i] = log[i] /\ all[j] = ev[j - n] /\ j - n \in Nat
      BY <1>1, <1>2, <2>2
    <3>2. all[j].ip = ip /\ all[j].id[1] = "up" /\ all[j].id[4] \in Nat
      BY <1>4, <3>1
    <3>3. all[i].id[1] = "ev" /\ all[i].id[4] \in Nat
      BY <1>5, <1>50, <3>1, <3>2
    <3> QED
      BY <3>2, <3>3 DEF Earlier
  <2>3. CASE ~(i <= n)
    <3>1. i - n \in 1..Len(ev) /\ j - n \in 1..Len(ev) /\ all[i] = ev[i - n] /\ all[j] = ev[j - n] /\ i - n < j - n
          /\ i - n \in Nat /\ j - n \in Nat
      BY <1>1, <1>2, <2>3
    <3>2. all[i].id[1] = "up" /\ all[i].id[4] = i - n /\ all[j].id[1] = "up" /\ all[j].id[4] = j - n
      BY <1>4, <3>1
    <3> QED
      BY <3>1, <3>2 DEF Earlier
  <2> QED
    BY <1>1, <2>1, <2>2, <2>3
<1>7. Len(evidence) <= Len(all) /\ \A i \in 1..Len(evidence) : all[i] = evidence[i]
  BY <1>1, <1>2, <1>51, <1>52
<1>8. ToSet(all) = ToSet(evidence) \cup (UNION {ToSet(found[jp].evidence) : jp \in ips \cup {ip}})
  BY <1>2, <1>3 DEF Logged
<1> QED
  BY <1>2, <1>6, <1>7, <1>8 DEF Logged, all, ev

LEMMA LoggedAll ==
    ASSUME NEW evidence, Numbered(evidence), NEW found, SoundResults(found), NEW order \in Arrangements(DOMAIN found)
    PROVE  Logged(Appended(evidence, found, order), evidence, found, DOMAIN found)
<1> DEFINE n == Cardinality(DOMAIN found)
<1>1. n \in Nat /\ IsFiniteSet(DOMAIN found)
  BY FS_CardinalityType DEF SoundResults
<1>2. /\ order \in [1..n -> DOMAIN found] /\ \A i, j \in DOMAIN order : order[i] = order[j] => i = j
  BY DEF Arrangements
<1>3. {order[i] : i \in 1..n} = DOMAIN found
  <2>1. order \in Injection(1..n, DOMAIN found)
    BY <1>2 DEF Injection, IsInjective
  <2>2. IsFiniteSet(1..n) /\ Cardinality(1..n) = n
    BY <1>1, FS_Interval
  <2>3. order \in Surjection(1..n, DOMAIN found)
    BY <1>1, <2>1, <2>2, FS_Injection
  <2> HIDE DEF n
  <2>4. (\A ip \in DOMAIN found : \E i \in 1..n : order[i] = ip) /\ \A i \in 1..n : order[i] \in DOMAIN found
    BY <1>2, <2>3 DEF Surjection
  <2> QED
    BY <2>4
<1> HIDE DEF n
<1>4. order \in Seq(DOMAIN found) /\ Len(order) = n /\ DOMAIN order = 1..n
  BY <1>1, <1>2
<1>5. IsSlice(order)
  BY <1>4, SliceOf
<1>6. PICK acc : Turns(acc, "append", found, evidence, order) /\ acc[Len(order)] = Appended(evidence, found, order)
  BY <1>5, AppendRun
<1>7. acc[0] = evidence /\ \A k \in 1..n : acc[k] = acc[k - 1] \o found[order[k]].evidence
  BY <1>4, <1>6 DEF Turns, Turn
<1> DEFINE Taken(k) == {order[i] : i \in 1..k}
           G == {k \in Nat : Logged(acc[k], evidence, found, Taken(k))}
<1>8. 0 \in G
  <2>1. Taken(0) = {}
    OBVIOUS
  <2> HIDE DEF Taken
  <2> QED
    BY <1>7, <2>1, NumberedInTurn
<1>9. ASSUME NEW k \in 0..n - 1, k \in G PROVE k + 1 \in G
  <2>1. k \in Nat /\ k + 1 \in 1..n /\ (k + 1) - 1 = k /\ 1..k + 1 = 1..k \cup {k + 1}
    BY <1>1
  <2> DEFINE ip == order[k + 1]
  <2>2. Taken(k + 1) = Taken(k) \cup {ip}
    BY <2>1
  <2>3. ip \in DOMAIN found /\ ip \notin Taken(k) /\ Taken(k) \subseteq DOMAIN found
    <3>1. \A i \in 1..k : i \in 1..n /\ i # k + 1
      BY <1>1, <2>1
    <3>2. \A i \in 1..k : order[i] \in DOMAIN found /\ order[i] # order[k + 1]
      BY <1>2, <1>4, <2>1, <3>1
    <3> QED
      BY <1>2, <2>1, <3>2
  <2>4. acc[k + 1] = acc[k] \o found[ip].evidence
    BY <1>7, <2>1
  <2>5. Logged(acc[k], evidence, found, Taken(k))
    BY <1>9
  <2> HIDE DEF Taken, ip
  <2>6. Logged(acc[k] \o found[ip].evidence, evidence, found, Taken(k) \cup {ip})
    BY <2>3, <2>5, LoggedStep
  <2>7. Logged(acc[k + 1], evidence, found, Taken(k + 1))
    BY <2>2, <2>4, <2>6
  <2> QED
    BY <2>1, <2>7
<1>10. Logged(acc[n], evidence, found, Taken(n))
  <2>1. G \in SUBSET Nat
    OBVIOUS
  <2> HIDE DEF G
  <2>2. \A k \in 0..n : k \in G
    BY <1>1, <1>8, <1>9, <2>1, UpTo
  <2>3. n \in G
    BY <1>1, <2>2
  <2> QED
    BY <2>3 DEF G
<1>11. Taken(n) = DOMAIN found
  BY <1>3
<1> HIDE DEF Taken
<1> QED
  BY <1>4, <1>6, <1>10, <1>11

\* The sweep's part of a log is what it was.
LEMMA SweptPart ==
    ASSUME NEW evidence, IsSlice(evidence), NEW found, NEW ips, NEW log, Logged(log, evidence, found, ips)
    PROVE  SubSeq(log, 1, Len(evidence)) = evidence
<1> DEFINE A == ToSet(evidence) \cup ToSet(log)
<1>1. evidence \in Seq(A) /\ log \in Seq(A) /\ Len(evidence) \in Nat /\ Len(log) \in Nat
  BY SliceIs DEF IsSlice, Logged
<1> HIDE DEF A
<1>2. Len(evidence) <= Len(log) /\ \A i \in 1..Len(evidence) : log[i] = evidence[i]
  BY DEF Logged
<1> DEFINE s == SubSeq(log, 1, Len(evidence))
<1>3. Len(s) = Len(evidence) /\ s \in Seq(A) /\ \A i \in 1..Len(evidence) : s[i] = log[i]
  BY <1>1, <1>2
<1> HIDE DEF s
<1>4. s = evidence
  BY <1>1, <1>2, <1>3
<1> QED
  BY <1>4 DEF s

\* Whatever the order of the upstream targets, the section is the same.
LEMMA SectionAlike ==
    ASSUME NEW r, SoundReport(r), NEW q, Matches(r, q), SoundEvidence(q.evidence), InTurn(r.evidence), InTurn(q.evidence), NEW c, NEW prints
    PROVE  BuildIntel(r, c, prints) = BuildIntel(q, c, prints)
<1>0. IsSlice(r.devices) /\ SoundEvidence(r.evidence)
  BY DEF SoundReport
<1> DEFINE Begun(p) == IngestTopologyDevices(p, EmptyStore)
           Records(p) == IngestEvidenceRecords(p, Begun(p))
<1>1. \A p : Hinted(p, c) = AddEdgeHints(IngestAccessContext(p, c, Records(p)), ConvertEdges(p, c))
  BY Zenon DEF Hinted, Filled
<1>2. Begun(r) = Begun(q)
  BY TopologyAlike
<1>3. Filed(Begun(r))
  BY <1>0, FiledTopology
<1> HIDE DEF Begun
<1>4. Records(r) = Records(q)
  BY <1>0, <1>2, <1>3, RecordsAlike
<1> HIDE DEF Records
<1>5. IngestAccessContext(r, c, Records(r)) = IngestAccessContext(q, c, Records(q))
  BY <1>4, ContextAlike
<1>6. ConvertEdges(r, c) = ConvertEdges(q, c)
  <2>1. r.edges = q.edges
    BY DEF Matches
  <2> QED
    BY <2>1, Zenon DEF ConvertEdges
<1>7. Hinted(r, c) = Hinted(q, c)
  BY <1>1, <1>5, <1>6
<1> DEFINE Built(hinted, edges) ==
             LET devices == {ClassifyDevice(hinted.devices[ip], prints[ip]) : ip \in DOMAIN hinted.devices}
             IN  [devices |-> devices, edges |-> edges, obs |-> hinted.obs, summary |-> Summarize(devices, edges),
                  cards |-> {[ip |-> d.ip, conf |-> d.conf, type |-> d.type.primary] : d \in devices}]
<1>8. \A p : BuildIntel(p, c, prints) = Built(Hinted(p, c), ConvertEdges(p, c))
  BY Zenon DEF BuildIntel, Hinted, Filled
<1> HIDE DEF Built
<1> QED
  BY <1>6, <1>7, <1>8

\* The evidence of a report is what the sweep left and, behind it, what these targets did, in some order.
Behind(r, found) ==
    LET swept == SubSeq(r.evidence, 1, r.summary.evidence)
    IN  Numbered(swept) /\ SoundEvidence(swept) /\ \E order \in Arrangements(DOMAIN found) : r.evidence = Appended(swept, found, order)

LEMMA BehindAlike ==
    ASSUME NEW r, SoundReport(r), NEW found, SoundResults(found), Behind(r, found), NEW order \in Arrangements(DOMAIN found), NEW c, NEW prints
    PROVE  BuildIntel(r, c, prints)
             = BuildIntel([r EXCEPT !.evidence = Appended(SubSeq(r.evidence, 1, r.summary.evidence), found, order)], c, prints)
<1> DEFINE swept == SubSeq(r.evidence, 1, r.summary.evidence)
           log == Appended(swept, found, order)
           q == [r EXCEPT !.evidence = log]
<1>1. Numbered(swept) /\ SoundEvidence(swept)
  BY DEF Behind
<1>2. PICK first \in Arrangements(DOMAIN found) : r.evidence = Appended(swept, found, first)
  BY DEF Behind
<1> HIDE DEF swept
<1>3. Logged(r.evidence, swept, found, DOMAIN found) /\ Logged(log, swept, found, DOMAIN found)
  BY <1>1, <1>2, LoggedAll
<1>4. SoundEvidence(log)
  BY <1>1, EvidenceAppended
<1> HIDE DEF log
<1>5. /\ q.evidence = log /\ q.scope = r.scope /\ q.devices = r.devices /\ q.edges = r.edges
  BY DEF SoundReport, ReportParts
<1> HIDE DEF q
<1>6. Matches(r, q)
  BY <1>3, <1>5 DEF Matches, Logged
<1>7. BuildIntel(r, c, prints) = BuildIntel(q, c, prints)
  BY <1>3, <1>4, <1>5, <1>6, SectionAlike DEF Logged
<1> QED
  BY <1>7 DEF q, log, swept

LEMMA AppendsBehind ==
    ASSUME NEW r, SoundReport(r), Numbered(r.evidence), r.summary.evidence = Len(r.evidence), NEW found, SoundResults(found),
           NEW order \in Arrangements(DOMAIN found)
    PROVE  Behind(AppendEvidence(r, found, order), found)
<1> DEFINE log == Appended(r.evidence, found, order)
           q == [r EXCEPT !.evidence = log]
<1>1. AppendEvidence(r, found, order) = q
  BY Zenon DEF AppendEvidence
<1>2. Logged(log, r.evidence, found, DOMAIN found)
  BY LoggedAll
<1>3. SoundEvidence(r.evidence) /\ IsSlice(r.evidence)
  BY DEF SoundReport, Numbered
<1>4. SubSeq(log, 1, Len(r.evidence)) = r.evidence
  BY <1>2, <1>3, SweptPart
<1>5. q.evidence = log /\ q.summary = r.summary
  BY DEF SoundReport, ReportParts
<1> DEFINE swept == SubSeq(q.evidence, 1, q.summary.evidence)
<1> HIDE DEF q
<1>6. swept = r.evidence
  BY <1>4, <1>5
<1>7. q.evidence = Appended(swept, found, order)
  BY <1>5, <1>6
<1> HIDE DEF swept, log
<1>8. Numbered(swept) /\ SoundEvidence(swept)
  BY <1>3, <1>6
<1>9. Behind(q, found)
  BY <1>7, <1>8 DEF Behind, swept
<1> QED
  BY <1>1, <1>9

\* Without enrichment there is nothing behind what the sweep left.
LEMMA NothingBehind ==
    ASSUME NEW r, SoundReport(r), Numbered(r.evidence), r.summary.evidence = Len(r.evidence)
    PROVE  Behind(r, Nothing)
<1> DEFINE none == <<>>
<1>1. DOMAIN Nothing = {}
  BY DEF Nothing
<1>2. none \in Arrangements({})
  <2>1. Cardinality({}) = 0
    BY FS_EmptySet
  <2>2. \A n : n = 0 => none \in [1..n -> {}]
    OBVIOUS
  <2> QED
    BY <2>1, <2>2 DEF Arrangements
<1>3. IsSlice(none) /\ Len(none) = 0
  BY DEF IsSlice, ToSet
<1>4. \E acc : Turns(acc, "append", Nothing, r.evidence, none) /\ acc[Len(none)] = Appended(r.evidence, Nothing, none)
  BY <1>3, AppendRun
<1>5. Appended(r.evidence, Nothing, none) = r.evidence
  BY <1>3, <1>4 DEF Turns
<1>6. Logged(r.evidence, r.evidence, Nothing, {})
  BY NumberedInTurn
<1>7. SubSeq(r.evidence, 1, Len(r.evidence)) = r.evidence
  BY <1>6, SweptPart DEF Numbered
<1> HIDE DEF none
<1> QED
  BY <1>1, <1>2, <1>5, <1>7 DEF Behind, SoundReport

\* The invariant of the scan, how its evidence came about and what the section was built from.
OrderInv ==
    /\ LanInv
    /\ stage \in {"start", "refused", "scoped", "discovered", "classified"} => results = Nothing
    /\ stage \in {"discovered", "classified"} => report.summary.evidence = Len(report.evidence)
    /\ stage \in {"enriched", "intel"} => Behind(report, results)
    /\ stage = "intel" => intel = BuildIntel(report, ctx, mobile)

LEMMA OrderStarts == Init => OrderInv
  BY LanStarts DEF Init, OrderInv

LEMMA OrderKeeps == OrderInv /\ [Next]_vars => OrderInv'
<1> SUFFICES ASSUME OrderInv, [Next]_vars PROVE OrderInv'
  OBVIOUS
<1>0. LanInv /\ LanInv'
  BY LanKeeps DEF OrderInv
<1>1. ASSUME NEW ifaces \in Hosts, NEW g \in Gateways, NEW r \in Requests, NEW name \in Names, NEW public \in BOOLEAN, NEW virtual \in BOOLEAN,
             Select(ifaces, g, r, public, name, virtual)
      PROVE  OrderInv'
  <2>1. stage = "start" /\ stage' \in {"refused", "scoped"} /\ UNCHANGED results
    BY <1>1 DEF Select
  <2> QED
    BY <1>0, <2>1 DEF OrderInv
<1>2. ASSUME NEW lan \in Lans, DiscoverLAN(lan) PROVE OrderInv'
  <2>1. stage = "scoped" /\ stage' = "discovered" /\ UNCHANGED results
    BY <1>2 DEF DiscoverLAN
  <2>2. report'.summary.evidence = Len(report'.evidence)
    BY <1>0, <1>2, <2>1, DiscoverReports DEF LanInv
  <2> QED
    BY <1>0, <2>1, <2>2 DEF OrderInv
<1>3. ASSUME NEW detected \in Contexts \cup {NoContext}, ClassifyAccess(detected) PROVE OrderInv'
  <2>1. stage = "discovered" /\ stage' = "classified" /\ UNCHANGED <<report, results>>
    BY <1>3 DEF ClassifyAccess
  <2> QED
    BY <1>0, <2>1 DEF OrderInv
<1>4. ASSUME NEW answers \in Answers, EnrichUpstream(answers) PROVE OrderInv'
  <2> DEFINE found == EnrichReport(report, ctx, answers)
  <2>1. stage = "classified" /\ stage' = "enriched" /\ results' = found
    BY <1>4 DEF EnrichUpstream
  <2>2. \E order \in Arrangements(DOMAIN found) : report' = AppendEvidence(report, found, order)
    BY <1>4 DEF EnrichUpstream
  <2>3. SoundReport(report) /\ Numbered(report.evidence) /\ SoundContext(ctx) /\ report.summary.evidence = Len(report.evidence)
    BY <2>1 DEF OrderInv, LanInv
  <2>4. SoundResults(found)
    BY <2>3, Enriching
  <2> HIDE DEF found
  <2>5. Behind(report', found)
    BY <2>2, <2>3, <2>4, AppendsBehind
  <2> QED
    BY <1>0, <2>1, <2>5 DEF OrderInv
<1>5. CASE SkipUpstream
  <2>1. stage = "classified" /\ stage' = "enriched" /\ UNCHANGED <<report, results>>
    BY <1>5 DEF SkipUpstream
  <2>2. SoundReport(report) /\ Numbered(report.evidence) /\ report.summary.evidence = Len(report.evidence) /\ results = Nothing
    BY <2>1 DEF OrderInv, LanInv
  <2>3. Behind(report, Nothing)
    BY <2>2, NothingBehind
  <2>4. Behind(report', results')
    BY <2>1, <2>2, <2>3
  <2> QED
    BY <1>0, <2>1, <2>4 DEF OrderInv
<1>6. ASSUME NEW fingerprints \in Mobiles, BuildDeviceIntel(fingerprints) PROVE OrderInv'
  <2>1. /\ stage = "enriched" /\ stage' = "intel" /\ mobile' = fingerprints /\ intel' = BuildIntel(report, ctx, fingerprints)
        /\ UNCHANGED <<report, ctx, results>>
    BY <1>6 DEF BuildDeviceIntel
  <2>2. Behind(report, results)
    BY <2>1 DEF OrderInv
  <2>3. Behind(report', results') /\ intel' = BuildIntel(report', ctx', mobile')
    BY <2>1, <2>2
  <2> QED
    BY <1>0, <2>1, <2>3 DEF OrderInv
<1>7. CASE Complete
  <2>1. stage' = "done"
    BY <1>7 DEF Complete
  <2> QED
    BY <1>0, <2>1 DEF OrderInv
<1>8. CASE UNCHANGED vars
  BY <1>0, <1>8 DEF vars, OrderInv
<1> QED
  BY <1>1, <1>2, <1>3, <1>4, <1>5, <1>6, <1>7, <1>8 DEF Next

\* commands.go:163: runScan appends the upstream evidence in the order Go visits a map; whatever the host,
\* the network and the answers, every order gives the same intelligence section.
THEOREM UpstreamOrderIsIrrelevant == Spec => []UpstreamOrderIrrelevant
<1>1. OrderInv => UpstreamOrderIrrelevant
  <2> SUFFICES ASSUME OrderInv, stage = "intel", NEW order \in Arrangements(DOMAIN results)
               PROVE  intel = BuildIntel(Reordered(report, order), ctx, mobile)
    BY DEF UpstreamOrderIrrelevant
  <2>1. SoundReport(report) /\ SoundResults(results) /\ Behind(report, results) /\ intel = BuildIntel(report, ctx, mobile)
    BY DEF OrderInv, LanInv
  <2> DEFINE other == [report EXCEPT !.evidence = Appended(SubSeq(report.evidence, 1, report.summary.evidence), results, order)]
  <2>2. BuildIntel(report, ctx, mobile) = BuildIntel(other, ctx, mobile)
    BY <2>1, BehindAlike
  <2>3. Reordered(report, order) = other
    BY Zenon DEF Reordered
  <2> QED
    BY <2>1, <2>2, <2>3
<1> QED
  BY <1>1, OrderStarts, OrderKeeps, PTL DEF Spec
=============================================================================
