------------------------------ MODULE LanScan ------------------------------
(***************************************************************************)
(* iad-agent's scan command as runScan strings it together: a scope is     *)
(* selected or refused, the LAN swept, the access line classified, the     *)
(* upstream gateways probed, device intelligence built, and the report     *)
(* completed. Each stage works on the report the one before it left; what  *)
(* the network answers is chosen when a stage asks.                        *)
(***************************************************************************)
EXTENDS RichTopology

CONSTANTS
    Hosts,        \* the interface lists a host may have
    Gateways,     \* the default gateways the system may report, None for none
    Requests,     \* the networks a user may ask for, NoNet for "auto"
    Names,        \* the interface names a user may ask for, "" for none
    Lans,         \* what the sweeps may see
    Contexts,     \* what the access classification may detect
    Answers,      \* what upstream targets may answer, by address
    Mobiles       \* the mobile fingerprints that may come out, by address

VARIABLES
    stage,        \* "start", "refused", "scoped", "discovered", "classified", "enriched", "intel" or "done"
    scan,         \* the interface, gateway, scope, warnings and LAN of this scan, until the report is there
    report,       \* the scan report
    ctx,          \* the detected network context
    results,      \* the upstream results, by address
    mobile,       \* the fingerprints used
    intel         \* the device intelligence section

\* A host lists its interfaces, with their networks and addresses; an address looked up is a number.
ASSUME HostsAssumption ==
    \A host \in Hosts : host \in Seq(ToSet(host)) /\ \A i \in DOMAIN host : host[i].net \in Nets /\ host[i].ips \in Seq(Nat)

ASSUME RequestsAssumption == Requests \subseteq Nets

ASSUME GatewaysAssumption == Gateways \subseteq Nat \cup {None}

\* A sweep sees finitely many addresses and ports.
ASSUME LansAssumption ==
    \A lan \in Lans :
        /\ \A seen \in {DOMAIN lan.tcp, DOMAIN lan.swept, DOMAIN lan.table, DOMAIN lan.nmap} : IsFiniteSet(seen) /\ seen \subseteq Nat
        /\ \A ip \in DOMAIN lan.tcp : IsFiniteSet(lan.tcp[ip])
        /\ \A ip \in DOMAIN lan.nmap : IsFiniteSet(lan.nmap[ip].ports)

\* A hop of the chain is private (privateChain, gateway_chain_state.go:111); a context lists finitely many gateways.
ASSUME ContextsAssumption ==
    \A c \in Contexts :
        /\ c.hops \in Seq(ToSet(c.hops)) /\ \A h \in ToSet(c.hops) : IsPrivateIP(h.ip)
        /\ c.conf \in 0 .. 100 /\ {c.gateway, c.default} \subseteq Nat \cup {None}
        /\ IsFiniteSet(c.devices) /\ IsFiniteSet(c.cpes)
        /\ \A g \in c.devices \cup c.cpes :
             /\ g.ip \in Nat \cup {None} /\ g.conf \in Nat
             /\ IsFiniteSet(g.ports) /\ IsFiniteSet(g.http \cup g.tls \cup g.failed)

vars == <<stage, scan, report, ctx, results, mobile, intel>>

NoScan == [primary |-> NoInterface, gateway |-> None, scope |-> Refused.scope, warnings |-> {}, lan |-> Nothing]

NoReport == Run(NoInterface, None, Refused.scope, {}, [tcp |-> Nothing, swept |-> Nothing, table |-> Nothing, nmap |-> Nothing, dns |-> Nothing])

NoIntel == [devices |-> {}, edges |-> {}, obs |-> {}, summary |-> Summarize({}, {}), cards |-> {}]

Init ==
    /\ stage = "start"
    /\ scan = NoScan /\ report = NoReport /\ ctx = NoContext /\ results = Nothing /\ mobile = Nothing /\ intel = NoIntel

\* Steps 1 and 2 of discovery.Run: the interface, then the scope.
Select(ifaces, gateway, request, public, name, includeVirtual) ==
    LET primary == IF name # "" THEN FindByName(ifaces, name) ELSE SelectPrimary(ifaces, gateway, includeVirtual)
        parsed == ParseScope(request, public, primary)
    IN  /\ stage = "start"
        /\ IF primary = NoInterface \/ parsed.err
           THEN stage' = "refused" /\ UNCHANGED scan
           ELSE /\ stage' = "scoped"
                /\ scan' = [NoScan EXCEPT !.primary = primary, !.gateway = gateway, !.scope = parsed.scope, !.warnings = parsed.warnings]
        /\ UNCHANGED <<report, ctx, results, mobile, intel>>

DiscoverLAN(lan) ==
    /\ stage = "scoped"
    /\ stage' = "discovered"
    /\ scan' = [scan EXCEPT !.lan = lan]
    /\ report' = Run(scan.primary, scan.gateway, scan.scope, scan.warnings, lan)
    /\ UNCHANGED <<ctx, results, mobile, intel>>

\* --classify: the detected context is kept; without it there is none.
ClassifyAccess(detected) ==
    /\ stage = "discovered"
    /\ stage' = "classified"
    /\ ctx' = detected
    /\ scan' = NoScan
    /\ UNCHANGED <<report, results, mobile, intel>>

Arrangements(S) == {s \in [1 .. Cardinality(S) -> S] : \A i, j \in DOMAIN s : s[i] = s[j] => i = j}

EnrichUpstream(answers) ==
    LET found == EnrichReport(report, ctx, answers)
    IN  /\ stage = "classified"
        /\ stage' = "enriched"
        /\ results' = found
        /\ \E order \in Arrangements(DOMAIN found) : report' = AppendEvidence(report, found, order)
        /\ UNCHANGED <<scan, ctx, mobile, intel>>

\* --enrich-upstream=false
SkipUpstream ==
    /\ stage = "classified"
    /\ stage' = "enriched"
    /\ UNCHANGED <<scan, report, ctx, results, mobile, intel>>

BuildDeviceIntel(fingerprints) ==
    /\ stage = "enriched"
    /\ stage' = "intel"
    /\ mobile' = fingerprints
    /\ intel' = BuildIntel(report, ctx, fingerprints)
    /\ UNCHANGED <<scan, report, ctx, results>>

Complete ==
    LET attached == AttachUpstreamIntel(intel, results)
    IN  /\ stage = "intel"
        /\ stage' = "done"
        /\ intel' = attached
        /\ report' = Enriched(report, ctx, attached)
        /\ UNCHANGED <<scan, ctx, results, mobile>>

Next ==
    \/ \E ifaces \in Hosts, g \in Gateways, r \in Requests, name \in Names, public, virtual \in BOOLEAN :
            Select(ifaces, g, r, public, name, virtual)
    \/ \E lan \in Lans : DiscoverLAN(lan)
    \/ \E c \in Contexts \cup {NoContext} : ClassifyAccess(c)
    \/ \E a \in Answers : EnrichUpstream(a)
    \/ SkipUpstream
    \/ \E m \in Mobiles : BuildDeviceIntel(m)
    \/ Complete

Spec == Init /\ [][Next]_vars

-----------------------------------------------------------------------------

\* The link-local multicast block is smaller than the limit; the private networks are not.
Narrow(b) == 2 ^ (Bits - b.len) < MaxScanHosts

\* A network that starts with a narrow block and is larger. Of those ParseScope accepts, only their base
\* is known to be private.
Outgrows(net) == \E b \in BlocksOf(net.base) : Narrow(b) /\ net.len < b.len

\* The safety boundary (scope.go, the scope filters of discover, collectTargets): unless the user
\* allowed a public scope or the network outgrows a narrow block it starts in,
\* every host the sweep tries is private, and its number is the one announced
\* and below the limit; the report lists exactly what was seen in scope, the agent and the gateway, so
\* that a neighbour of another network never becomes a device and no source's sighting is dropped
\* because another source missed the host; and an upstream target is private even in a public scope.
ScopeRespected ==
    LET lan == scan.lan
        hosts == HostsInScope(scan.scope)
        seen == (DOMAIN lan.tcp \cap hosts) \cup DOMAIN lan.table \cup DOMAIN lan.nmap \cup (DOMAIN lan.swept \cap hosts)
    IN  /\ stage = "scoped" =>
             /\ ~scan.scope.public /\ ~Outgrows(scan.scope.net) => \A ip \in hosts : IsPrivateIP(ip)
             /\ Cardinality(hosts) = scan.scope.hosts /\ scan.scope.hosts <= MaxScanHosts
        /\ stage = "discovered" =>
             {d.ip : d \in ToSet(report.devices)} = ({ip \in seen : InScope(scan.scope, ip)} \cup {report.agent, report.gateway}) \ {None}
        /\ \A ip \in DOMAIN results : IsPrivateIP(ip)

\* classify.go:11-13: a role is never asserted from the address or route alone. A target that answered
\* nothing and has no UPnP or vendor evidence carries a warning, no CPE, ONT or modem tag, and a routing
\* kind that says so.
NoRoleFromAddressAlone ==
    \A ip \in DOMAIN results :
        LET r == results[ip]
        IN  r.class.signals \subseteq {"visible_in_traceroute", "private_upstream_hop"} =>
                /\ r.warnings # {}
                /\ r.class.tags \cap {"ISP_CPE", "ONT", "MODEM"} = {}
                /\ r.routing.kind \in {"default_gateway", "unreachable_inferred"}

\* The report with its upstream evidence, which follows what the sweep left, in another order.
Reordered(r, order) == [r EXCEPT !.evidence = Appended(SubSeq(@, 1, r.summary.evidence), results, order)]

\* runScan appends the upstream evidence in the order of a Go map: the intelligence section does not
\* depend on it, so two scans of the same network agree.
UpstreamOrderIrrelevant ==
    stage = "intel" => \A order \in Arrangements(DOMAIN results) : intel = BuildIntel(Reordered(report, order), ctx, mobile)

\* Every evidence id a device of the intelligence section cites, for itself, its type, its system or a
\* finding, is evidence of that device and is in the registry; and evidence that names an address is
\* registered for the device of that address.
CitationsResolve ==
    stage = "done" =>
        /\ \A d \in intel.devices :
             /\ d.ev \subseteq report.registry
             /\ d.type.ev \cup d.os.ev \cup (UNION {f.ev : f \in d.findings}) \cup (UNION {d.cands[t].ev : t \in DOMAIN d.cands}) \subseteq d.ev
        /\ \A e \in report.edges \cup intel.edges : e.ev \subseteq report.registry
        /\ \A e \in ToSet(report.evidence) : TargetAllowed(report, e.ip) => \E o \in intel.obs : o.id = e.id /\ o.dev = e.ip

\* rich.go:90-93: the sections cannot drift from the graph the desktop draws. Every device the report or
\* the intelligence section knows is a node with all its evidence, addresses and services and no less
\* confidence; intelligence forgets nothing of a device it may show; no link is physical that the report
\* did not prove, and every link that is not says so.
SectionsAgree ==
    stage = "done" =>
        LET Node(ip) == CHOOSE n \in report.nodes : n.ip = ip
            Intel(ip) == CHOOSE d \in intel.devices : d.ip = ip
        IN  /\ {n.ip : n \in report.nodes} = {d.ip : d \in ToSet(report.devices)} \cup {d.ip : d \in intel.devices}
            /\ \A d \in ToSet(report.devices) :
                 /\ Node(d.ip).conf >= d.conf /\ d.ev \subseteq Node(d.ip).ev /\ {d.mac} \ {""} \subseteq Node(d.ip).macs
                 /\ TargetAllowed(report, d.ip) =>
                      /\ d.ev \subseteq Intel(d.ip).ev /\ {s.port : s \in d.services} \subseteq DOMAIN Intel(d.ip).services
                      /\ d.agent = Intel(d.ip).agent /\ (d.gateway => Intel(d.ip).gateway)
            /\ \A d \in intel.devices : Node(d.ip).conf >= d.conf /\ d.ev \subseteq Node(d.ip).ev /\ d.macs \subseteq Node(d.ip).macs
            /\ \A e \in report.links : IF e.physical THEN \E x \in report.edges : x.id = e.id /\ x.physical ELSE e.warnings # {}
            /\ report.summary.inferredOnly => \A d \in intel.devices : ~d.proven
            /\ report.root # None => \E n \in report.nodes : n.ip = report.root

\* The finished report passes its own validator, whichever interface, gateway and context it started
\* from: every edge and link ends at a device or node of the report, every citation resolves.
ReportValidates == stage \in {"discovered", "done"} => ValidateReport(report) = {}

\* validate.go:172: "Summary counts must match the body."
SummaryMatchesBody ==
    stage = "done" =>
        /\ report.summary.devices = Len(report.devices) /\ report.summary.edges = Cardinality(report.edges)
        /\ report.summary.evidence = Len(report.evidence)
=============================================================================
