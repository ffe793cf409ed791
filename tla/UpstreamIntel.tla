--------------------------- MODULE UpstreamIntel ---------------------------
(***************************************************************************)
(* The upstream enrichment of iad-agent's scan: which gateways are probed, *)
(* the evidence their answers leave, and what each one is taken to be.     *)
(*   ctx      the detected network context: [gateway, default, hops,       *)
(*            doubleNAT, conf, probes, devices, cpes]; a hop is [ip, role, *)
(*            ev] and a gateway device [ip, role, vendor, upnp, ports,     *)
(*            http, tls, failed, ev, conf]; probes, the names of the access *)
(*            probes that ran. NoContext when nothing was classified.      *)
(*   answer   what one target answers: [icmp, ports, pages, certs], the    *)
(*            pages and certificates by port.                              *)
(* Vendors are "isp", "router", "other" or "" for none.                    *)
(***************************************************************************)
EXTENDS LanDiscovery

NoContext == [gateway |-> None, default |-> None, hops |-> <<>>, doubleNAT |-> FALSE, conf |-> 0, probes |-> <<>>, devices |-> {}, cpes |-> {}]

SafeUpstreamPorts == {22, 23, 53, 80, 443, 7547, 8080, 8443}

FirstKnown(ips) ==
    LET known == {i \in DOMAIN ips : ips[i] # None} IN IF known = {} THEN None ELSE ips[Min(known)]

\* What is known of an address before it is probed.
Target(ip, ctx, defaultGW, ssdp) ==
    LET hops == {i \in DOMAIN ctx.hops : ctx.hops[i].ip = ip}
        devices == {d \in ctx.devices : d.ip = ip}
    IN  [ip |-> ip,
         isDefaultGateway |-> \/ ip = defaultGW
                              \/ \E i \in hops : ctx.hops[i].role = "default_gateway"
                              \/ \E d \in devices : d.role = "default_gateway",
         inGatewayChain |-> hops # {},
         hopDistance |-> IF hops = {} THEN 0 ELSE Max(hops),
         doubleNATHint |-> hops # {} /\ ctx.doubleNAT,
         macVendor |-> IF \E d \in devices : d.vendor # "" THEN (CHOOSE d \in devices : d.vendor # "").vendor ELSE "",
         hasUPnPRoot |-> ip \in ssdp \/ \E d \in devices : d.upnp]

Mentioned(report, ctx) ==
    LET defaultGW == FirstKnown(<<report.gateway, ctx.gateway, ctx.default>>)
        ssdp == {e.ip : e \in {x \in ToSet(report.evidence) : x.kind = "ssdp"}}
        hops == {ctx.hops[i].ip : i \in DOMAIN ctx.hops}
        ips == (hops \cup {d.ip : d \in ctx.devices} \cup {defaultGW} \cup ssdp) \ {None}
    IN  {Target(ip, ctx, defaultGW, ssdp) : ip \in ips}

CollectTargets(report, ctx) == {t \in Mentioned(report, ctx) : IsPrivateIP(t.ip)}

-----------------------------------------------------------------------------
(* One page: [vendor, words, realm, denied]; words are the keyword groups  *)
(* found in it, among "admin", "ont" and "modem".                          *)

NoVendor == [vendor |-> "", admin |-> FALSE, ont |-> FALSE, modem |-> FALSE, routerLike |-> FALSE]

AnalyzeHTTP(page) ==
    LET admin == "admin" \in page.words \/ page.realm
    IN  [vendor |-> page.vendor, admin |-> admin, ont |-> "ont" \in page.words, modem |-> "modem" \in page.words,
         routerLike |-> page.vendor # "" \/ admin \/ page.words # {}]

MergeVendor(a, b) ==
    [vendor |-> IF a.vendor = "" THEN b.vendor ELSE a.vendor, admin |-> a.admin \/ b.admin, ont |-> a.ont \/ b.ont,
     modem |-> a.modem \/ b.modem, routerLike |-> a.routerLike \/ b.routerLike]

\* Records are told apart by kind and number only.
EvIDWithoutIP(kind, ip, n) == <<"up", kind, None, n>>

\* The id of the n-th record about ip.
EvID(kind, ip, n) == <<"up", kind, ip, n>>

InOrder(ports, order) == Those(order, ports)

\* Ports that did not answer leave no record; a silent ping leaves a timeout.
EvidenceOf(ip, answer) ==
    LET open == answer.ports \cap SafeUpstreamPorts
        Each(kind, ports) == [i \in DOMAIN ports |-> [Fact(kind, ip) EXCEPT !.port = ports[i]]]
        facts == <<[Fact("icmp_echo", ip) EXCEPT !.failed = ~answer.icmp]>>
                   \o (IF open = {} THEN <<>> ELSE <<[Fact("tcp_connect", ip) EXCEPT !.ports = open]>>)
                   \o Each("http_fingerprint", InOrder(open \cap DOMAIN answer.pages, <<80, 8080, 443, 8443>>))
                   \o Each("tls_fingerprint", InOrder(open \cap DOMAIN answer.certs, <<443, 8443>>))
    IN  [i \in DOMAIN facts |-> [facts[i] EXCEPT !.id = EvID(facts[i].kind, ip, i)]]

\* 401 and a WWW-Authenticate header mark an admin panel after AnalyzeHTTP has run.
WithPage(v, page) == MergeVendor(v, [AnalyzeHTTP(page) EXCEPT !.admin = @ \/ page.denied])

WithCertificate(v, cert) == IF AnalyzeHTTP(cert).vendor = "" THEN v ELSE MergeVendor(v, AnalyzeHTTP(cert))

PagesVendor(answer, ports) == FoldLeft(LAMBDA v, p : WithPage(v, answer.pages[p]), NoVendor, ports)

CertsVendor(answer, ports, vendor) == FoldLeft(LAMBDA v, p : WithCertificate(v, answer.certs[p]), vendor, ports)

VendorOf(answer) ==
    LET open == answer.ports \cap SafeUpstreamPorts
    IN  CertsVendor(answer, InOrder(open \cap DOMAIN answer.certs, <<443, 8443>>),
                    PagesVendor(answer, InOrder(open \cap DOMAIN answer.pages, <<80, 8080, 443, 8443>>)))

Facts(t, sameSubnet, answer) ==
    LET open == answer.ports \cap SafeUpstreamPorts
    IN  [target |-> t, private |-> IsPrivateIP(t.ip), sameSubnet |-> sameSubnet, icmp |-> answer.icmp, tcp |-> open # {}, open |-> open,
         http |-> VendorOf(answer)]

UpstreamHop(f) == f.private /\ f.target.inGatewayChain /\ ~f.target.isDefaultGateway

\* Each signal present, with the points it adds.
Signals(f) ==
    {s \in {<<"reachable_by_icmp", 18, f.icmp>>, <<"reachable_by_tcp", 12, f.tcp>>, <<"visible_in_traceroute", 15, f.target.inGatewayChain>>,
            <<"private_upstream_hop", 15, UpstreamHop(f)>>, <<"has_http_admin_page", 12, f.http.admin>>, <<"router_like_http", 18, f.http.routerLike>>,
            <<"upnp_root_device", 15, f.target.hasUPnPRoot>>, <<"gateway_router_mac_oui", 12, f.target.macVendor \in {"isp", "router"}>>,
            <<"dns_service", 10, 53 \in f.open>>, <<"tr069_cwmp_port", 12, 7547 \in f.open>>, <<"open_services", 6, f.open # {}>>} : s[3]}

Unreachable(f) == ~f.icmp /\ ~f.tcp

\* The confidence floor alone marks what is inferred.
DeriveTagsFloorOnly(f, conf) ==
    [tags |-> {"UNKNOWN_INFRASTRUCTURE"}, role |-> "unknown_infrastructure",
     warnings |-> IF conf < 30 THEN {"low evidence"} ELSE {}]

DeriveTags(f, conf) ==
    LET where == IF f.target.isDefaultGateway /\ f.sameSubnet THEN {"GATEWAY", "ROUTER"}
                 ELSE IF UpstreamHop(f) THEN {"UPSTREAM_GATEWAY", "POSSIBLE_CPE"}
                 ELSE IF f.private THEN {"UNKNOWN_INFRASTRUCTURE"} ELSE {}
        tags == where
            \cup (IF f.target.doubleNATHint /\ ~f.target.isDefaultGateway /\ f.private THEN {"DOUBLE_NAT_UPSTREAM"} ELSE {})
            \cup (IF 7547 \in f.open \/ (f.http.routerLike /\ f.http.vendor = "isp") THEN {"ISP_CPE"} ELSE {})
            \cup (IF f.http.ont THEN {"ONT"} ELSE {}) \cup (IF f.http.modem THEN {"MODEM"} ELSE {})
            \cup (IF Unreachable(f) /\ f.private /\ f.target.inGatewayChain THEN {"UPSTREAM_GATEWAY", "POSSIBLE_CPE"} ELSE {})
    IN  [tags |-> IF tags = {} THEN {"UNKNOWN_INFRASTRUCTURE"} ELSE tags,
         role |-> IF "GATEWAY" \in where THEN "gateway_router"
                  ELSE IF UpstreamHop(f) THEN "upstream_private_gateway" ELSE "unknown_infrastructure",
         warnings |-> (IF Unreachable(f) THEN {"not reachable"} ELSE {}) \cup (IF conf < 30 THEN {"low evidence"} ELSE {})]

Points(signals) == FoldSet(LAMBDA s, n : n + s[2], 0, signals)

Classify(f) ==
    LET sum == Points(Signals(f))
        conf == IF sum > 100 THEN 100 ELSE sum
        tags == DeriveTags(f, conf)
    IN  [role |-> tags.role, conf |-> conf, tags |-> tags.tags, signals |-> {s[1] : s \in Signals(f)}, warnings |-> tags.warnings]

AnalyzeRouting(f) ==
    LET t == f.target
        kind == IF t.isDefaultGateway THEN "default_gateway"
                ELSE IF Unreachable(f) THEN "unreachable_inferred"
                ELSE IF t.doubleNATHint /\ f.private THEN "double_nat_upstream"
                ELSE IF 7547 \in f.open \/ f.http.ont \/ f.http.modem THEN "isp_cpe"
                ELSE IF UpstreamHop(f) THEN "upstream_private_gateway" ELSE "unknown"
    IN  [kind |-> kind, doubleNAT |-> kind = "double_nat_upstream", privateUpstream |-> f.private /\ ~t.isDefaultGateway,
         sameSubnet |-> f.sameSubnet, hops |-> t.hopDistance]

\* The ping's own error text is left out of the warnings.
EnrichOne(t, net, answer) ==
    LET f == Facts(t, NetContains(net, t.ip), answer)
        c == Classify(f)
    IN  [ip |-> t.ip, evidence |-> EvidenceOf(t.ip, answer), class |-> c, routing |-> AnalyzeRouting(f),
         reach |-> [direct |-> f.sameSubnet, icmp |-> f.icmp, tcp |-> f.tcp, hops |-> t.hopDistance,
                    method |-> IF f.icmp THEN "icmp_ping" ELSE IF f.tcp THEN "tcp_connect" ELSE "none"],
         warnings |-> c.warnings]

\* EnrichReport: one result per target, by address; the scope's network stands for the agent's.
EnrichReport(report, ctx, answers) ==
    LET targets == CollectTargets(report, ctx)
        TargetOf(ip) == CHOOSE t \in targets : t.ip = ip
    IN  [ip \in {t.ip : t \in targets} |-> EnrichOne(TargetOf(ip), report.scope.net, answers[ip])]

Appended(evidence, results, order) == FoldLeft(LAMBDA ev, ip : ev \o results[ip].evidence, evidence, order)

\* runScan ranges over the results, a Go map: order is any arrangement of their addresses.
AppendEvidence(report, results, order) == [report EXCEPT !.evidence = Appended(@, results, order)]
=============================================================================
