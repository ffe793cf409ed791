---------------------------- MODULE DeviceIntel ----------------------------
(***************************************************************************)
(* deviceintel.Build: the store filled from the report, the edges carried  *)
(* over, every device classified and the section summed up. mobile gives   *)
(* the mobile fingerprint of an address, [os, conf]; its scorer is outside *)
(* the model, so any fingerprint may come out.                             *)
(***************************************************************************)
EXTENDS IntelStore

\* Types in the order of their names, which settles ties.
TypeOrder ==
    <<"android_device", "gateway_router", "home_automation_server", "iot_device", "ip_camera", "macos_ios_device", "nas", "printer",
      "server", "smart_tv_or_media_device", "upstream_gateway_cpe_candidate", "virtual_machine", "windows_pc_or_server">>

WebPorts == {80, 443, 8080, 8443}

HasAnyPort(d, ports) == DOMAIN d.services \cap ports # {}

EvidenceIDsForPorts(d, ports) == UNION {d.services[p].ev : p \in DOMAIN d.services \cap ports}

AddServiceRoles(d) ==
    LET infra == d.gateway \/ d.upstream
        roles == d.roles
            \cup (IF d.gateway THEN {"gateway", "router"} ELSE {}) \cup (IF d.agent THEN {"agent"} ELSE {})
            \cup (IF d.upstream THEN {"upstream_private_gateway", "possible_cpe"} ELSE {})
            \cup (IF HasAnyPort(d, {53}) THEN {"name_resolution"} ELSE {})
            \cup (IF HasAnyPort(d, WebPorts \cup {7547}) /\ infra THEN {"management_interface"} ELSE {})
            \cup (IF HasAnyPort(d, {515, 631, 9100}) THEN {"printer"} ELSE {})
            \cup (IF HasAnyPort(d, {5000, 5001}) THEN {"storage"} ELSE {})
            \cup (IF HasAnyPort(d, {554, 8008, 8009, 32400}) THEN {"media"} ELSE {})
    IN  [d EXCEPT !.roles = IF roles = {} THEN {"host"} ELSE roles]

\* An open SSDP port replaces what UPnP information there was.
AddProtocolInfo(d) == IF HasAnyPort(d, {1900}) THEN [d EXCEPT !.upnp = EvidenceIDsForPorts(d, {1900})] ELSE d

\* The rules, each with the type, its confidence, the evidence it cites and its condition.
CandidateRules(d, mobile) ==
    LET Ports(ports) == EvidenceIDsForPorts(d, ports)
        windows == {135, 139, 5357}
    IN  {<<"gateway_router", IF HasAnyPort(d, WebPorts \cup {53}) THEN 82 ELSE 70, d.ev, d.gateway>>,
         <<"upstream_gateway_cpe_candidate", 60, d.ev, d.upstream>>,
         <<"printer", 65, Ports({515, 631, 9100}), HasAnyPort(d, {515, 631, 9100})>>,
         <<"windows_pc_or_server", IF HasAnyPort(d, windows) THEN 74 ELSE 60, Ports(windows \cup {445}), HasAnyPort(d, {445})>>,
         <<"nas", 62, Ports({5000, 5001}), HasAnyPort(d, {5000, 5001})>>,
         <<"smart_tv_or_media_device", 68, Ports({8008, 8009, 32400}), HasAnyPort(d, {8008, 8009, 32400})>>,
         <<"ip_camera", 55, Ports({554}), HasAnyPort(d, {554})>>,
         <<"iot_device", 58, Ports({1883}), HasAnyPort(d, {1883})>>,
         <<"home_automation_server", 72, Ports({8123}), HasAnyPort(d, {8123})>>,
         <<IF mobile.os = "android" THEN "android_device" ELSE "macos_ios_device", Greater(mobile.conf, 45), d.ev, mobile.os # "unknown">>,
         <<"server", 52, Ports(WebPorts \cup {22}), HasAnyPort(d, {22}) /\ HasAnyPort(d, WebPorts) /\ ~d.gateway>>}

MergeCandidates(d, rules) == FoldSet(LAMBDA r, x : MergeCandidate(x, r[1], r[2], r[3]), d, rules)

AddDeviceTypeCandidates(d, mobile) == MergeCandidates(d, {r \in CandidateRules(d, mobile) : r[4]})

\* The best candidate, if it reaches the display threshold.
PickPrimaryType(d) ==
    LET Better(s, t) == d.cands[s].conf > d.cands[t].conf
        best == {i \in DOMAIN TypeOrder : /\ TypeOrder[i] \in DOMAIN d.cands
                                          /\ \A t \in DOMAIN d.cands : ~Better(t, TypeOrder[i])}
        top == TypeOrder[Min(best)]
    IN  IF best = {} THEN Unidentified
        ELSE IF d.cands[top].conf < 50 THEN [Unidentified EXCEPT !.conf = d.cands[top].conf]
        ELSE [primary |-> top, conf |-> d.cands[top].conf, ev |-> d.cands[top].ev]

GuessOS(d, mobile) ==
    IF mobile.os # "unknown" THEN [family |-> mobile.os, conf |-> mobile.conf, ev |-> d.ev]
    ELSE IF HasAnyPort(d, {445}) /\ HasAnyPort(d, {135, 139, 5357})
         THEN [family |-> "windows", conf |-> 72, ev |-> EvidenceIDsForPorts(d, {135, 139, 445, 5357})]
    ELSE UnknownOS

SecurityFindings(d, type) ==
    {f \in {[id |-> "open_telnet", severity |-> "high", ev |-> EvidenceIDsForPorts(d, {23}), on |-> HasAnyPort(d, {23})],
            [id |-> "open_smb", severity |-> "medium", ev |-> EvidenceIDsForPorts(d, {445}), on |-> HasAnyPort(d, {445})],
            [id |-> "open_http_management", severity |-> "medium", ev |-> EvidenceIDsForPorts(d, {80, 8080}),
             on |-> HasAnyPort(d, {80, 8080}) /\ (d.gateway \/ d.upstream)],
            [id |-> "printer_raw_9100", severity |-> "medium", ev |-> EvidenceIDsForPorts(d, {9100}), on |-> HasAnyPort(d, {9100})],
            [id |-> "upnp_exposed_lan", severity |-> "low", ev |-> d.upnp, on |-> d.upnp # {}],
            [id |-> "unknown_device", severity |-> "low", ev |-> d.ev, on |-> type.primary = "unknown"],
            [id |-> "many_services_on_agent", severity |-> "info", ev |-> d.ev, on |-> d.agent /\ Cardinality(DOMAIN d.services) >= 5]} : f.on}

RiskLevel(findings) ==
    LET worst == {f.severity : f \in findings}
    IN  IF worst = {} THEN "unknown" ELSE IF "high" \in worst THEN "high" ELSE IF "medium" \in worst THEN "medium" ELSE "low"

\* Floors for what was proved; a ceiling for a device nothing identified.
FinalizeConfidence(d, type) ==
    LET floor == Max({d.conf} \cup (IF d.agent THEN {95} ELSE {}) \cup (IF d.gateway THEN {90} ELSE {}) \cup (IF d.upstream THEN {60} ELSE {})
                     \cup (IF d.macs # {} THEN {55} ELSE {})
                     \cup (IF d.services # Nothing \/ d.http # {} \/ d.tls # {} THEN {75} ELSE {}))
    IN  IF type.primary = "unknown" /\ d.services = Nothing /\ ~d.gateway /\ ~d.upstream
        THEN Lesser(Greater(floor, 45), 60) ELSE Lesser(floor, 100)

\* classifyDevice: the fields it adds are filled in from the device as it then stands.
ClassifyDevice(d, mobile) ==
    LET known == AddProtocolInfo(AddServiceRoles(d))
        full == AddDeviceTypeCandidates(known, mobile)
        type == PickPrimaryType(full)
        lost == IF DOMAIN full.cands = {} THEN {"unknown_host"} ELSE {}
        findings == SecurityFindings(full, type)
    IN  [full EXCEPT !.roles = @ \cup lost, !.conf = FinalizeConfidence(full, type), !.type = type, !.os = GuessOS(full, mobile),
                     !.findings = findings, !.risk = RiskLevel(findings)]

-----------------------------------------------------------------------------
(* Edges.                                                                  *)

MapEdgeType(t) ==
    [gateway_default |-> "default_gateway_route", inferred_l2 |-> "same_subnet_inferred", route_hop |-> "traceroute_hop",
     direct_lldp |-> "lldp_physical_neighbor", direct_cdp |-> "cdp_physical_neighbor", snmp_bridge |-> "snmp_bridge_fdb"][t]

EdgeConfidence(e) ==
    CASE e.type = "inferred_l2"     -> Lesser(e.conf, 35)
      [] e.type = "gateway_default" -> Lesser(Greater(e.conf, 45), 60)
      [] e.type = "route_hop"       -> Lesser(Greater(e.conf, 55), 70)
      [] OTHER                      -> e.conf

ConvertEdge(e) ==
    [id |-> e.id, source |-> e.source, target |-> e.target, type |-> MapEdgeType(e.type), conf |-> EdgeConfidence(e), ev |-> e.ev,
     inferred |-> e.type \in {"gateway_default", "inferred_l2", "route_hop"}, physical |-> e.type \in PhysicalTypes]

\* Consecutive hops are joined once; the id counts the pair.
GatewayChainEdges(ctx) ==
    LET Pair(i) == <<ctx.hops[i].ip, ctx.hops[i + 1].ip>>
        pairs == {i \in 1 .. Len(ctx.hops) - 1 : \A j \in 1 .. i - 1 : Pair(j) # Pair(i)}
    IN  {[id |-> <<i, None, "upstream">>, source |-> Pair(i)[1], target |-> Pair(i)[2], type |-> "upstream_private_gateway",
          conf |-> Greater(ctx.conf, 60), ev |-> {ctx.hops[i].ev, ctx.hops[i + 1].ev}, inferred |-> TRUE, physical |-> FALSE] : i \in pairs}

\* Devices learn of the edges at their end; one physical edge settles that it is proved.
WithHint(d, e) ==
    [d EXCEPT !.hints = @ \cup {e.id}, !.proven = @ \/ e.physical, !.inferredOnly = ~e.physical /\ (@ \/ ~d.proven)]

AddEdgeHint(store, e) ==
    [store EXCEPT !.devices = [ip \in DOMAIN @ |-> IF ip \in {e.source, e.target} THEN WithHint(@[ip], e) ELSE @[ip]]]

AddEdgeHints(store, edges) == FoldSet(LAMBDA e, s : AddEdgeHint(s, e), store, edges)

ConvertEdges(report, ctx) == {ConvertEdge(e) : e \in report.edges} \cup GatewayChainEdges(ctx)

Summarize(devices, edges) ==
    [devices |-> Cardinality(devices),
     gateways |-> Cardinality({d \in devices : d.gateway \/ d.roles \cap {"gateway", "upstream_private_gateway"} # {}}),
     unknown |-> Cardinality({d \in devices : d.type.primary = "unknown"}),
     services |-> MapThenSumSet(LAMBDA d : Cardinality(DOMAIN d.services), devices),
     high |-> Cardinality({d \in devices : d.conf >= 75}),
     findings |-> MapThenSumSet(LAMBDA d : Cardinality(d.findings), devices),
     physical |-> Cardinality({e \in edges : e.physical}), inferred |-> Cardinality({e \in edges : e.inferred})]

BuildIntel(report, ctx, mobile) ==
    LET filled == IngestAccessContext(report, ctx, IngestEvidenceRecords(report, IngestTopologyDevices(report, EmptyStore)))
        edges == ConvertEdges(report, ctx)
        hinted == AddEdgeHints(filled, edges)
        devices == {ClassifyDevice(hinted.devices[ip], mobile[ip]) : ip \in DOMAIN hinted.devices}
    IN  [devices |-> devices, edges |-> edges, obs |-> hinted.obs, summary |-> Summarize(devices, edges),
         cards |-> {[ip |-> d.ip, conf |-> d.conf, type |-> d.type.primary] : d \in devices}]

\* attachUpstreamIntel: classification only ever raises a device's confidence.
AttachUpstreamIntel(intel, results) ==
    LET Attached(d) == [AtLeast(d, results[d.ip].class.conf) EXCEPT !.tags = results[d.ip].class.tags, !.routing = results[d.ip].routing.kind]
    IN  [intel EXCEPT !.devices = {IF d.ip \in DOMAIN results THEN Attached(d) ELSE d : d \in @}]
=============================================================================
