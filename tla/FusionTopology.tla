--------------------------- MODULE FusionTopology ---------------------------
(***************************************************************************)
(* What BuildScanOutput makes of the fused devices: the topology graph,    *)
(* the path to the provider, the summary, the probes to try next, and the  *)
(* graph the interface draws.                                              *)
(***************************************************************************)
EXTENDS DeviceFusion

EdgeId(e) == <<e.source, e.target, e.rel>>

\* A confidence of 0 stands for the default of the relationship.
TopologyEdgeConfidence(rel, requested, inferred) ==
    LET conf == IF requested # 0 THEN requested
                ELSE CASE rel = "wifi_link" -> 85 [] rel = "ethernet_link" -> 70
                       [] rel \in {"routed_hop", "gateway_chain"} -> 60
                       [] rel \in {"isp_route_hop", "inferred_l2_link"} -> 50
                       [] rel = "upstream_nat" -> 55 [] OTHER -> 35
    IN  IF inferred THEN MinOf(conf, 60) ELSE conf

Edge(source, target, rel, conf, inferred, ev) ==
    [source |-> source, target |-> target, rel |-> rel, inferred |-> inferred, ev |-> ev,
     conf |-> TopologyEdgeConfidence(rel, conf, inferred)]

UpsertEdge(edges, e) ==
    LET same == {o \in edges : EdgeId(o) = EdgeId(e)}
    IN  IF same = {} THEN edges \cup {e}
        ELSE IF \A o \in same : e.conf > o.conf THEN (edges \ same) \cup {e} ELSE edges

\* addEdge: both ends must be nodes, and two of them.
AddEdge(ids, edges, e) ==
    IF <<>> \notin {e.source, e.target} /\ e.source # e.target /\ {e.source, e.target} \subseteq ids
    THEN UpsertEdge(edges, e) ELSE edges

AddEdges(ids, wanted) == FoldLeft(LAMBDA edges, e : AddEdge(ids, edges, e), {}, wanted)

\* The identifier of the first device whose index is among the found ones.
FirstId(devices, found) == IF found = {} THEN <<>> ELSE devices[Min(found)].id

LocalId(devices)   == FirstId(devices, {i \in DOMAIN devices : devices[i].type = "local_host" \/ "local_host" \in devices[i].roles})
GatewayId(devices) == FirstId(devices, {i \in DOMAIN devices : "default_gateway" \in devices[i].roles})
APId(devices)      == FirstId(devices, {i \in DOMAIN devices : devices[i].type = "access_point" \/ "wifi_ap" \in devices[i].roles})

\* At most one evidence of a scan names the medium of the active interface.
ActiveMedium(evidence) ==
    LET named == {e.medium : e \in evidence} \ {""} IN IF named = {} THEN "" ELSE CHOOSE m \in named : TRUE

From(evidence, sources) == {e \in evidence : e.src \in sources}

\* (Mutant: the ethernet link to the gateway counts as observed.)
HostLinksObserved(devices, evidence) ==
    <<Edge(LocalId(devices), GatewayId(devices),
           IF ActiveMedium(evidence) = "ethernet" THEN "ethernet_link" ELSE "wifi_link", 70, FALSE, {})>>

\* The host's own link: over Wi-Fi to the access point if one is known.
HostLinks(devices, evidence) ==
    LET local  == LocalId(devices)
        gw     == GatewayId(devices)
        medium == ActiveMedium(evidence)
        target == IF medium = "wifi" /\ APId(devices) # <<>> THEN APId(devices) ELSE gw
        ev     == From(evidence, {"os_interface_probe", "route_table_probe", "wifi_probe"})
        link   == CASE medium = "wifi" -> Edge(local, target, "wifi_link", 85, FALSE, ev)
                    [] medium = "ethernet" -> Edge(local, target, "ethernet_link", 70, TRUE, ev)
                    [] OTHER -> Edge(local, target, "unknown_link", 40, TRUE, ev)
    IN  IF local = <<>> \/ gw = <<>> THEN <<>>
        ELSE <<link>> \o IF target = gw THEN <<>>
                         ELSE <<Edge(target, gw, "inferred_l2_link", 55, TRUE, From(evidence, {"wifi_probe", "route_table_probe"}))>>

EdgeTypeFromRaw(e) ==
    CASE e.link[3] # "" -> e.link[3]
      [] e.link[3] = "" /\ e.src = "wifi_probe" -> "wifi_link"
      [] e.link[3] = "" /\ e.src \in {"lldp_cdp_passive_probe", "snmp_optin_probe"} -> "ethernet_link"
      [] e.link[3] = "" /\ e.src \in {"traceroute_isp_path_probe", "route_table_probe"} -> "routed_hop"
      [] OTHER -> "unknown_link"

\* Evidence whose raw data names both ends of a link.
Proven(e) ==
    \/ e.strength = "strong"
    \/ e.src = "lldp_cdp_passive_probe"
    \/ e.src = "snmp_optin_probe" /\ "bridge" \in e.words

ExplicitLinks(evidence) ==
    LET conf(e) == CASE e.src = "lldp_cdp_passive_probe" -> MaxOf(e.conf, 90)
                     [] e.src = "snmp_optin_probe" /\ "bridge" \in e.words -> MaxOf(e.conf, 80)
                     [] OTHER -> e.conf
    IN  SetToSeq({Edge(e.link[1], e.link[2], EdgeTypeFromRaw(e), conf(e), ~Proven(e), {e}) :
                    e \in {e \in evidence : e.link # <<>>}})

\* Private gateways beyond the default one, then the provider's hops, in list order.
RouteLinks(devices) ==
    LET gw      == GatewayId(devices)
        private == Those(devices, {d \in ToSet(devices) : d.type # "isp_hop" /\ "upstream_gateway" \in d.roles})
        public  == Those(devices, {d \in ToSet(devices) : d.type = "isp_hop"})
        before  == IF private # <<>> THEN Last(private).id ELSE gw
    IN  [i \in 1..MaxOf(0, Len(private) - 1) |-> Edge(private[i].id, private[i + 1].id, "gateway_chain", 60, FALSE, private[i].ev)]
        \o (IF gw = <<>> \/ private = <<>> THEN <<>>
            ELSE <<Edge(gw, private[1].id, "upstream_nat", 55, FALSE, private[1].ev)>>)
        \o [i \in DOMAIN public |->
               Edge(IF i = 1 THEN before ELSE public[i - 1].id, public[i].id, "isp_route_hop", 50, FALSE, public[i].ev)]

HasPrivateIP(d) == d.ips \cap PrivateIP # {}

ShouldInferSwitch(devices, medium) ==
    LET ds == ToSet(devices)
    IN  /\ medium # "wifi"
        /\ \A d \in ds : d.type \notin {"managed_switch", "switch"}
        /\ Cardinality({d.id : d \in {d \in ds : /\ d.type \notin {"isp_hop", "local_host"}
                                                 /\ "default_gateway" \notin d.roles /\ HasPrivateIP(d)}}) >= 2

SwitchId == <<"inferred", "switch">>
SwitchNode ==
    [id |-> SwitchId, type |-> "inferred_switch", roles |-> {"switching_device"}, conf |-> 50, inferred |-> TRUE]

SwitchLinks(devices) ==
    LET local == LocalId(devices)
        peers == Those(devices, {d \in ToSet(devices) : /\ d.id \notin {local, GatewayId(devices)}
                                                         /\ d.type # "isp_hop" /\ HasPrivateIP(d)})
    IN  (IF local = <<>> THEN <<>> ELSE <<Edge(local, SwitchId, "inferred_l2_link", 50, TRUE, {})>>)
        \o MapSeq(peers, LAMBDA d : Edge(SwitchId, d.id, "inferred_l2_link", 45, TRUE, {}))

\* (Mutant: the node is classified before the roles are copied to it.)
NodeFromDeviceNoRoles(d) ==
    LET c == ClassifyDevice([d EXCEPT !.roles = {}])
    IN  [id |-> c.id, type |-> c.type, roles |-> d.roles, conf |-> c.conf, inferred |-> c.inferred]

\* Every device is classified a second time, with the confidence the conflicts left it.
NodeFromDevice(d) ==
    LET c == ClassifyDevice(d)
    IN  [id |-> c.id, type |-> c.type, roles |-> c.roles, conf |-> c.conf, inferred |-> c.inferred]

BuildTopology(devices, evidence) ==
    LET switch == ShouldInferSwitch(devices, ActiveMedium(evidence))
        nodes  == MapSeq(devices, NodeFromDevice) \o IF switch THEN <<SwitchNode>> ELSE <<>>
        ids    == {d.id : d \in ToSet(devices)} \cup IF switch THEN {SwitchId} ELSE {}
        wanted == HostLinks(devices, evidence) \o ExplicitLinks(evidence) \o RouteLinks(devices)
                  \o IF switch THEN SwitchLinks(devices) ELSE <<>>
    IN  [nodes |-> nodes, edges |-> AddEdges(ids, wanted)]

-----------------------------------------------------------------------------
CollectEvidence(results, devices) ==
    (UNION {ToSet(r.ev) : r \in ToSet(results)}) \cup (UNION {d.ev : d \in ToSet(devices)})

\* The hops of the path, private when the adapter says so or the address is. What the path says of
\* the provider (address, ASN, organization, CGNAT), copied from the results, is left out.
BuildISPPath(results) ==
    LET hops       == FlattenSeq(MapSeq(results, LAMBDA r : r.hops))
        private(h) == h.private \/ h.ip \in PrivateIP
        public     == SelectSeq(hops, LAMBDA h : ~private(h))
    IN  [private |-> SelectSeq(hops, private), public |-> public,
         first |-> IF public = <<>> THEN "" ELSE public[1].ip]

\* The host as the scan found it, or a placeholder of no confidence.
FindLocalHost(devices) ==
    LET found == SelectSeq(devices, LAMBDA d : d.type = "local_host" \/ "local_host" \in d.roles)
    IN  IF found = <<>> THEN [id |-> <<"local_host">>, conf |-> 0] ELSE [id |-> Head(found).id, conf |-> Head(found).conf]

Summarize(devices) ==
    LET n(Test(_)) == Len(SelectSeq(devices, Test))
    IN  [count     |-> Len(devices),
         inferred  |-> n(LAMBDA d : d.inferred),
         confirmed |-> n(LAMBDA d : ~d.inferred),
         routers   |-> n(LAMBDA d : d.type = "router"),
         switches  |-> n(LAMBDA d : d.type \in {"switch", "managed_switch", "inferred_switch"}),
         aps       |-> n(LAMBDA d : d.type = "access_point"),
         unknown   |-> n(LAMBDA d : d.type \in {"unknown", ""})]

NeedsPhysicalEvidence(edges) == edges = {} \/ \E e \in edges : e.inferred \/ e.conf < 70

NextBestProbes(devices, edges, conflicts, mode) ==
    LET kinds == {c.type : c \in ToSet(conflicts)}
        on(cond, names) == IF cond THEN names ELSE {}
    IN  on(mode = "safe", {"ping_sweep_probe"})
        \cup on(devices = <<>> \/ \E d \in ToSet(devices) : d.type \in {"", "unknown"},
                {"ssdp_upnp_probe", "mdns_probe", "http_fingerprint_probe"})
        \cup on(NeedsPhysicalEvidence(edges), {"snmp_optin_probe", "lldp_cdp_passive_probe"})
        \cup on(kinds \cap {"same_ip_different_macs", "gateway_chain_differs_between_probes"} # {}, {"arp_neighbor_probe"})
        \cup on(mode # "deep", {"traceroute_isp_path_probe"})

EdgeStyle(e) == IF e.inferred \/ e.conf < 70 THEN "dashed" ELSE "solid"

Icon(type) ==
    CASE type \in {"switch", "managed_switch", "inferred_switch"} -> "switch"
      [] type = "ont" -> "fiber" [] type = "access_point" -> "wifi" [] type = "nas" -> "database"
      [] type = "phone" -> "smartphone" [] type = "desktop" -> "monitor" [] type = "isp_hop" -> "route"
      [] type \in {"router", "modem", "printer", "camera", "laptop"} -> type
      [] OTHER -> "device"

GraphAdapter(topology) ==
    [nodes |-> MapSeq(topology.nodes, LAMBDA n :
                  [id |-> n.id, icon |-> Icon(n.type), conf |-> n.conf,
                   section |-> IF n.type = "isp_hop" THEN "isp_path" ELSE "lan",
                   badges |-> n.roles \cup (IF n.inferred THEN {"inferred"} ELSE {})
                              \cup (IF n.type = "isp_hop" THEN {"observed_route_hop"} ELSE {})]),
     edges |-> {[id |-> EdgeId(e), conf |-> e.conf, style |-> EdgeStyle(e)] : e \in topology.edges}]
=============================================================================
