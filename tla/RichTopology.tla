---------------------------- MODULE RichTopology ----------------------------
(***************************************************************************)
(* enrichReport: the evidence registry of the finished report, and the     *)
(* graph the desktop map draws, folded from the report's own devices and   *)
(* edges and from the device intelligence section. Nothing iad-agent       *)
(* collects comes from an AP or router API, so no edge is a reported one.  *)
(***************************************************************************)
EXTENDS DeviceIntel

RoleFromRoot(d) == IF d.agent THEN "local_agent" ELSE IF d.gateway THEN "gateway" ELSE IF "router" \in d.roles THEN "router" ELSE "wired_client"

RoleFromIntel(d) ==
    IF d.agent THEN "local_agent" ELSE IF d.gateway THEN "gateway"
    ELSE IF d.roles \cap {"upstream_private_gateway", "possible_cpe"} # {} THEN "router" ELSE "wired_client"

EnsureNode(nodes, ip) ==
    At(nodes, ip, [ip |-> ip, role |-> "unknown", type |-> "unknown", category |-> "unknown", macs |-> {}, hosts |-> {}, services |-> {},
                   conf |-> 0, ev |-> {}, risks |-> {}, agent |-> FALSE, gateway |-> FALSE, upstream |-> FALSE])

\* Services are listed, not merged: one of the report and one of the intelligence section stay apart.
UpsertRootDevice(nodes, d) ==
    LET n == EnsureNode(nodes, d.ip)
    IN  Put(nodes, d.ip,
            [n EXCEPT !.role = RoleFromRoot(d), !.category = "device",
                      !.type = IF d.agent THEN "local_host" ELSE IF d.gateway THEN "gateway_router" ELSE "host",
                      !.macs = @ \cup ({d.mac} \ {""}), !.hosts = @ \cup ({d.host} \ {""}),
                      !.services = @ \cup {[port |-> s.port, from |-> "report"] : s \in d.services},
                      !.conf = Greater(@, d.conf), !.ev = @ \cup d.ev, !.agent = d.agent, !.gateway = d.gateway])

\* What the report said of the node is forgotten.
UpsertIntelDeviceOver(nodes, d) ==
    Put(nodes, d.ip,
        [EnsureNode(Nothing, d.ip) EXCEPT !.role = RoleFromIntel(d), !.type = d.type.primary, !.macs = d.macs, !.hosts = d.hosts,
                                          !.conf = d.conf, !.ev = d.ev, !.agent = d.agent, !.gateway = d.gateway, !.upstream = d.upstream])

UpsertIntelDevice(nodes, d) ==
    LET n == EnsureNode(nodes, d.ip)
    IN  Put(nodes, d.ip,
            [n EXCEPT !.role = RoleFromIntel(d), !.category = IF d.gateway \/ d.upstream THEN "network" ELSE "device",
                      !.type = d.type.primary, !.macs = @ \cup d.macs, !.hosts = @ \cup d.hosts,
                      !.services = @ \cup {[port |-> p, from |-> "intel"] : p \in DOMAIN d.services},
                      !.conf = Greater(@, d.conf), !.ev = @ \cup d.ev, !.risks = @ \cup {f.id : f \in d.findings},
                      !.agent = d.agent, !.gateway = d.gateway, !.upstream = d.upstream])

RichType(type) ==
    CASE type \in {"gateway_default", "default_gateway_route"} -> <<"gateway-link", "l3">>
      [] type \in {"inferred_l2", "same_subnet_inferred"}      -> <<"subnet-inferred", "l2">>
      [] type \in {"route_hop", "traceroute_hop", "upstream_private_gateway"} -> <<"weak-inferred", "l3">>
      [] type \in PhysicalTypes \cup {"lldp_physical_neighbor", "cdp_physical_neighbor", "snmp_bridge_fdb"} -> <<"switch-uplink", "l2">>

RichEdge(e) ==
    [id |-> e.id, source |-> e.source, target |-> e.target, type |-> RichType(e.type)[1], relation |-> e.type, medium |-> RichType(e.type)[2],
     conf |-> e.conf, ev |-> e.ev, physical |-> e.physical, inferred |-> e.inferred, warnings |-> {}]

\* Of two edges with one id the surer is kept; the other only adds its evidence.
UpsertRichEdge(edges, e) ==
    LET same == {x \in edges : x.id = e.id}
        kept == {[x EXCEPT !.ev = @ \cup e.ev] : x \in same}
    IN  IF e.source = None \/ e.target = None \/ e.source = e.target THEN edges
        ELSE (edges \ same) \cup (IF \E x \in same : e.conf <= x.conf THEN kept ELSE {e})

EdgeWarnings(e) ==
    CASE e.type = "subnet-inferred" -> {"subnet membership"}
      [] e.type = "weak-inferred"   -> {"weak inference"}
      [] OTHER                      -> IF e.physical THEN {} ELSE {"physical path not proven"}

RootNodes(devices) == FoldLeft(UpsertRootDevice, Nothing, devices)

IntelNodes(nodes, devices) == FoldSet(LAMBDA d, n : UpsertIntelDevice(n, d), nodes, devices)

UpsertRichEdges(drawn, edges) == FoldSet(LAMBDA e, acc : UpsertRichEdge(acc, RichEdge(e)), drawn, edges)

\* The report's devices and edges first, then the intelligence section's.
BuildRichTopology(report, intel) ==
    LET nodes == IntelNodes(RootNodes(report.devices), intel.devices)
        edges == UpsertRichEdges(UpsertRichEdges({}, report.edges), intel.edges)
    IN  [nodes |-> {nodes[ip] : ip \in DOMAIN nodes}, edges |-> edges,
         warnings |-> report.warnings \cup (IF \E e \in edges : e.type \in {"weak-inferred", "subnet-inferred"} THEN {"rich_topology_inferred_edges"} ELSE {})]

RoleRank == [gateway |-> 0, router |-> 1, local_agent |-> 4, wired_client |-> 5, unknown |-> 5]

\* The gateway, else the agent, else the first node in rank and id order; None without nodes.
RootNodeID(nodes) ==
    LET Of(role) == {n.ip : n \in {x \in nodes : x.role = role}}
        ranks == {RoleRank[n.role] : n \in nodes}
    IN  IF Of("gateway") # {} THEN Min(Of("gateway"))
        ELSE IF Of("local_agent") # {} THEN Min(Of("local_agent"))
        ELSE IF nodes = {} THEN None ELSE Min({n.ip : n \in {x \in nodes : RoleRank[x.role] = Min(ranks)}})

\* Every evidence id a section of the report refers to.
CollectReferencedEvidenceIDs(report, ctx, intel) ==
    (UNION {d.ev \cup (UNION {s.ev : s \in d.services}) : d \in ToSet(report.devices)}) \cup (UNION {e.ev : e \in report.edges})
        \cup {h.ev : h \in ToSet(ctx.hops)}
        \cup (UNION {g.ev \cup {o.ev : o \in g.http \cup g.tls \cup g.failed} : g \in ctx.devices \cup ctx.cpes})
        \cup (UNION {d.ev : d \in intel.devices}) \cup (UNION {e.ev : e \in intel.edges})

\* One item for each probe of the access classification, by its name and place.
ProbeItems(ctx) == {<<"probe", ctx.probes[i], None, i>> : i \in DOMAIN ctx.probes}

\* Only evidence somebody recorded is registered.
BuildEvidenceRegistryRecorded(report, ctx, intel) ==
    {e.id : e \in ToSet(report.evidence)} \cup {o.id : o \in intel.obs} \cup ProbeItems(ctx)

BuildEvidenceRegistry(report, ctx, intel) ==
    {e.id : e \in ToSet(report.evidence)} \cup {o.id : o \in intel.obs} \cup ProbeItems(ctx)
        \cup CollectReferencedEvidenceIDs(report, ctx, intel)

\* The finished report: BuildTopologyV2 adds a root and each edge's warnings to the rich graph.
Enriched(report, ctx, intel) ==
    LET rich == BuildRichTopology(report, intel)
    IN  [report EXCEPT !.registry = BuildEvidenceRegistry(report, ctx, intel), !.nodes = rich.nodes,
                       !.links = {[e EXCEPT !.warnings = EdgeWarnings(e)] : e \in rich.edges},
                       !.root = RootNodeID(rich.nodes), !.notes = rich.warnings]
=============================================================================
