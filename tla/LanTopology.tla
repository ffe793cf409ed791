---------------------------- MODULE LanTopology ----------------------------
(***************************************************************************)
(* The evidence graph of iad-agent's report: evidence records, the edges   *)
(* Build draws between discovered devices, and ValidateReport. A device's  *)
(* id is "dev-" and its address, so the address stands for it. Confidences *)
(* are percentages. discovery.Run hands Build neither proven neighbours    *)
(* nor route hops.                                                         *)
(***************************************************************************)
EXTENDS LanScope

EdgeTypes == {"direct_lldp", "direct_cdp", "snmp_bridge", "route_hop", "inferred_l2", "gateway_default"}

PhysicalTypes == {"direct_lldp", "direct_cdp", "snmp_bridge"}

MaxConfidence ==
    [direct_lldp |-> 98, direct_cdp |-> 98, snmp_bridge |-> 80, route_hop |-> 60, inferred_l2 |-> 50, gateway_default |-> 30]

BaseConfidence ==
    [direct_lldp |-> 95, direct_cdp |-> 95, snmp_bridge |-> 80, route_hop |-> 60, inferred_l2 |-> 40, gateway_default |-> 30]

ClampConfidence(type, c) == IF c > MaxConfidence[type] THEN MaxConfidence[type] ELSE IF c < 0 THEN 0 ELSE c

Layer(type) == IF type \in {"route_hop", "gateway_default"} THEN "L3" ELSE "L2"

LineStyle(type, c) ==
    IF type \in PhysicalTypes THEN "solid" ELSE IF type = "inferred_l2" \/ c < 50 THEN "dotted" ELSE "dashed"

NewEdge(source, target, type, evidence) ==
    LET c == ClampConfidence(type, BaseConfidence[type])
    IN  [id |-> <<source, target, type>>, source |-> source, target |-> target, type |-> type, layer |-> Layer(type),
         conf |-> c, style |-> LineStyle(type, c), ev |-> evidence,
         physical |-> type \in PhysicalTypes, inferred |-> type \notin PhysicalTypes \cup {"route_hop"}]

\* The endpoints are taken on trust.
AddEdgeUnchecked(ids, edges, e) == {x \in edges : x.id # e.id} \cup {e}

\* An edge joins two different, discovered devices; of two with one id the surer stays.
AddEdge(ids, edges, e) ==
    LET same == {x \in edges : x.id = e.id}
    IN  IF \/ e.source = e.target
           \/ ~({e.source, e.target} \subseteq ids)
           \/ \E x \in same : e.conf <= x.conf
        THEN edges ELSE (edges \ same) \cup {e}

ClassifyRoles(isAgent, isGateway) ==
    {"host"} \cup (IF isGateway THEN {"gateway"} ELSE {}) \cup (IF isAgent THEN {"agent"} ELSE {})

DrawEdges(ids, drafts) == FoldSet(LAMBDA e, acc : AddEdge(ids, acc, e), {}, drafts)

\* Peers hang off the gateway, or off the agent when there is no gateway.
Build(agent, gateway, devices, gatewayEvidence, peers) ==
    LET ids == {d.ip : d \in ToSet(devices)}
        route == IF agent # None /\ gateway # None
                 THEN {NewEdge(agent, gateway, "gateway_default", gatewayEvidence)} ELSE {}
        hub == IF gateway # None THEN gateway ELSE agent
        star == {NewEdge(hub, p, "inferred_l2", {}) : p \in peers \ {agent, gateway}}
        edges == DrawEdges(ids, route \cup star)
    IN  [devices |-> [i \in DOMAIN devices |->
                        [devices[i] EXCEPT !.gateway = devices[i].ip = gateway, !.agent = devices[i].ip = agent,
                                           !.roles = ClassifyRoles(devices[i].ip = agent, devices[i].ip = gateway)]],
         edges |-> edges,
         inferredOnly |-> \A e \in edges : e.type \notin PhysicalTypes,
         high |-> Cardinality({e \in edges : e.conf >= 70})]

-----------------------------------------------------------------------------
(* Evidence: [id, kind, source, ip, mac, host, ports, port, failed]; the   *)
(* id of a record of the scan's own store is its number.                   *)

\* The id of the scan's n-th record.
EvNo(n) == <<"ev", "", None, n>>

Fact(kind, ip) ==
    [id |-> EvNo(0), kind |-> kind, ip |-> ip, mac |-> "", host |-> "", ports |-> {}, port |-> 0, failed |-> FALSE]

Minted(store, facts) == [i \in DOMAIN facts |-> [facts[i] EXCEPT !.id = EvNo(Len(store) + i)]]

IdsOf(evidence, kinds) == {e.id : e \in {x \in ToSet(evidence) : x.kind \in kinds}}

\* The gateway route is the one piece of evidence an edge cites.
GatewayEvidence(evidence) == IdsOf(evidence, {"gateway_route"})

Unique(seq, F(_)) == \A i, j \in DOMAIN seq : F(seq[i]) = F(seq[j]) => i = j

\* No two of these share an id.
OnePer(set, F(_)) == \A x, y \in set : F(x) = F(y) => x = y

\* The problems ValidateReport lists, the summary's evidence count aside. An edge's id, reason and
\* relationship, a node's and a link's id and a registry item's source and kind are never empty.
ValidateReport(r) ==
    LET ids == {d.ip : d \in ToSet(r.devices)}
        known == {e.id : e \in ToSet(r.evidence)} \cup r.registry
        nodes == {n.ip : n \in r.nodes}
        Range100(c) == c \in 0 .. 100
    IN  (IF Unique(r.devices, LAMBDA d : d.ip) THEN {} ELSE {"duplicate device id"})
        \cup (IF Unique(r.evidence, LAMBDA e : e.id) THEN {} ELSE {"duplicate evidence id"})
        \cup (UNION {(IF d.ip # None THEN {} ELSE {"device without an address"})
                    \cup (IF Range100(d.conf) THEN {} ELSE {"device confidence out of range"})
                    \cup (IF d.ev \cup (UNION {s.ev : s \in d.services}) \subseteq known THEN {} ELSE {"device cites unknown evidence"})
                    : d \in ToSet(r.devices)})
        \cup (IF OnePer(r.edges, LAMBDA e : e.id) THEN {} ELSE {"duplicate edge id"})
        \cup (IF OnePer(r.nodes, LAMBDA n : n.ip) THEN {} ELSE {"duplicate node id"})
        \cup (UNION {(IF e.type \in EdgeTypes THEN {} ELSE {"unknown edge type"})
                    \cup (IF "" \notin {e.layer, e.style} THEN {} ELSE {"edge without layer or line style"})
                    \cup (IF Range100(e.conf) THEN {} ELSE {"edge confidence out of range"})
                    \cup (IF {e.source, e.target} \subseteq ids THEN {} ELSE {"edge to an unknown device"})
                    \cup (IF e.type \in PhysicalTypes /\ e.ev = {} THEN {"physical edge without evidence"} ELSE {})
                    \cup (IF e.physical /\ e.type \notin PhysicalTypes THEN {"physical edge of an inferred type"} ELSE {})
                    \cup (IF e.ev \subseteq known THEN {} ELSE {"edge cites unknown evidence"})
                    : e \in r.edges})
        \cup (UNION {(IF n.ip # None THEN {} ELSE {"node without an id"})
                    \cup (IF Range100(n.conf) THEN {} ELSE {"node confidence out of range"})
                    : n \in r.nodes})
        \cup (UNION {(IF {e.source, e.target} \subseteq nodes THEN {} ELSE {"topology edge to an unknown node"})
                    \cup (IF None \notin {e.source, e.target} THEN {} ELSE {"topology edge without an endpoint"})
                    \cup (IF "" \notin {e.type, e.relation, e.medium} THEN {} ELSE {"topology edge without type or medium"})
                    \cup (IF Range100(e.conf) THEN {} ELSE {"topology edge confidence out of range"})
                    : e \in r.links})
        \cup (IF r.summary.devices = Len(r.devices) THEN {} ELSE {"device count"})
        \cup (IF r.summary.edges = Cardinality(r.edges) THEN {} ELSE {"edge count"})
=============================================================================
