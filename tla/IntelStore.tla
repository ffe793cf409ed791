----------------------------- MODULE IntelStore -----------------------------
(***************************************************************************)
(* The evidence store of iad-agent's device intelligence and the three     *)
(* passes that fill it: the report's devices, its evidence records and the *)
(* detected network context. A store is [devices, obs]: devices by         *)
(* address, and the observations registered, each once. Of the context's   *)
(* observations and attempts only their identity is kept. Only the kinds   *)
(* of evidence iad-agent collects are there: nothing in its scan writes    *)
(* mDNS, SSDP, NetBIOS, LLMNR or printer records, and every failed attempt *)
(* reaches the store with its evidence id.                                 *)
(***************************************************************************)
EXTENDS UpstreamIntel

CONSTANTS
    VirtualMACs,     \* MAC addresses with a virtualisation vendor's prefix
    VirtualNames     \* host names Docker and WSL generate

Greater(a, b) == IF a > b THEN a ELSE b

Lesser(a, b) == IF a < b THEN a ELSE b

Nothing == [x \in {} |-> x]

\* A map with one entry written.
Put(map, key, value) == [k \in DOMAIN map \cup {key} |-> IF k = key THEN value ELSE map[k]]

Unidentified == [primary |-> "unknown", conf |-> 0, ev |-> {}]

UnknownOS == [family |-> "unknown", conf |-> 0, ev |-> {}]

NewDevice(ip) ==
    [ip |-> ip, macs |-> {}, hosts |-> {}, roles |-> {}, conf |-> 0, ev |-> {}, services |-> Nothing, http |-> {}, tls |-> {}, failed |-> {},
     agent |-> FALSE, gateway |-> FALSE, upstream |-> FALSE, upnp |-> {}, cands |-> Nothing, hints |-> {}, proven |-> FALSE, inferredOnly |-> FALSE,
     type |-> Unidentified, os |-> UnknownOS, findings |-> {}, risk |-> "unknown", tags |-> {}, routing |-> ""]

EmptyStore == [devices |-> Nothing, obs |-> {}]

\* Change(d) is what the caller does to the device it gets back.
UpsertDevice(store, ip, Change(_)) ==
    [store EXCEPT !.devices = Put(@, ip, Change(At(@, ip, NewDevice(ip))))]

Observation(e, dev, conf) == [id |-> e.id, dev |-> dev, kind |-> e.kind, conf |-> Lesser(conf, 100)]

\* The first registration of an id names its device and confidence.
RegisterEvidence(store, records, dev, conf) ==
    LET known == {o.id : o \in store.obs}
    IN  [store EXCEPT !.obs = @ \cup {Observation(e, dev, conf) : e \in {x \in records : x.id \notin known}}]

RegisterEvidenceIDs(store, evidence, dev, ids, conf) ==
    RegisterEvidence(store, {e \in ToSet(evidence) : e.id \in ids}, dev, conf)

Cite(d, ids) == [d EXCEPT !.ev = @ \cup ids]

AtLeast(d, conf) == [d EXCEPT !.conf = Greater(@, conf)]

\* Candidates: by type, the best confidence and all the evidence.
MergeCandidate(d, type, conf, ids) ==
    LET old == At(d.cands, type, [conf |-> 0, ev |-> {}])
    IN  [d EXCEPT !.cands = Put(@, type, [conf |-> Greater(old.conf, conf), ev |-> old.ev \cup ids])]

Virtual(d, conf, ids) == MergeCandidate([d EXCEPT !.roles = @ \cup {"virtual"}], "virtual_machine", conf, ids)

AddMAC(d, mac, ids, conf) ==
    LET known == Cite([d EXCEPT !.macs = @ \cup {mac}], ids)
    IN  AtLeast(IF mac \in VirtualMACs THEN Virtual(known, 70, ids) ELSE known, conf)

AddHostname(d, host, ids, conf) ==
    LET known == Cite([d EXCEPT !.hosts = @ \cup {host}], ids)
    IN  IF host = "" THEN d
        ELSE IF host \in VirtualNames THEN AtLeast(Virtual(known, 45, ids), Lesser(conf, 35)) ELSE AtLeast(known, conf)

\* A port seen before keeps the better confidence and gathers the evidence.
AddService(d, port, conf, ids) ==
    LET old == At(d.services, port, [conf |-> 0, ev |-> {}])
        with == Cite([d EXCEPT !.services = Put(@, port, [conf |-> Greater(old.conf, conf), ev |-> old.ev \cup ids])], ids)
    IN  IF port \in DOMAIN d.services THEN with ELSE AtLeast(with, 70)

AddHTTPObservation(d, key, id) ==
    IF \E o \in d.http : o.key = key THEN d
    ELSE AtLeast(Cite([d EXCEPT !.http = @ \cup {[key |-> key, ev |-> id]}], {id}), 75)

AddTLSObservation(d, key, id) ==
    IF \E o \in d.tls : o.key = key THEN d
    ELSE AtLeast(Cite([d EXCEPT !.tls = @ \cup {[key |-> key, ev |-> id]}], {id}), 75)

AddFailedAttempt(d, key, id) ==
    IF \E o \in d.failed : o.key = key THEN d
    ELSE Cite([d EXCEPT !.failed = @ \cup {[key |-> key, ev |-> id]}], {id})

AddServices(d, services, conf) == FoldSet(LAMBDA s, x : AddService(x, s.port, conf, s.ev), d, services)

AddPages(d, pages) == FoldSet(LAMBDA o, x : AddHTTPObservation(x, o.key, o.ev), d, pages)

AddCertificates(d, certs) == FoldSet(LAMBDA o, x : AddTLSObservation(x, o.key, o.ev), d, certs)

AddFailures(d, failures) == FoldSet(LAMBDA o, x : AddFailedAttempt(x, o.key, o.ev), d, failures)

-----------------------------------------------------------------------------
(* The three passes.                                                       *)

\* Private addresses always; others only when the user allowed a public scope.
TargetAllowed(report, ip) == ip # None /\ (IsPrivateIP(ip) \/ report.scope.public)

FirstEvidence(ids) == IF ids = {} THEN {} ELSE {CHOOSE i \in ids : \A j \in ids : i[4] <= j[4]}

\* A device of the report: its name, roles, MAC and services.
WithTopologyDevice(d, src) ==
    LET first == FirstEvidence(src.ev)
        named == AddHostname(d, src.host, first, 55)
        seen == Cite(AtLeast([named EXCEPT !.roles = @ \cup src.roles, !.agent = src.agent, !.gateway = src.gateway], src.conf), src.ev)
    IN  AddServices(IF src.mac = "" THEN seen ELSE AddMAC(seen, src.mac, first, 60), src.services, 75)

IngestTopologyDevice(report, store, src) ==
    LET known == RegisterEvidenceIDs(UpsertDevice(store, src.ip, LAMBDA d : WithTopologyDevice(d, src)),
                                     report.evidence, src.ip, src.ev, src.conf)
    IN  IF ~TargetAllowed(report, src.ip) THEN store
        ELSE RegisterEvidenceIDs(known, report.evidence, src.ip, UNION {s.ev : s \in src.services}, 75)

IngestTopologyDevices(report, store) == FoldLeft(LAMBDA s, d : IngestTopologyDevice(report, s, d), store, report.devices)

EvidenceConfidence(kind) ==
    LET table == [gateway_route |-> 85, arp_table |-> 65, tcp_connect |-> 75, nmap |-> 75, reverse_dns |-> 45]
    IN  At(table, kind, 50)

\* An evidence record: what its kind says of the device.
WithRecord(d, e) ==
    LET c == Cite(d, {e.id})
    IN  CASE e.kind = "arp_table"        -> AddMAC(c, e.mac, {e.id}, 65)
          [] e.kind = "reverse_dns"      -> AddHostname(c, e.host, {e.id}, 45)
          [] e.kind = "tcp_connect"      -> AddServices(c, {[port |-> p, ev |-> {e.id}] : p \in e.ports}, 75)
          [] e.kind = "icmp_echo"        -> IF e.failed THEN AddFailedAttempt(c, <<"icmp", 0>>, e.id) ELSE c
          [] e.kind = "http_fingerprint" -> AddHTTPObservation(c, <<"upstream", e.port>>, e.id)
          [] e.kind = "tls_fingerprint"  -> AddTLSObservation(c, <<"upstream", e.port>>, e.id)
          [] OTHER                       -> c

IngestEvidenceRecord(report, store, e) ==
    IF ~TargetAllowed(report, e.ip) THEN store
    ELSE RegisterEvidence(UpsertDevice(store, e.ip, LAMBDA d : WithRecord(d, e)), {e}, e.ip, EvidenceConfidence(e.kind))

IngestEvidenceRecords(report, store) == FoldLeft(LAMBDA s, e : IngestEvidenceRecord(report, s, e), store, report.evidence)

AsGateway(d) == [d EXCEPT !.gateway = TRUE, !.roles = @ \cup {"gateway", "router"}]

AsUpstream(d) == [d EXCEPT !.upstream = TRUE, !.roles = @ \cup {"upstream_private_gateway", "possible_cpe"}]

WithHop(d, hop, conf) ==
    LET c == AtLeast(Cite(d, {hop.ev}), conf)
    IN  CASE hop.role = "default_gateway"          -> AsGateway(c)
          [] hop.role = "upstream_private_gateway" -> AsUpstream(c)
          [] OTHER                                 -> c

IngestHop(report, ctx, store, hop) ==
    IF TargetAllowed(report, hop.ip) THEN UpsertDevice(store, hop.ip, LAMBDA d : WithHop(d, hop, ctx.conf)) ELSE store

\* Ports, pages, certificates and failures of a gateway device or CPE candidate.
Ingest(d, g, portConf) ==
    LET served == AddServices(Cite(d, g.ev), {[port |-> p, ev |-> g.ev] : p \in g.ports}, portConf)
        tried == AddFailures(AddCertificates(AddPages(served, g.http), g.tls), g.failed)
    IN  AtLeast(IF g.upnp THEN [tried EXCEPT !.upnp = g.ev] ELSE tried, g.conf)

WithGatewayDevice(d, g) ==
    Ingest(CASE g.role = "default_gateway" -> AsGateway(d)
             [] g.role \in {"upstream_private_gateway", "possible_cpe"} -> AsUpstream(d)
             [] OTHER -> d, g, 80)

\* Whatever is not the default gateway is an upstream candidate.
WithCPE(d, g) == Ingest(IF g.role = "default_gateway" THEN AsGateway(d) ELSE AsUpstream(d), g, 75)

IngestGatewayDevice(report, store, g) ==
    IF TargetAllowed(report, g.ip)
    THEN RegisterEvidenceIDs(UpsertDevice(store, g.ip, LAMBDA d : WithGatewayDevice(d, g)), report.evidence, g.ip, g.ev, g.conf)
    ELSE store

IngestCPECandidate(report, store, g) ==
    IF TargetAllowed(report, g.ip)
    THEN RegisterEvidenceIDs(UpsertDevice(store, g.ip, LAMBDA d : WithCPE(d, g)), report.evidence, g.ip, g.ev, g.conf)
    ELSE store

IngestHops(report, ctx, store) == FoldLeft(LAMBDA s, h : IngestHop(report, ctx, s, h), store, ctx.hops)

IngestGatewayDevices(report, store, devices) == FoldSet(LAMBDA g, s : IngestGatewayDevice(report, s, g), store, devices)

IngestCPECandidates(report, store, cpes) == FoldSet(LAMBDA g, s : IngestCPECandidate(report, s, g), store, cpes)

IngestAccessContext(report, ctx, store) ==
    IngestCPECandidates(report, IngestGatewayDevices(report, IngestHops(report, ctx, store), ctx.devices), ctx.cpes)
=============================================================================
