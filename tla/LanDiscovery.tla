---------------------------- MODULE LanDiscovery ----------------------------
(***************************************************************************)
(* discovery.Run of iad-agent: what the sweeps saw inside the scope        *)
(* becomes devices, each with the evidence behind it, and the evidence     *)
(* becomes a report. The network is an input:                              *)
(*   lan.tcp    open ports by address, lan.swept and lan.table MACs by     *)
(*   address, lan.nmap [ports, mac, host] by address, lan.dns names.       *)
(***************************************************************************)
EXTENDS LanTopology

At(f, x, otherwise) == IF x \in DOMAIN f THEN f[x] ELSE otherwise

\* TCP and ARP sweeps run over HostsInScope; the neighbour table and Nmap are filtered.
Discover(scope, lan) ==
    LET hosts == IF scope.hosts > 0 THEN HostsInScope(scope) ELSE {}
        Inside(f) == {ip \in DOMAIN f : InScope(scope, ip)}
    IN  [tcp |-> DOMAIN lan.tcp \cap hosts,
         arp_sweep |-> DOMAIN lan.swept \cap hosts \cap Inside(lan.swept),
         arp_table |-> Inside(lan.table),
         nmap |-> Inside(lan.nmap)]

\* A device is listed if any source saw it; the agent and the gateway always are.
SourcesOf(res, agent, gateway, ip) ==
    {s \in DOMAIN res : ip \in res[s]}
        \cup (IF ip = agent THEN {"self"} ELSE {}) \cup (IF ip = gateway THEN {"gateway"} ELSE {})

DeviceIPs(res, agent, gateway) == ((UNION {res[s] : s \in DOMAIN res}) \cup {agent, gateway}) \ {None}

\* The sweep's MAC before the table's, then the agent's own, then Nmap's.
MacOf(res, lan, primary, agent, ip) ==
    LET swept == IF ip \in res.arp_sweep THEN lan.swept[ip] ELSE ""
        table == IF ip \in res.arp_table THEN lan.table[ip] ELSE ""
        own == IF ip = agent THEN primary.mac ELSE ""
        scan == IF ip \in res.nmap THEN lan.nmap[ip].mac ELSE ""
        first == SelectSeq(<<swept, table, own, scan>>, LAMBDA m : m # "")
    IN  IF first = <<>> THEN "" ELSE Head(first)

DeviceConfidence(isAgent, isGateway, alive, mac, host) ==
    LET base == IF isAgent THEN 95 ELSE IF isGateway THEN 90 ELSE IF alive THEN 70 ELSE 50
        sum == base + (IF mac # "" THEN 5 ELSE 0) + (IF host # "" THEN 5 ELSE 0)
    IN  IF sum > 100 THEN 100 ELSE sum

Reachability(isAgent, isGateway, tcpOpen, hasNmap, mac) ==
    IF isAgent THEN "self"
    ELSE IF isGateway \/ tcpOpen \/ hasNmap THEN "reachable"
    ELSE IF mac # "" THEN "arp_only" ELSE "unknown"

\* What is put on record of a device, in this order.
DeviceFacts(ip, ports, mac, dns, scanned) ==
    LET Known(on, fact) == IF on THEN <<fact>> ELSE <<>>
    IN  Known(ports # {}, [Fact("tcp_connect", ip) EXCEPT !.ports = ports])
          \o Known(mac # "", [Fact("arp_table", ip) EXCEPT !.mac = mac])
          \o Known(dns # "", [Fact("reverse_dns", ip) EXCEPT !.host = dns])
          \o Known(scanned, Fact("nmap", ip))

\* Normalizer.Device and attachNmap: the evidence is minted first, the device cites it.
DeviceOf(store, ip, agent, gateway, primary, res, lan) ==
    LET isAgent == ip = agent
        isGateway == ip = gateway
        ports == IF ip \in res.tcp THEN lan.tcp[ip] ELSE {}
        mac == MacOf(res, lan, primary, agent, ip)
        dns == At(lan.dns, ip, "")
        scanned == ip \in res.nmap
        alive == ports # {} \/ isAgent \/ isGateway \/ scanned
        ev == Minted(store, DeviceFacts(ip, ports, mac, dns, scanned))
        fromScan == IF scanned THEN lan.nmap[ip].ports \ ports ELSE {}
    IN  [store |-> store \o ev,
         device |-> [ip |-> ip, agent |-> isAgent, gateway |-> isGateway, roles |-> {}, mac |-> mac,
                     host |-> IF dns = "" /\ scanned THEN lan.nmap[ip].host ELSE dns,
                     services |-> {[port |-> p, ev |-> IdsOf(ev, {"tcp_connect"})] : p \in ports}
                                    \cup {[port |-> p, ev |-> IdsOf(ev, {"nmap"})] : p \in fromScan},
                     ev |-> {e.id : e \in ToSet(ev)} \cup (IF isGateway THEN GatewayEvidence(store) ELSE {}),
                     conf |-> DeviceConfidence(isAgent, isGateway, alive, mac, dns),
                     sources |-> SourcesOf(res, agent, gateway, ip),
                     reach |-> Reachability(isAgent, isGateway, ports # {}, scanned, mac)]]

AddDevice(acc, ip, agent, gateway, primary, res, lan) ==
    LET d == DeviceOf(acc.store, ip, agent, gateway, primary, res, lan)
    IN  [store |-> d.store, devices |-> Append(acc.devices, d.device)]

\* In address order, so that evidence numbers do not depend on map order.
BuildDevices(store, agent, gateway, primary, res, lan) ==
    LET ips == DeviceIPs(res, agent, gateway)
    IN  FoldLeft(LAMBDA acc, ip : AddDevice(acc, ip, agent, gateway, primary, res, lan),
                 [store |-> store, devices |-> <<>>], StableSort(SetToSeq(ips), [ip \in ips |-> -ip]))

SameSubnetPeers(devices, net, agent, gateway) ==
    {ip \in {d.ip : d \in ToSet(devices)} \ {agent, gateway} : NetContains(net, ip)}

\* gateway is None when no default route is known.
Run(primary, gateway, scope, warnings, lan) ==
    LET agent == PrimaryIPv4(primary)
        start == Minted(<<>>, <<Fact("interface", agent)>>
                                \o (IF gateway # None THEN <<Fact("gateway_route", gateway)>> ELSE <<>>))
        res == Discover(scope, lan)
        all == BuildDevices(start, agent, gateway, primary, res, lan)
        graph == Build(agent, gateway, all.devices, GatewayEvidence(all.store),
                       SameSubnetPeers(all.devices, primary.net, agent, gateway))
    IN  [agent |-> agent, gateway |-> gateway, scope |-> scope, devices |-> graph.devices, edges |-> graph.edges,
         evidence |-> all.store,
         warnings |-> warnings \cup (IF gateway = None THEN {"no_default_gateway"} ELSE {})
                        \cup (IF graph.inferredOnly /\ graph.edges # {} THEN {"inferred_topology_only"} ELSE {}),
         summary |-> [devices |-> Len(graph.devices), edges |-> Cardinality(graph.edges), evidence |-> Len(all.store),
                      high |-> graph.high, inferredOnly |-> graph.inferredOnly],
         found |-> [scanned |-> scope.hosts, devices |-> Len(graph.devices), tcp |-> Cardinality(res.tcp),
                    arp |-> Cardinality(res.arp_sweep \cup res.arp_table), nmap |-> Cardinality(res.nmap)],
         registry |-> {}, nodes |-> {}, links |-> {}, root |-> None, notes |-> {}]
=============================================================================
