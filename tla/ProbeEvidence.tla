--------------------------- MODULE ProbeEvidence ---------------------------
(***************************************************************************)
(* One evidence bag from the results of all probes: detection.aggregate.   *)
(* Confidences are percentages. A WAN signal is [text, named, strong,      *)
(* conf]: the needles of its value and detail, whether it has a value,     *)
(* whether its strength says physical or strong, its confidence. A key of  *)
(* the evidence is set only with a value that is not empty; the versions   *)
(* of one probe share its name.                                            *)
(***************************************************************************)
EXTENDS GatewayChain, LineStats

NoEvidence ==
    [hints |-> <<>>, strong |-> <<>>, sources |-> 0,
     model |-> {}, text |-> {}, devtext |-> {}, wantext |-> {}, cpetext |-> {}, cpekv |-> <<>>,
     interfaces |-> {}, me |-> "", medium |-> "", upnp |-> FALSE, tr064 |-> FALSE,
     gateway |-> "", chain |-> <<>>, double |-> FALSE, chainconflicts |-> {}, hops |-> <<>>, hopconf |-> 0, modem |-> "",
     devices |-> <<>>, signals |-> <<>>,
     publicip |-> "", cgnat |-> FALSE, ptr |-> FALSE, org |-> FALSE,
     avg |-> 0, perf |-> FALSE, ipv6 |-> FALSE, globalipv6 |-> FALSE,
     hasnat |-> FALSE, nat |-> NoNAT, line |-> NoProfile,
     phys |-> 0, dev |-> 0, net |-> 0, perfconf |-> 0]

HasLatency(bag) == bag.avg > 0

\* Needles that are proof of the medium wherever a CPE shows them.
DirectEvidenceTokens ==
    {"ptm0", "atm0", "dsl0", "pppoe-wan", "eth-wan", "gpon", "epon", "ont", "docsis", "cable modem",
     "vdsl2", "adsl2+", "line rate", "line attenuation", "snr margin", "wwan", "lte0", "wan dsl", "wan gpon",
     "wan ethernet", "wandslinterfaceconfig", "dsl.line", "dsl.channel", "ptm.link", "atm.link", "optical.interface",
     "cellular.interface", "vdsl2-line", "adsl-line", "docs-if", "docsis mib", "iftype adsl"}

DirectSignal(sig) == sig.strong \/ sig.conf >= 70

SignalsText(signals) == UNION {s.text : s \in {s \in ToSet(signals) : s.strong}}

DirectProbeHasPhysicalEvidence(r) ==
    \/ Get(r.ev, "direct_physical_evidence", FALSE)
    \/ Get(r.ev, "wan_access_type", {}) \cap {"unknown", "other"} = {} /\ Get(r.ev, "wan_access_type", {}) # {}
    \/ \E s \in ToSet(Get(r.ev, "wan_signals", <<>>)) : DirectSignal(s)
    \/ Parse(Get(r.ev, "cpe_text", {}), Get(r.ev, "cpe_kv", <<>>)) # NoProfile
    \/ (Get(r.ev, "cpe_services", {}) \cup Get(r.ev, "cpe_text", {})) \cap DirectEvidenceTokens # {}

GatewayDeviceHasDirectPhysicalEvidence(d) ==
    \/ "wancommon" \in d.found /\ d.wantype # {}
    \/ d.physhints # <<>>
    \/ (d.wantype \cup d.link \cup d.services) \cap DirectEvidenceTokens # {}

GatewayDevicePhysicalHints(d) == IF d.physhints # <<>> THEN d.physhints ELSE d.hints

GatewayDeviceText(devices) ==
    UNION {d.model \cup HintsText(d.hints) : d \in {d \in ToSet(devices) : d.accconf > 0 \/ d.hints # <<>>}}

\* A device's access confidence is physical evidence only if the device shows the medium itself.
AbsorbDevice(bag, d) ==
    LET direct == GatewayDeviceHasDirectPhysicalEvidence(d) /\ d.accconf > 0
    IN  [bag EXCEPT !.dev    = MaxOf(MaxOf(@, d.devconf), IF direct THEN 0 ELSE d.accconf),
                    !.phys   = IF direct THEN MaxOf(@, d.accconf) ELSE @,
                    !.strong = IF direct THEN AppendAllUnique(@, GatewayDevicePhysicalHints(d)) ELSE @]

AbsorbDevices(bag, devs) == FoldLeft(AbsorbDevice, bag, devs)

\* The main adapter: the first one up, not virtual, with a usable IPv4 address.
PickMainAdapter(adapters) ==
    LET usable == Those(adapters, {a \in ToSet(adapters) : a.up /\ ~a.virtual /\ a.ip # "" /\ ~a.apipa})
    IN  IF usable = <<>> THEN [name |-> {}, ip |-> "", access |-> ""] ELSE Head(usable)

AbsorbCPE(bag, r) ==
    LET direct  == DirectProbeHasPhysicalEvidence(r)
        acc     == Get(r.ev, "access_confidence", 0)
        model   == Get(r.ev, "model", {})
        signals == Get(r.ev, "wan_signals", <<>>)
        kv      == Get(r.ev, "cpe_kv", <<>>)
    IN  [bag EXCEPT !.tr064   = @ \/ Get(r.ev, "tr064_found", FALSE),
                    !.upnp    = @ \/ Get(r.ev, "igd_wan_common_found", FALSE),
                    !.model   = IF model # {} THEN model ELSE @,
                    !.text    = @ \cup model,
                    !.dev     = MaxOf(MaxOf(@, Get(r.ev, "device_confidence", 0)), IF direct THEN 0 ELSE acc),
                    !.phys    = IF direct THEN MaxOf(@, acc) ELSE @,
                    !.signals = @ \o signals,
                    !.wantext = @ \cup SignalsText(signals),
                    !.cpekv   = [f \in DOMAIN kv \cup DOMAIN @ |-> IF f \in DOMAIN kv THEN kv[f] ELSE @[f]],
                    !.cpetext = @ \cup Get(r.ev, "cpe_text", {}),
                    !.strong  = IF direct /\ (acc > 0 \/ Get(r.ev, "strong_access_evidence", FALSE))
                                THEN AppendAllUnique(@, r.hints) ELSE @]

CPEProbes == {"upnp_igd_probe", "upnp_igd_deep_probe", "upnp_igd_deep_probe_v2", "tr064_probe",
              "tr064_probe_v2", "snmp_probe_opt_in", "tr181_interface_stack_probe"}

DeviceProbes == {"http_fingerprint_v2", "http_fingerprint_v3", "upstream_private_cpe_probe"}

AbsorbUPnP(bag, ev) ==
    [bag EXCEPT !.upnp = Get(ev, "found", FALSE),
                !.model = IF Get(ev, "router_model", {}) # {} THEN ev["router_model"] ELSE @,
                !.text = @ \cup Get(ev, "router_text", {})]

AbsorbAdapters(bag, ev) ==
    LET adapters == Get(ev, "adapters", <<>>)
    IN  [bag EXCEPT !.me = PickMainAdapter(adapters).ip, !.medium = PickMainAdapter(adapters).access,
                    !.interfaces = @ \cup (UNION {a.name : a \in ToSet(adapters)})]

AbsorbPublicIP(bag, ev) == [bag EXCEPT !.publicip = Get(ev, "public_ip", ""), !.cgnat = Get(ev, "cgnat", FALSE)]

AbsorbASN(bag, ev) ==
    [bag EXCEPT !.ptr = Get(ev, "ptr", {}) # {}, !.org = Get(ev, "org", {}) # {},
                !.text = @ \cup Get(ev, "ptr", {}) \cup Get(ev, "org", {})]

AbsorbLatency(bag, ev) == [bag EXCEPT !.avg = Get(ev, "avg_ms", 0)]

AbsorbGateway(bag, ev) == [bag EXCEPT !.gateway = Get(ev, "gateway", "")]

AbsorbTraceroute(bag, ev) ==
    LET hops == DetectGatewayChain(Get(ev, "hops", <<>>)) IN [bag EXCEPT !.chain = hops, !.double = Len(hops) >= 2]

\* The chain probe's devices replace those the bag has.
AbsorbChainProbe(bag, ev) ==
    LET chain == Get(ev, "gateway_chain", <<>>)
        devs  == Get(ev, "gateway_devices", <<>>)
    IN  AbsorbDevices([bag EXCEPT !.chain = IF chain # <<>> THEN chain ELSE @,
                                  !.double = IF chain # <<>> THEN Get(ev, "double_nat_possible", FALSE) ELSE @,
                                  !.modem = Get(ev, "likely_modem_ip", ""),
                                  !.devices = devs,
                                  !.devtext = IF devs # <<>> THEN GatewayDeviceText(devs) ELSE @],
                      devs)

AbsorbDeviceProbe(bag, ev) ==
    LET devs == Get(ev, "gateway_devices", <<>>)
    IN  AbsorbDevices([bag EXCEPT !.devices = @ \o devs, !.devtext = @ \cup GatewayDeviceText(devs)], devs)

NetworkConfidence(bag, ev) == MaxOf(bag.net, Get(ev, "network_confidence", 0))

AbsorbIPv6(bag, ev) ==
    [bag EXCEPT !.ipv6 = TRUE, !.globalipv6 = ev["ipv6_context"].global, !.net = NetworkConfidence(bag, ev)]

AbsorbNAT(bag, ev) == [bag EXCEPT !.hasnat = TRUE, !.nat = ev["nat_topology"], !.net = NetworkConfidence(bag, ev)]

AbsorbOSInterface(bag, ev) ==
    [bag EXCEPT !.medium = FirstNonEmpty(ev["local_medium"], @),
                !.dev = MaxOf(@, Get(ev, "device_confidence", 0)),
                !.phys = IF Get(ev, "local_cellular_evidence", FALSE)
                         THEN MaxOf(@, Get(ev, "access_confidence", 0)) ELSE @]

AbsorbLLDP(bag, r) ==
    LET strong == Get(r.ev, "strong_access_evidence", FALSE) \/ Get(r.ev, "access_confidence", 0) > 0
    IN  [bag EXCEPT !.net = NetworkConfidence(bag, r.ev),
                    !.phys = IF strong THEN MaxOf(@, Get(r.ev, "access_confidence", 0)) ELSE @,
                    !.strong = IF strong THEN AppendAllUnique(@, r.hints) ELSE @]

AbsorbPerformance(bag, ev) ==
    [bag EXCEPT !.perf = TRUE, !.perfconf = MaxOf(@, Get(ev, "performance_confidence", 0))]

AbsorbReachability(bag, ev) == [bag EXCEPT !.net = NetworkConfidence(bag, ev)]

\* What one probe's evidence changes in the bag.
AbsorbByName(bag, r) ==
    LET ev == r.ev
        n  == r.name
    IN  CASE n = "upnp_probe" -> AbsorbUPnP(bag, ev)
          [] n = "adapter_probe" -> AbsorbAdapters(bag, ev)
          [] n = "public_ip_probe" -> AbsorbPublicIP(bag, ev)
          [] n = "asn_probe" -> AbsorbASN(bag, ev)
          [] n = "latency_probe" -> AbsorbLatency(bag, ev)
          [] n = "gateway_probe" -> AbsorbGateway(bag, ev)
          [] n = "traceroute_probe" -> AbsorbTraceroute(bag, ev)
          [] n = "gateway_chain_probe" -> AbsorbChainProbe(bag, ev)
          [] n \in CPEProbes -> AbsorbCPE(bag, r)
          [] n \in DeviceProbes -> AbsorbDeviceProbe(bag, ev)
          [] n = "ipv6_transition_probe" /\ "ipv6_context" \in DOMAIN ev -> AbsorbIPv6(bag, ev)
          [] n = "stun_pcp_nat_probe" /\ "nat_topology" \in DOMAIN ev -> AbsorbNAT(bag, ev)
          [] n = "os_interface_probe_v2" /\ "local_medium" \in DOMAIN ev -> AbsorbOSInterface(bag, ev)
          [] n = "lldp_cdp_passive_probe" -> AbsorbLLDP(bag, r)
          [] n = "performance_profile_probe" /\ "performance_profile" \in DOMAIN ev -> AbsorbPerformance(bag, ev)
          [] n = "gateway_reachability_diagnostics_probe" -> AbsorbReachability(bag, ev)
          [] OTHER -> bag

\* Whether a result counts as a source.
Contributed(r) ==
    LET n == r.name
    IN  \/ r.hints # <<>>
        \/ n = "upnp_probe" /\ "router_model" \in DOMAIN r.ev
        \/ n = "asn_probe" /\ DOMAIN r.ev \cap {"ptr", "org"} # {}
        \/ n = "traceroute_probe" /\ Len(DetectGatewayChain(Get(r.ev, "hops", <<>>))) >= 2
        \/ n = "gateway_chain_probe" /\ DOMAIN r.ev \cap {"gateway_chain", "gateway_devices"} # {}
        \/ n \in CPEProbes /\ DOMAIN r.ev \cap {"model", "wan_signals", "cpe_kv"} # {}
        \/ n \in DeviceProbes /\ "gateway_devices" \in DOMAIN r.ev
        \/ n = "ipv6_transition_probe" /\ "ipv6_context" \in DOMAIN r.ev
        \/ n = "stun_pcp_nat_probe" /\ "nat_topology" \in DOMAIN r.ev
        \/ n = "os_interface_probe_v2" /\ "local_medium" \in DOMAIN r.ev
        \/ n = "lldp_cdp_passive_probe" /\ Get(r.ev, "network_confidence", 0) > 0
        \/ n = "performance_profile_probe" /\ "performance_profile" \in DOMAIN r.ev
        \/ n = "gateway_reachability_diagnostics_probe" /\ Get(r.ev, "route_present", FALSE)

Absorb(bag, r) ==
    [AbsorbByName([bag EXCEPT !.hints = AppendAllUnique(@, r.hints)], r)
        EXCEPT !.sources = @ + (IF Contributed(r) THEN 1 ELSE 0)]

Gathered(rs) == FoldLeft(Absorb, NoEvidence, rs)

-----------------------------------------------------------------------------
\* (Mutant: the resolved state's flag is not taken over.)
OverrideChainFlagKept(bag, state) ==
    [bag EXCEPT !.chain = IF state.chain # <<>> THEN state.chain ELSE @, !.hops = state.chain, !.hopconf = state.conf]

\* The chain state overrides the chain and can only raise the double NAT flag.
OverrideChain(bag, state) ==
    [bag EXCEPT !.chain = IF state.chain # <<>> THEN state.chain ELSE @,
                !.double = @ \/ state.double,
                !.chainconflicts = state.conflicts, !.hops = state.chain, !.hopconf = state.conf]

WithChainState(bag, results) == OverrideChain(bag, ResolveGatewayChainState(results, bag.gateway, bag.me))

WithNAT(bag) ==
    LET int == bag.nat.internal \/ bag.nat.double \/ bag.double
    IN  IF bag.hasnat THEN [bag EXCEPT !.nat = [@ EXCEPT !.internal = int, !.double = int]]
        ELSE IF bag.double
        THEN [bag EXCEPT !.hasnat = TRUE,
                         !.nat = [NoNAT EXCEPT !.double = TRUE, !.internal = TRUE, !.topology = "double_nat_possible"]]
        ELSE bag

\* The parsed line profile is strong physical evidence for the types it implies.
WithLineProfile(bag) ==
    LET lp == Parse(bag.wantext \cup bag.cpetext \cup bag.model, bag.cpekv)
    IN  [bag EXCEPT !.line = lp, !.strong = AppendAllUnique(@, AccessHints(lp)), !.phys = MaxOf(@, lp.conf)]

Aggregate(results) ==
    WithLineProfile(WithNAT(WithChainState(Gathered(Successful(results)), results)))

\* The first stage of Analyze: devices merged, every NAT signal reconciled.
Reconcile(b) ==
    LET bag == [b EXCEPT !.chain = IF @ = <<>> /\ b.gateway # "" THEN <<b.gateway>> ELSE @,
                         !.devices = MergeGatewayDevices(@)]
        nat == ResolveNATTopology(bag.nat, bag.publicip, bag.cgnat, bag.double, bag.globalipv6)
    IN  IF HasUsefulNATContext(nat) THEN [bag EXCEPT !.hasnat = TRUE, !.nat = nat, !.double = nat.internal]
        ELSE [bag EXCEPT !.hasnat = FALSE, !.nat = NoNAT]
=============================================================================
