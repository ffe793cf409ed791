---------------------------- MODULE FusionProbes ----------------------------
(***************************************************************************)
(* The probes of internal/probe: what each reports of what its platform    *)
(* adapter, or the network, gave it. The adapters are not in the           *)
(* repository: what they hand over is a parameter of the probe's operator. *)
(*                                                                         *)
(* An identifier such as "ip_192.168.1.1" is the pair <<"ip", address>>; a *)
(* text is the set of needles it contains, a needle's blanks written as    *)
(* hyphens; confidences are percentages.                                   *)
(***************************************************************************)
EXTENDS Slices

CONSTANTS
    PrivateIP      \* the addresses safety.IsPrivateIP accepts

\* An evidence is the same as another of its source, target and reason; the reasons of one
\* probe differ only in the port they name.
Evidence(src, target, strength, conf, words) ==
    [src |-> src, target |-> target, strength |-> strength, conf |-> conf, words |-> words,
     reason |-> 0, medium |-> "", link |-> <<>>, reach |-> "", chain |-> ""]

Observed(id, ips, macs, type, conf) ==
    [id |-> id, ips |-> ips, macs |-> macs, hosts |-> {}, vendor |-> "", type |-> type, roles |-> {},
     ports |-> {}, words |-> {}, conf |-> conf, ev |-> {}, inferred |-> FALSE]

\* The types of what probes report.
Ids == STRING \X STRING
EvidenceRecord ==
    [src : STRING, target : STRING, strength : STRING, conf : Int, words : SUBSET STRING, reason : Nat,
     medium : STRING, link : {<<>>} \cup (Ids \X Ids \X STRING), reach : STRING, chain : STRING]
Observation ==
    [id : Ids, ips : Seq(STRING), macs : Seq(STRING), hosts : SUBSET STRING, vendor : STRING, type : STRING,
     roles : SUBSET STRING, ports : SUBSET Nat, words : SUBSET STRING, conf : Int, ev : SUBSET EvidenceRecord,
     inferred : BOOLEAN]
ProbeResult ==
    [devices : Seq(Observation), ev : Seq(EvidenceRecord), hops : Seq([ip : STRING, private : BOOLEAN])]

\* A probe that is skipped, cancelled or refused reports nothing; "hops" is Raw["route_hops"].
Result(devices, ev) == [devices |-> devices, ev |-> ev, hops |-> <<>>]
Skipped == Result(<<>>, <<>>)

MapSeq(s, f(_)) == [i \in DOMAIN s |-> f(s[i])]

-----------------------------------------------------------------------------
\* An interface is [name, ips, mac, virtual]; one without an address is evidence only.
OSInterfaces(ifaces) ==
    LET ev(i)  == Evidence("os_interface_probe", i.name, "medium", 70, {})
        dev(i) == [Observed(<<"local", i.name>>, i.ips, IF i.mac = "" THEN <<>> ELSE <<i.mac>>,
                            IF i.virtual THEN "virtual_adapter" ELSE "local_host", 85)
                   EXCEPT !.roles = {"local_host"}, !.ev = {ev(i)}]
    IN  Result(MapSeq(SelectSeq(ifaces, LAMBDA i : i.ips # <<>>), dev), MapSeq(ifaces, ev))

RouteTable(gw) ==
    LET ev == Evidence("route_table_probe", gw, "strong", 65, {"gateway"})
    IN  IF gw = "" THEN Skipped
        ELSE Result(<<[Observed(<<"ip", gw>>, <<gw>>, <<>>, "router", 65)
                       EXCEPT !.roles = {"default_gateway"}, !.ev = {ev}]>>, <<ev>>)

DHCP(server) ==
    LET ev == Evidence("dhcp_probe", server, "strong", 75, {})
    IN  IF server = "" THEN Skipped
        ELSE Result(<<[Observed(<<"ip", server>>, <<server>>, <<>>, "router", 75)
                       EXCEPT !.roles = {"dhcp_server"}, !.ev = {ev}]>>, <<ev>>)

\* The entries the adapter read from the neighbour table, each with a weak evidence.
ARPNeighbors(entries) ==
    Result(entries, MapSeq(entries, LAMBDA d : Evidence("arp_neighbor_probe", d.id[2], "weak", 35, {})))

WiFi(bssid, ssid) ==
    LET ev == Evidence("wifi_probe", bssid, "strong", 85, {"bssid", "access-point"})
    IN  IF bssid = "" THEN Skipped
        ELSE Result(<<[Observed(<<"mac", bssid>>, <<>>, <<bssid>>, "access_point", 85)
                       EXCEPT !.roles = {"wifi_ap"}, !.hosts = {ssid} \ {""}, !.ev = {ev}]>>, <<ev>>)

\* NDP, ping sweep, SSDP, mDNS, NetBIOS and UDP hand their adapter's devices on as they are.
Relay(devices) == Result(devices, <<>>)

HTTPDeviceType(text) ==
    LET table == << <<{"printer", "ipp"}, "printer">>, <<{"synology", "qnap", "nas"}, "nas">>,
                    <<{"camera", "rtsp"}, "camera">>, <<{"router", "gateway", "openwrt"}, "router">> >>
        hits  == {i \in DOMAIN table : table[i][1] \cap text # {}}
    IN  IF hits = {} THEN "unknown" ELSE table[Min(hits)][2]

\* An answer is [ip, port, words]; each private candidate answers on one port at most.
HTTPFingerprint(answers) ==
    LET private == SelectSeq(answers, LAMBDA a : a.ip \in PrivateIP)
        ev(a)   == Evidence("http_fingerprint_probe", a.ip, "medium", 65, a.words)
        dev(a)  == [Observed(<<"ip", a.ip>>, <<a.ip>>, <<>>, HTTPDeviceType(a.words), 65)
                    EXCEPT !.ports = {a.port}, !.words = a.words, !.ev = {ev(a)}]
    IN  Result(MapSeq(private, dev), MapSeq(private, ev))

\* The needle that the reason "TCP connect to safe local port <p> succeeded." contains, and
\* those in the service name of a port.
PortWords(p)    == IF p = 9100 THEN {"port-9100"} ELSE {}
ServiceWords(p) == CASE p = 554 -> {"rtsp"} [] p \in {5000, 5001} -> {"nas"} [] p = 9100 -> {"printer"} [] OTHER -> {}

\* An answer is [ip, ports] with the open ports; a device is given the evidence collected
\* so far, that of the hosts before it included. One evidence stands for one open port.
TCPConnect(answers) ==
    LET open    == SelectSeq(answers, LAMBDA a : a.ip \in PrivateIP /\ a.ports # {})
        ev(a)   == MapSeq(SetToSeq(a.ports), LAMBDA p : [Evidence("tcp_connect_probe", a.ip, "medium", 50, PortWords(p)) EXCEPT !.reason = p])
        all     == FlattenSeq(MapSeq(open, ev))
        dev(i)  == LET a == open[i]
                   IN  [Observed(<<"ip", a.ip>>, <<a.ip>>, <<>>, "unknown", 45)
                        EXCEPT !.ports = a.ports,
                               !.words = UNION {PortWords(p) \cup ServiceWords(p) : p \in a.ports},
                               !.ev = ToSet(FlattenSeq(MapSeq(SubSeq(open, 1, i), ev)))]
    IN  Result([i \in DOMAIN open |-> dev(i)], all)

\* A hop is [ip, private]; the flag is the adapter's.
Traceroute(hops) ==
    LET ev(h)  == Evidence("traceroute_isp_path_probe", h.ip, "medium", 50, {})
        dev(h) == [Observed(<<"hop", h.ip>>, <<h.ip>>, <<>>, IF h.private THEN "router" ELSE "isp_hop", 50)
                   EXCEPT !.ev = {ev(h)}]
    IN  [Result(MapSeq(hops, dev), MapSeq(hops, ev)) EXCEPT !.hops = hops]

\* With credentials SNMP says that it has no backend. LLDP/CDP returns edges only, which the
\* fusion does not read: its result is Skipped.
SNMP(ip) == IF ip \in PrivateIP THEN Result(<<>>, <<Evidence("snmp_optin_probe", ip, "weak", 10, {})>>) ELSE Skipped

-----------------------------------------------------------------------------
\* The probes in the order of DefaultProbes, with the least mode that allows them.
Modes == <<"safe", "normal", "deep">>

DefaultProbes ==
    << <<"os", "safe">>, <<"route", "safe">>, <<"arp", "safe">>, <<"ndp", "safe">>, <<"dhcp", "safe">>,
       <<"wifi", "safe">>, <<"ping", "normal">>, <<"ssdp", "normal">>, <<"mdns", "normal">>,
       <<"netbios", "normal">>, <<"http", "normal">>, <<"tcp", "normal">>, <<"udp", "normal">>,
       <<"snmp", "deep">>, <<"lldp", "deep">>, <<"traceroute", "deep">> >>

ModeAllowed(probe, mode) ==
    \E i, j \in DOMAIN Modes : i <= j /\ Modes[i] = probe[2] /\ Modes[j] = mode

ProbesOf(mode) ==
    MapSeq(Those(DefaultProbes, {p \in ToSet(DefaultProbes) : ModeAllowed(p, mode)}), LAMBDA p : p[1])
=============================================================================
