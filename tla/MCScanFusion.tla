---------------------------- MODULE MCScanFusion ----------------------------
(***************************************************************************)
(* A LAN with the host L, a gateway G, hosts H and K and a second private  *)
(* gateway U; P is a public address. m1 is the MAC of the gateway and,     *)
(* where an entry says so, of another address too.                         *)
(***************************************************************************)
EXTENDS ScanFusion

MCPrivateIP == {"L", "G", "H", "K", "U"}

MCLexical ==
    << <<"hop", "G">>, <<"hop", "P">>, <<"hop", "U">>, <<"inferred", "switch">>, <<"ip", "G">>, <<"ip", "H">>,
       <<"ip", "K">>, <<"ip", "P">>, <<"ip", "U">>, <<"local", "eth0">>, <<"local", "vpn0">>,
       <<"mac", "m1">>, <<"mac", "m2">> >>

Iface(name, ips, mac, virtual) == [name |-> name, ips |-> ips, mac |-> mac, virtual |-> virtual]
Neighbor(ip, mac) == Observed(<<"ip", ip>>, <<ip>>, <<mac>>, "", 0)

\* What the adapters' own records may hold: a vendor, an inferred flag, evidence of a link,
\* of the medium, of a gateway's reachability.
Tagged(d, words, ev) == [d EXCEPT !.words = words, !.ev = {ev}]
Named(e, medium, link) == [e EXCEPT !.medium = medium, !.link = link]

MCReports(probe) ==
    CASE probe = "os" ->
            {OSInterfaces(<<Iface("eth0", <<"L">>, "m0", FALSE)>>),
             OSInterfaces(<<Iface("eth0", <<"L", "P">>, "m0", FALSE), Iface("vpn0", <<"U">>, "", TRUE)>>)}
      [] probe = "route" -> {RouteTable("G")}
      [] probe = "arp" ->
            {ARPNeighbors(<<Neighbor("H", "m1"), Neighbor("G", "m1")>>),
             ARPNeighbors(<<Neighbor("G", "m1"), Neighbor("H", "m2"), Neighbor("P", "m2")>>)}
      [] probe = "dhcp" -> {DHCP("G")}
      [] probe = "wifi" -> {WiFi("m1", "net"), WiFi("m2", "")}
      [] probe = "ssdp" ->
            {Relay(<<Tagged(Observed(<<"ip", "H">>, <<"H">>, <<>>, "unknown", 50), {"internetgatewaydevice"},
                            Named(Evidence("ssdp_upnp_probe", "H", "medium", 60, {"internetgatewaydevice"}), "ethernet", <<>>))>>),
             Relay(<<[Observed(<<"ip", "K">>, <<"K">>, <<>>, "switch", 70) EXCEPT !.inferred = TRUE,
                        !.ev = {Named(Evidence("lldp_cdp_passive_probe", "K", "medium", 70, {"lldp"}), "wifi",
                                      <<<<"local", "eth0">>, <<"ip", "K">>, "">>)}]>>)}
      [] probe = "http" -> {HTTPFingerprint(<<[ip |-> "H", port |-> 80, words |-> {"printer"}]>>)}
      [] probe = "tcp" -> {TCPConnect(<<[ip |-> "H", ports |-> {22}], [ip |-> "K", ports |-> {9100}]>>),
                           TCPConnect(<<[ip |-> "G", ports |-> {80}], [ip |-> "K", ports |-> {445}]>>)}
      [] probe = "snmp" -> {SNMP("G")}
      [] probe = "traceroute" ->
            {Traceroute(<<[ip |-> "G", private |-> TRUE], [ip |-> "P", private |-> FALSE]>>)}
      [] probe = "ndp" ->
            {Relay(<<[Observed(<<"ip", "U">>, <<"U">>, <<>>, "router", 60) EXCEPT !.roles = {"upstream_gateway"}]>>)}
      [] OTHER -> {}
=============================================================================
