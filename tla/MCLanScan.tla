----------------------------- MODULE MCLanScan -----------------------------
(***************************************************************************)
(* Small networks for LanScan, in seven bits: 32..47 plays 192.168/16,     *)
(* 16..23 plays 10/8, 8..15 the link-local block, 112 and 113 the          *)
(* link-local multicast block, everything else is public. The LAN is       *)
(* 32..39: the agent 33, the gateway 34, peers 35 and 36; 17 is a private  *)
(* gateway upstream of it.                                                 *)
(***************************************************************************)
EXTENDS LanScan

MCPrivateBlocks ==
    {[base |-> 32, len |-> 3, linkLocal |-> FALSE], [base |-> 16, len |-> 4, linkLocal |-> FALSE], [base |-> 8, len |-> 4, linkLocal |-> TRUE],
     [base |-> 112, len |-> 6, linkLocal |-> FALSE]}

Interface(name, mac, virtual, net, ips) ==
    [name |-> name, mac |-> mac, up |-> TRUE, loopback |-> FALSE, virtual |-> virtual, net |-> net, ips |-> ips]

Lan == Network(32, 4)

\* A plain host; one with a virtual bridge first; one on a public network; one with two addresses.
MCHosts ==
    {<<Interface("docker", "vm", TRUE, Network(16, 5), <<18>>), Interface("eth", "m33", FALSE, Lan, <<33>>)>>,
     <<Interface("wan", "m98", FALSE, Network(96, 4), <<98>>)>>,
     <<Interface("ll", "m9", FALSE, Network(8, 4), <<9>>), Interface("wifi", "m33", FALSE, Lan, <<98, 33>>)>>}

MCGateways == {None, 33, 34, 100}

V6(base) == [v6 |-> TRUE, base |-> base, len |-> 0]

\* Inside the LAN; from the edge of a block outwards; too large; public; typed inside; from the
\* multicast block outwards; IPv6.
MCRequests == {NoNet, Network(35, 5), Network(40, 3), Network(32, 1), Network(97, 5), Network(17, 6), Network(113, 5), V6(1), V6(2)}

MCNames == {"", "wan", "nosuch"}

Quiet == [tcp |-> Nothing, swept |-> Nothing, table |-> Nothing, nmap |-> Nothing, dns |-> Nothing]

MCLans ==
    {Quiet,
     [Quiet EXCEPT !.tcp = (34 :> {53, 80}) @@ (35 :> {22, 80, 445}) @@ (98 :> {80}), !.swept = (34 :> "m34") @@ (36 :> "vm"),
                   !.table = (35 :> "m35") @@ (17 :> "m17") @@ (99 :> "m99"), !.dns = (35 :> "pc") @@ (36 :> "docker")],
     [Quiet EXCEPT !.nmap = (33 :> [ports |-> {22, 23, 80, 139, 445}, mac |-> "", host |-> ""])
                              @@ (36 :> [ports |-> {1900, 9100}, mac |-> "m36", host |-> "printer"])
                              @@ (18 :> [ports |-> {22}, mac |-> "", host |-> ""]),
                   !.tcp = (33 :> {22, 80}) @@ (36 :> {9100}), !.dns = (33 :> "me")]}

Probe(ip, n) == <<"probe", "gateway", ip, n>>

GatewayDevice(ip, role, ports) ==
    [ip |-> ip, role |-> role, vendor |-> "", upnp |-> FALSE, ports |-> ports, http |-> {}, tls |-> {}, failed |-> {}, ev |-> {Probe(ip, 1)}, conf |-> 55]

Hop(ip, role) == [ip |-> ip, role |-> role, ev |-> <<"hop", "traceroute", ip, 0>>]

MCContexts ==
    {[gateway |-> 34, default |-> 34, hops |-> <<Hop(34, "default_gateway"), Hop(17, "upstream_private_gateway")>>, doubleNAT |-> TRUE, conf |-> 70,
      probes |-> <<"gateway_chain", "http_fingerprint">>,
      devices |-> {[GatewayDevice(17, "upstream_private_gateway", {80, 7547}) EXCEPT !.vendor = "isp", !.http = {[key |-> <<"/", 80>>, ev |-> Probe(17, 2)]}]},
      cpes |-> {[GatewayDevice(17, "possible_cpe", {80}) EXCEPT !.failed = {[key |-> <<"tr069", 7547>>, ev |-> Probe(17, 3)]}]}],
     [gateway |-> 100, default |-> None, hops |-> <<Hop(17, "upstream_private_gateway"), Hop(19, "upstream_private_gateway")>>, doubleNAT |-> FALSE, conf |-> 40,
      probes |-> <<"gateway_chain">>,
      devices |-> {GatewayDevice(100, "default_gateway", {443}), [GatewayDevice(17, "unknown", {}) EXCEPT !.upnp = TRUE]}, cpes |-> {}]}

Silent == [icmp |-> FALSE, ports |-> {}, pages |-> Nothing, certs |-> Nothing]

Pinged == [Silent EXCEPT !.icmp = TRUE]

Page(vendor, words, realm, denied) == [vendor |-> vendor, words |-> words, realm |-> realm, denied |-> denied]

Panel ==
    [icmp |-> TRUE, ports |-> {53, 80, 443, 7547, 9100}, pages |-> (80 :> Page("", {"admin"}, FALSE, FALSE)) @@ (443 :> Page("isp", {"modem"}, TRUE, TRUE)),
     certs |-> 443 :> Page("router", {}, FALSE, FALSE)]

Fibre == [Silent EXCEPT !.ports = {80, 8080}, !.pages = (80 :> Page("", {}, FALSE, TRUE)) @@ (8080 :> Page("router", {"ont"}, FALSE, FALSE))]

\* The upstream gateway answers one way, every other target another.
MCAnswers ==
    {[ip \in {17, 19, 33, 34, 100} |-> IF ip = 17 THEN pair[1] ELSE pair[2]]
        : pair \in {<<Silent, Silent>>, <<Panel, Silent>>, <<Fibre, Panel>>, <<Pinged, Fibre>>, <<Silent, Panel>>}}

Unseen == [os |-> "unknown", conf |-> 0]

MCMobiles == {[ip \in 0 .. 127 |-> Unseen], [ip \in 0 .. 127 |-> IF ip \in {17, 35} THEN [os |-> "android", conf |-> 77] ELSE Unseen]}
=============================================================================
