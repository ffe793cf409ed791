--------------------------- MODULE MCLiveRegistry ---------------------------
(***************************************************************************)
(* Two addresses, the first with evidence of every sort: two names, two    *)
(* vendors, a randomised address and one with a vendor's prefix, domains   *)
(* of both families and of none, mDNS, a user agent, ports that count      *)
(* alone and ports that count beside other evidence.                       *)
(***************************************************************************)
EXTENDS LiveRegistry

CONSTANTS ip1, ip2

Told(kind, text) == [Nameless EXCEPT !.kind = kind, !.text = text]
Port(kind, proto, port) == [Told(kind, {"other"}) EXCEPT !.proto = proto, !.port = port]

IPhone  == Told({"dhcp"}, {"iphone"})
Domains == {Told({"dns"}, {d}) : d \in {"icloud.com", "apple.com", "gstatic.com", "other"}}
Random  == [Told({"mac", "arp"}, {"other"}) EXCEPT !.addr = "local"]
Prefix  == [Told({"arp"}, {"apple"}) EXCEPT !.addr = "global"]

Items ==
    {IPhone, Told({"hostname", "netbios"}, {"galaxy", "tab"}), Random, Prefix,
     Told({"oui", "vendor"}, {"apple"}), Told({"oui", "vendor"}, {"samsung"}),
     Told({"mdns", "dns"}, {"googlecast"}), Told({"http"}, {"android"}),
     Port({"service", "port"}, "tcp", 7000), Port({"tcp"}, "tcp", 5223)}

\* icmp_ping and tcp_connect; the value is the address, which holds no port.
MCPings == {<<Told({}, {"other"}), 2>>, <<Told({"tcp"}, {"other"}), 2>>}

MCEvidenceKey == Items \cup {Sanitized(d) : d \in {x \in Domains : Accepted(x)}} \cup {p[1] : p \in MCPings}

MCSightings == {<<ip1, item, 2>> : item \in Items \cup Domains} \cup {<<ip1, IPhone, 1>>}
=============================================================================
