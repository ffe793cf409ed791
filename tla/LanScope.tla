------------------------------ MODULE LanScope ------------------------------
(***************************************************************************)
(* The safety boundary of iad-agent's scan: which interface it starts from *)
(* and which network it may sweep. IPv4 addresses are the numbers below    *)
(* 2^Bits; None stands for the empty string. An IPv6 scope is reported but *)
(* never swept, so only its being private matters.                         *)
(***************************************************************************)
EXTENDS FiniteSets, FiniteSetsExt, Slices

CONSTANTS
    Bits,            \* width of an address (32)
    MaxScanHosts,    \* the largest scope (65536)
    SoftWarnHosts,   \* scopes above this one warn (1024)
    PrivateBlocks,   \* the networks isPrivateIP knows: private, loopback, link-local unicast and multicast, [base, len, linkLocal]
    Private6         \* the private IPv6 addresses among those requested

\* The limit is a power of two that leaves room for a network with two hosts.
ASSUME LimitAssumption == Bits \in Nat /\ \E k \in 2 .. Bits : MaxScanHosts = 2 ^ k

\* The private networks are CIDR blocks.
ASSUME BlocksAssumption ==
    \A b \in PrivateBlocks : b.base \in Nat /\ b.len \in 0 .. Bits /\ b.base % 2 ^ (Bits - b.len) = 0

None == -1

NoNet == [v6 |-> FALSE, base |-> None, len |-> Bits]

\* What net.ParseCIDR accepts. An IPv6 network is told apart, its size is never used.
Nets == {n \in [v6 : BOOLEAN, base : Int, len : 0 .. Bits] : n = NoNet \/ n.v6 \/ n.base >= 0}

Network(base, len) == [v6 |-> FALSE, base |-> base, len |-> len]

Size(net) == 2 ^ (Bits - net.len)

\* net.ParseCIDR keeps the network of the address it was given.
ParseCIDR(net) == IF net.v6 THEN net ELSE [net EXCEPT !.base = @ - (@ % Size(net))]

NetContains(net, ip) == ~net.v6 /\ net # NoNet /\ ip \in net.base .. (net.base + Size(net) - 1)

BlocksOf(ip) == {b \in PrivateBlocks : ip \in b.base .. (b.base + 2 ^ (Bits - b.len) - 1)}

IsPrivateIP(ip) == BlocksOf(ip) # {}

IsLinkLocal(ip) == \E b \in BlocksOf(ip) : b.linkLocal

\* Network and broadcast addresses are not hosts, except in the two smallest networks.
HostCount(len) ==
    LET hostBits == Bits - len
    IN  IF hostBits <= 1 THEN 2 ^ hostBits
        ELSE IF hostBits >= Bits - 1 THEN MaxScanHosts + 1 ELSE 2 ^ hostBits - 2

Scope(requested, net, public) ==
    [auto |-> requested = NoNet, net |-> net, public |-> public,
     hosts |-> IF net.v6 THEN 0 ELSE HostCount(net.len),
     private |-> IF net.v6 THEN net.base \in Private6 ELSE IsPrivateIP(net.base)]

Refused == [err |-> TRUE, scope |-> Scope(NoNet, Network(0, Bits), FALSE), warnings |-> {}]

Accepted(scope, warnings) == [err |-> FALSE, scope |-> scope, warnings |-> warnings]

\* Without the limit, a network that starts in a private block may end outside it.
ParseScopeUnlimited(requested, public, primary) ==
    LET asked == IF requested = NoNet THEN primary.net ELSE requested
        scope == Scope(requested, ParseCIDR(asked), public)
    IN  IF asked = NoNet \/ (~scope.private /\ ~public) THEN Refused ELSE Accepted(scope, {})

\* requested is NoNet for "auto": the network of the selected interface.
ParseScope(requested, public, primary) ==
    LET asked == IF requested = NoNet THEN primary.net ELSE requested
        scope == Scope(requested, ParseCIDR(asked), public)
        danger == IF public /\ (scope.net.v6 \/ ~scope.private) THEN {"public_scope_enabled"} ELSE {}
        size == IF scope.net.v6 THEN {"ipv6_scope_unsupported"}
                ELSE IF scope.hosts > SoftWarnHosts THEN {"large_scope"} ELSE {}
    IN  IF asked = NoNet \/ (~scope.private /\ ~public) \/ scope.hosts > MaxScanHosts
        THEN Refused ELSE Accepted(scope, danger \cup size)

HostsInScope(scope) ==
    IF scope.net.v6 \/ Size(scope.net) > MaxScanHosts THEN {}
    ELSE LET all == scope.net.base .. (scope.net.base + Size(scope.net) - 1)
         IN  IF Bits - scope.net.len >= 2 THEN all \ {Min(all), Max(all)} ELSE all

InScope(scope, ip) == NetContains(scope.net, ip)

-----------------------------------------------------------------------------
(* Interfaces: [name, mac, up, loopback, virtual, net, ips].               *)

Routable(ifc) == \E ip \in ToSet(ifc.ips) : IsPrivateIP(ip) /\ ~IsLinkLocal(ip)

Score(ifc, gateway) ==
    (IF Routable(ifc) THEN 4 ELSE IF \E ip \in ToSet(ifc.ips) : IsLinkLocal(ip) THEN 1 ELSE 0)
        + (IF gateway # None /\ NetContains(ifc.net, gateway) THEN 10 ELSE 0)

NoInterface == [name |-> "", mac |-> "", up |-> FALSE, loopback |-> FALSE, virtual |-> FALSE, net |-> NoNet, ips |-> <<>>]

\* The first of the best; NoInterface when none qualifies.
SelectPrimary(ifaces, gateway, includeVirtual) ==
    LET usable == {i \in DOMAIN ifaces : /\ ifaces[i].up /\ ~ifaces[i].loopback
                                         /\ ifaces[i].virtual => includeVirtual
                                         /\ ifaces[i].net # NoNet}
        best == {i \in usable : \A j \in usable : Score(ifaces[i], gateway) >= Score(ifaces[j], gateway)}
    IN  IF usable = {} THEN NoInterface ELSE ifaces[Min(best)]

FindByName(ifaces, name) ==
    LET hits == {i \in DOMAIN ifaces : ifaces[i].name = name}
    IN  IF hits = {} THEN NoInterface ELSE ifaces[Min(hits)]

\* Addresses sort like their text here; the model's numbers keep that order.
PrimaryIPv4(ifc) ==
    LET private == {ip \in ToSet(ifc.ips) : IsPrivateIP(ip)}
    IN  IF private = {} THEN None ELSE Min(private)
=============================================================================
