--------------------------- MODULE GatewayChain ---------------------------
(***************************************************************************)
(* Private gateways in front of the host: the chain of private hops, the   *)
(* gateway devices several probes describe, and the NAT topology concluded *)
(* from them.                                                              *)
(*                                                                         *)
(* A probe result is [name, ok, hints, ev]; ev is the evidence map, a      *)
(* function on the keys the probe set.                                     *)
(***************************************************************************)
EXTENDS AccessTypes

CONSTANTS Private   \* the addresses that are RFC 1918 private

ASSUME PrivateAssumption == Private \in SUBSET STRING /\ {"", "*"} \cap Private = {}

\* The typed getters: an absent key reads as the zero value.
Get(ev, key, zero) == IF key \in DOMAIN ev THEN ev[key] ELSE zero

Successful(results) == Those(results, {r \in ToSet(results) : r.ok})

-----------------------------------------------------------------------------
(* The chain of private hops.                                              *)

\* Hops that timed out are skipped, the first public hop ends the chain.
PrivateChain(hops, skipped) ==
    LET seen   == Those(hops, ToSet(hops) \ skipped)
        public == {i \in DOMAIN seen : seen[i] \notin Private}
    IN  AppendAllUnique(<<>>, IF public = {} THEN seen ELSE SubSeq(seen, 1, Min(public) - 1))

\* detectGatewayChain reads a traceroute without knowing the host's address.
DetectGatewayChain(hops) == PrivateChain(hops, {"*"})

ChainSource(source, hops, me, conf) ==
    LET chain == PrivateChain(hops, {"", "*", me})
    IN  IF chain = <<>> THEN <<>>
        ELSE << [source |-> source, chain |-> chain, double |-> Len(chain) >= 2, conf |-> conf] >>

SourceOf(r, gw, me) ==
    CASE r.name = "gateway_probe" ->
            ChainSource(r.name, <<FirstNonEmpty(Get(r.ev, "gateway", ""), gw)>>, me, MaxOf(r.conf, 35))
      [] r.name = "traceroute_probe" ->
            ChainSource(r.name, Get(r.ev, "hops", <<>>), me, MaxOf(r.conf, 65))
      [] r.name \in {"gateway_chain_probe", "upstream_private_cpe_probe"} ->
            ChainSource(r.name, Get(r.ev, "gateway_chain", <<>>), me, MaxOf(r.conf, 45))
      [] r.name = "stun_pcp_nat_probe" /\ "nat_topology" \in DOMAIN r.ev ->
            << [source |-> r.name, chain |-> <<>>,
                double |-> r.ev["nat_topology"].internal \/ r.ev["nat_topology"].double,
                conf |-> MaxOf(r.conf, Get(r.ev, "network_confidence", 0))] >>
      [] OTHER -> <<>>

GatewaySourceBetter(a, b) ==
    \/ a.source = "traceroute_probe" /\ Len(a.chain) >= Len(b.chain)
    \/ /\ ~(b.source = "traceroute_probe" /\ Len(b.chain) >= Len(a.chain))
       /\ \/ Len(a.chain) > Len(b.chain)
          \/ Len(a.chain) = Len(b.chain) /\ a.conf > b.conf

BestSource(chained) ==
    FoldLeft(LAMBDA b, s : IF GatewaySourceBetter(s, b) THEN s ELSE b, Head(chained), Tail(chained))

Conflict(field, severity, source) == [field |-> field, severity |-> severity, source |-> source]

\* Every source that tells another story than the chain chosen is kept as a conflict.
GatewayChainConflicts(sources, chain, double) ==
    LET told == {s \in ToSet(sources) : s.source \notin {"route_table", "gateway_probe"}}
    IN  {Conflict("gateway_chain_state.chain", "medium", s.source) :
            s \in {s \in told : s.chain # <<>> /\ chain # <<>> /\ s.chain # chain}}
        \cup
        {Conflict("gateway_chain_state.internal_double_nat_possible", "medium", s.source) :
            s \in {s \in told : s.source # "stun_pcp_nat_probe" /\ s.double # double}}

\* The route table first, then what the probes tell, in their order.
ChainSources(results, gw, me) ==
    LET ok == Successful(results)
    IN  (IF gw \in Private THEN ChainSource("route_table", <<gw>>, me, 40) ELSE <<>>)
        \o Flattened([i \in DOMAIN ok |-> SourceOf(ok[i], gw, me)])

ChainState(sources) ==
    LET chained == Those(sources, {s \in ToSet(sources) : s.chain # <<>>})
        best    == IF chained = <<>> THEN [chain |-> <<>>, conf |-> 0]
                   ELSE BestSource(chained)
        double  == \E s \in ToSet(sources) : s.double
    IN  [known     |-> sources # <<>>,
         chain     |-> best.chain,
         double    |-> double,
         conf      |-> Max({best.conf} \cup {s.conf : s \in {s \in ToSet(sources) : s.double}}),
         conflicts |-> GatewayChainConflicts(sources, best.chain, double)]

ResolveGatewayChainState(results, gw, me) == ChainState(ChainSources(results, gw, me))

-----------------------------------------------------------------------------
(* Gateway devices, merged by address. "observed" says that HTTP, TLS or a *)
(* port answered, access is the set of strengths of the access evidence;   *)
(* wantype, link and model are needles.                                    *)

GatewayRolePriority(role) ==
    CASE role \in {"possible_cpe", "possible_modem"} -> 5
      [] role = "upstream_private_gateway" -> 4
      [] role = "default_gateway" -> 3
      [] role = "local_router" -> 2
      [] role = "unknown" -> 1
      [] OTHER -> 0

NormalizeGatewayDevice(d) ==
    [d EXCEPT !.rstate = IF d.reachable THEN "true" ELSE IF @ = "" THEN "unknown" ELSE @,
              !.tr064  = IF @ # "" THEN @
                         ELSE IF "tr064" \in d.found THEN "found"
                         ELSE IF "auth" \in d.found THEN "auth_required" ELSE "not_found"]

MergeReachableState(a, b) ==
    IF "true" \in {a, b} THEN "true" ELSE IF "false" \in {a, b} THEN "false" ELSE "unknown"

\* firstNonEmpty, on the needles of a text.
FirstNeedles(a, b) == IF a # {} THEN a ELSE b

\* (Mutant: the first state stands.)
MergeStateFirst(a, b, found) == FirstNonEmpty(a, b)

MergeState(a, b, found) ==
    IF found THEN "found" ELSE IF a = "" THEN b
    ELSE IF b \in {"", "not_found", "not_probed"} THEN a ELSE b

\* The stronger role, every positive finding, the first name known, the best confidence.
MergeGatewayDevice(x, y) ==
    LET a == NormalizeGatewayDevice(x)
        b == NormalizeGatewayDevice(y)
        found == a.found \cup b.found
    IN  NormalizeGatewayDevice(
        [ip        |-> a.ip,
         role      |-> IF GatewayRolePriority(b.role) > GatewayRolePriority(a.role) THEN b.role ELSE a.role,
         reachable |-> a.reachable \/ b.reachable,
         rstate    |-> MergeReachableState(a.rstate, b.rstate),
         found     |-> found,
         tr064     |-> MergeState(a.tr064, b.tr064, "tr064" \in found),
         observed  |-> a.observed \/ b.observed,
         wantype   |-> FirstNeedles(a.wantype, b.wantype),
         link      |-> FirstNeedles(a.link, b.link),
         access    |-> a.access \cup b.access,
         model     |-> FirstNeedles(a.model, b.model),
         services  |-> a.services \cup b.services,
         hints     |-> AppendAllUnique(a.hints, b.hints),
         physhints |-> AppendAllUnique(a.physhints, b.physhints),
         devconf   |-> MaxOf(a.devconf, b.devconf),
         accconf   |-> MaxOf(a.accconf, b.accconf)])

MergeOneDevice(acc, d) ==
    LET at == {i \in DOMAIN acc : acc[i].ip = d.ip}
    IN  IF at = {} THEN Append(acc, NormalizeGatewayDevice(d))
        ELSE [acc EXCEPT ![Min(at)] = MergeGatewayDevice(@, d)]

MergeByAddress(devices) == FoldLeft(MergeOneDevice, <<>>, devices)

\* Devices without an address go behind the others as they are.
MergeGatewayDevices(devices) ==
    LET named == {d \in ToSet(devices) : d.ip # ""}
    IN  MergeByAddress(Those(devices, named)) \o Those(devices, ToSet(devices) \ named)

-----------------------------------------------------------------------------
(* NAT.                                                                    *)

NoNAT == [publicip |-> "", stunip |-> "", cgnat |-> FALSE, double |-> FALSE, internal |-> FALSE,
          control |-> FALSE, topology |-> ""]

HasUsefulNATContext(n) ==
    \/ n.publicip # "" \/ n.stunip # "" \/ n.cgnat \/ n.internal \/ n.double \/ n.control
    \/ n.topology \notin {"", "unknown"}

\* Every NAT signal of the bag reconciled into one topology.
ResolveNATTopology(nat, publicip, cgnat, double, globalIPv6) ==
    LET ip  == FirstNonEmpty(nat.publicip, publicip)
        cg  == nat.cgnat \/ cgnat
        int == double \/ nat.internal \/ nat.double
    IN  [nat EXCEPT !.publicip = ip, !.cgnat = cg, !.internal = int, !.double = int,
           !.topology = IF cg THEN "cgnat_possible"
                        ELSE IF globalIPv6 /\ int THEN "dual_stack_with_internal_double_nat"
                        ELSE IF globalIPv6 /\ ip # "" THEN "dual_stack_public_ipv4"
                        ELSE IF globalIPv6 THEN "ipv6_only_transition"
                        ELSE IF int /\ ip # "" THEN "internal_double_nat_public_ipv4"
                        ELSE IF ip # "" THEN "single_private_gateway_public_ipv4"
                        ELSE "unknown"]
=============================================================================
