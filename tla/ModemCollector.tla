--------------------------- MODULE ModemCollector ---------------------------
(***************************************************************************)
(* The list of CPE candidates a report carries: package modemcollector,    *)
(* built from the network context after the verdict is published.          *)
(***************************************************************************)
EXTENDS ProbeEvidence

RolePriority(role) ==
    CASE role \in {"possible_cpe", "possible_modem", "possible_modem_or_ont"} -> 5
      [] role \in {"upstream_private_gateway", "internet_gateway_device", "cpe_management_endpoint"} -> 4
      [] role = "default_gateway" -> 3
      [] OTHER -> 1

RoleFromEvidence(d) ==
    IF d.found \cap {"tr064", "auth"} # {} THEN "cpe_management_endpoint"
    ELSE IF d.found \cap {"igd", "wancommon"} # {} THEN "internet_gateway_device"
    ELSE IF d.model # {} \/ d.hints # <<>> THEN "possible_modem_or_ont"
    ELSE "possible_cpe"

\* The collector normalises again, with states of its own: a feature is true or unknown.
NormalizeDevice(d) ==
    [d EXCEPT !.rstate = IF d.reachable THEN "true" ELSE IF @ = "" THEN "unknown" ELSE @,
              !.tr064  = IF @ # "" THEN @
                         ELSE IF "tr064" \in d.found THEN "true"
                         ELSE IF "auth" \in d.found THEN "auth_required" ELSE "unknown"]

MergeFeatureState(a, b, found) ==
    IF found \/ {a, b} \cap {"true", "found"} # {} THEN "true"
    ELSE IF "false" \in {a, b} THEN "false"
    ELSE "unknown"

MergeDevice(x, y) ==
    LET a == NormalizeDevice(x)
        b == NormalizeDevice(y)
        found == a.found \cup b.found
    IN  NormalizeDevice(
        [ip        |-> a.ip,
         role      |-> IF RolePriority(b.role) > RolePriority(a.role) THEN b.role ELSE a.role,
         reachable |-> a.reachable \/ b.reachable,
         rstate    |-> MergeReachableState(a.rstate, b.rstate),
         found     |-> found,
         tr064     |-> MergeFeatureState(a.tr064, b.tr064, "tr064" \in found),
         observed  |-> a.observed \/ b.observed,
         wantype   |-> FirstNeedles(a.wantype, b.wantype),
         link      |-> FirstNeedles(a.link, b.link),
         access    |-> a.access \cup b.access,
         model     |-> FirstNeedles(a.model, b.model),
         services  |-> a.services \cup b.services,
         hints     |-> AppendAllUnique(a.hints, b.hints),
         physhints |-> AppendAllUnique(a.physhints, b.physhints),
         devconf   |-> MaxOf(a.devconf, b.devconf),
         accconf   |-> MaxOf(a.accconf, b.accconf)])

\* (Mutant: the first description of an address stands.)
StoreDeviceFirst(store, d) ==
    IF \E i \in DOMAIN store : store[i].ip = d.ip THEN store ELSE Append(store, NormalizeDevice(d))

\* EvidenceStore.MergeDevice: one entry per address, in order of first sight.
StoreDevice(store, d) ==
    LET at == {i \in DOMAIN store : store[i].ip = d.ip}
    IN  IF at = {} THEN Append(store, NormalizeDevice(d))
        ELSE [store EXCEPT ![Min(at)] = MergeDevice(@, d)]

StoreDevices(devices) == FoldLeft(StoreDevice, <<>>, devices)

Hop(ip, role, conf) ==
    [ip |-> ip, role |-> role, reachable |-> FALSE, rstate |-> "unknown", found |-> {}, tr064 |-> "", observed |-> FALSE,
     wantype |-> {}, link |-> {}, access |-> {}, model |-> {}, services |-> {}, hints |-> <<>>, physhints |-> <<>>,
     devconf |-> conf, accconf |-> 0]

\* Private addresses only, the host too; the gateway, the hops, then the devices.
CollectDevices(bag) ==
    LET hops  == [i \in DOMAIN bag.hops |->
                     Hop(bag.hops[i], IF i = 1 THEN "default_gateway" ELSE "upstream_private_gateway", bag.hopconf)]
        roled == [i \in DOMAIN bag.devices |->
                     [bag.devices[i] EXCEPT !.role = FirstNonEmpty(@, RoleFromEvidence(bag.devices[i]))]]
        seen  == <<Hop(bag.gateway, "default_gateway", 40)>> \o hops \o roled
    IN  StoreDevices(Those(seen, {d \in ToSet(seen) : d.ip \in Private}))

PriorityForDevice(d) ==
    CASE d.role \in {"upstream_private_gateway", "possible_cpe", "possible_modem", "possible_modem_or_ont",
                     "cpe_management_endpoint"} -> 3
      [] d.role = "default_gateway" -> 2
      [] OTHER -> 1

PhysicalEvidenceStatus(d) ==
    IF \/ "wancommon" \in d.found /\ d.wantype # {}
       \/ d.access \cap {"physical", "strong"} # {}
       \/ d.physhints # <<>>
    THEN "present" ELSE "missing"

\* An unknown state yields to anything that was observed.
CandidateReachable(d) == IF d.rstate = "unknown" /\ (d.observed \/ d.reachable) THEN "true" ELSE d.rstate

CandidateFromDevice(d) ==
    [ip |-> d.ip, role |-> d.role, priority |-> PriorityForDevice(d), reachable |-> CandidateReachable(d),
     tr064 |-> IF "auth" \in d.found THEN "locked" ELSE IF d.services # {} THEN "accessible" ELSE "unknown",
     physical |-> PhysicalEvidenceStatus(d)]

NATState(bag) ==
    [cgnat  |-> IF bag.cgnat \/ bag.nat.cgnat THEN "true" ELSE "unknown",
     double |-> IF bag.double \/ bag.nat.double THEN "true" ELSE "unknown"]

\* The store lists its devices by role.
StoreList(store) == StableSort(store, [d \in ToSet(store) |-> RolePriority(d.role)])

\* The collection orders by priority, and then by role.
SortCandidates(cs) == StableSort(cs, [c \in ToSet(cs) |-> 10 * c.priority + RolePriority(c.role)])

Collect(bag) ==
    LET devices == StoreList(CollectDevices(bag))
    IN  [nat        |-> NATState(bag),
         candidates |-> SortCandidates([i \in DOMAIN devices |-> CandidateFromDevice(devices[i])])]
=============================================================================
