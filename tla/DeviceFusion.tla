---------------------------- MODULE DeviceFusion ----------------------------
(***************************************************************************)
(* One device per identity from what the probes observed: the merge by MAC *)
(* and address, the classification from text and ports, the conflicts      *)
(* between observations and the confidence that is left.                   *)
(***************************************************************************)
EXTENDS FusionProbes

CONSTANTS
    Lexical        \* the identifiers in the order of sort.Slice

MaxOf(a, b) == IF b > a THEN b ELSE a
MinOf(a, b) == IF b < a THEN b ELSE a
ClampBand(v, low, high) == MinOf(MaxOf(v, low), high)

-----------------------------------------------------------------------------
(* Confidence.                                                             *)

HasOnlyWeakEvidence(ev) == \A e \in ev : e.strength \in {"weak", "none"}

\* (Mutant: an inferred device is not capped.)
TopologyDeviceConfidenceUncapped(d) == Max({d.conf} \cup {e.conf : e \in d.ev})

TopologyDeviceConfidence(d) ==
    LET best == Max({d.conf} \cup {e.conf : e \in d.ev})
        conf == CASE d.type = "managed_switch" -> MaxOf(best, 90)
                  [] d.type = "router" /\ "default_gateway" \in d.roles -> MaxOf(best, 65)
                  [] d.type = "inferred_switch" -> ClampBand(best, 45, 60)
                  [] d.type = "isp_hop" -> 50
                  [] d.type = "unknown" /\ best = 0 /\ HasOnlyWeakEvidence(d.ev) -> 35
                  [] OTHER -> best
    IN  IF d.inferred THEN MinOf(conf, 60) ELSE conf

-----------------------------------------------------------------------------
(* Classification.                                                         *)

\* The needles in the names of types and roles.
TypeWords(t) ==
    IF t \in {"switch", "managed_switch", "inferred_switch"} THEN {"switch"}
    ELSE {t} \cap {"router", "ont", "printer", "nas", "camera", "phone", "laptop", "desktop", "iot"}

RoleWords(r) ==
    CASE r \in {"default_gateway", "upstream_gateway"} -> {"gateway"}
      [] r = "switching_device" -> {"switch"}
      [] OTHER -> {}

DeviceText(d) ==
    TypeWords(d.type) \cup d.words \cup (UNION {RoleWords(r) : r \in d.roles}) \cup (UNION {e.words : e \in d.ev})

RouterConfidence(text) ==
    IF text \cap {"internetgatewaydevice", "wanipconnection", "wanpppconnection"} # {} THEN 85
    ELSE IF text \cap {"router", "gateway", "openwrt"} # {} THEN 75 ELSE 65

\* The cases of the switch after those that keep the type, the first that holds decides: one of
\* the roles, needles or ports, and the type, least confidence and roles that it gives.
Class(type, has, words, ports, floor, roles) ==
    [type |-> type, has |-> has, words |-> words, ports |-> ports, floor |-> floor, roles |-> roles]

Classes ==
    << Class("router", {"default_gateway"},
             {"internetgatewaydevice", "wanipconnection", "nat-pmp", "pcp", "default-gateway"}, {}, 65, {}),
       Class("managed_switch", {}, {"sysdescr", "bridge-mib", "lldp", "cdp", "forwarding-table", "switch"}, {},
             90, {"switching_device"}),
       Class("access_point", {"wifi_ap"}, {"bssid", "wireless-ap", "access-point", "802.11"}, {}, 85, {"wifi_ap"}),
       Class("ont", {}, {"ont", "gpon", "xgs-pon", "optical"}, {}, 80, {}),
       Class("modem", {}, {"docsis", "cable-modem", "dsl", "vdsl", "adsl"}, {}, 80, {}),
       Class("printer", {}, {"_ipp._tcp", "printer", "jetdirect", "port-9100"}, {631, 9100}, 75, {}),
       Class("nas", {}, {"synology", "qnap", "_smb._tcp", "nas"}, {445, 5000, 5001}, 72, {}),
       Class("camera", {}, {"rtsp", "onvif", "camera"}, {554}, 70, {}),
       Class("phone", {}, {"iphone", "android", "phone"}, {}, 55, {}),
       Class("laptop", {}, {"laptop", "macbook", "notebook"}, {}, 55, {}),
       Class("desktop", {}, {"desktop", "workstation"}, {}, 55, {}),
       Class("iot", {}, {"iot", "chromecast", "airplay", "smart"}, {}, 55, {}) >>

ClassesOf(d) ==
    {i \in DOMAIN Classes : \/ d.roles \cap Classes[i].has # {} \/ DeviceText(d) \cap Classes[i].words # {}
                            \/ d.ports \cap Classes[i].ports # {}}

ClassFloor(d, c) == IF c.type = "router" THEN RouterConfidence(DeviceText(d)) ELSE c.floor

Reclassified(d, type, roles, conf, inferred) ==
    [id |-> d.id, ips |-> d.ips, macs |-> d.macs, hosts |-> d.hosts, vendor |-> d.vendor, type |-> type, roles |-> roles,
     ports |-> d.ports, words |-> d.words, conf |-> conf, ev |-> d.ev, inferred |-> inferred]

\* The type, roles and confidence before the evidence is looked at.
Typed(d) ==
    LET hits == ClassesOf(d)
        c    == Classes[Min(hits)]
    IN  CASE d.type = "local_host" ->
                Reclassified(d, d.type, d.roles \cup {"local_host"}, MaxOf(d.conf, 85), d.inferred)
          [] d.type = "virtual_adapter" -> Reclassified(d, d.type, d.roles, ClampBand(d.conf, 70, 80), FALSE)
          [] d.type = "isp_hop" -> Reclassified(d, d.type, d.roles, 50, d.inferred)
          [] d.type = "inferred_switch" ->
                Reclassified(d, d.type, d.roles \cup {"switching_device"}, ClampBand(d.conf, 45, 60), TRUE)
          [] OTHER -> IF hits = {} THEN d
                      ELSE Reclassified(d, c.type, d.roles \cup c.roles, MaxOf(d.conf, ClassFloor(d, c)), d.inferred)

ClassifyDevice(d) ==
    LET t == Typed([d EXCEPT !.type = IF @ = "" THEN "unknown" ELSE @])
        w == IF t.type = "unknown" /\ HasOnlyWeakEvidence(t.ev) THEN [t EXCEPT !.conf = MaxOf(@, 35)] ELSE t
    IN  [w EXCEPT !.conf = TopologyDeviceConfidence(w)]

-----------------------------------------------------------------------------
(* MergeDevices.                                                           *)

HasPublicOnlyIPs(d) == d.ips # <<>> /\ ToSet(d.ips) \cap PrivateIP = {} /\ d.type # "isp_hop"

\* (Mutant: the address identifies a device before its MAC.)
MergeKeyByIP(d, known) ==
    LET ips  == Those(d.ips, {i \in ToSet(d.ips) : <<"ip", i>> \in DOMAIN known})
        macs == Those(d.macs, {m \in ToSet(d.macs) : <<"mac", m>> \in DOMAIN known})
    IN  CASE ips # <<>> -> known[<<"ip", ips[1]>>]
          [] ips = <<>> /\ macs # <<>> -> known[<<"mac", macs[1]>>]
          [] OTHER -> IF d.macs # <<>> THEN <<"mac", d.macs[1]>> ELSE IF d.ips # <<>> THEN <<"ip", d.ips[1]>> ELSE d.id

\* known maps the addresses and MACs of the devices so far to their keys.
MergeKey(d, known) ==
    LET ips  == Those(d.ips, {i \in ToSet(d.ips) : <<"ip", i>> \in DOMAIN known})
        macs == Those(d.macs, {m \in ToSet(d.macs) : <<"mac", m>> \in DOMAIN known})
    IN  CASE macs # <<>> -> known[<<"mac", macs[1]>>]
          [] macs = <<>> /\ ips # <<>> -> known[<<"ip", ips[1]>>]
          [] OTHER -> IF d.macs # <<>> THEN <<"mac", d.macs[1]>> ELSE IF d.ips # <<>> THEN <<"ip", d.ips[1]>> ELSE d.id

\* Of the records with one source, target and reason only the first is kept. The records of one
\* observation differ in them.
EvidenceKey(e) == <<e.src, e.target, e.reason>>

Unseen(kept, records) == {e \in records : \A f \in kept : EvidenceKey(f) # EvidenceKey(e)}

FirstRecords(q) == {q[i] : i \in {i \in DOMAIN q : \A j \in DOMAIN q : j < i => EvidenceKey(q[j]) # EvidenceKey(q[i])}}

MergeEvidence(existing, resultEv, own) ==
    LET kept == existing \cup Unseen(existing, FirstRecords(resultEv)) IN kept \cup Unseen(kept, own)

\* What is told by records is told by those kept.
Told(records, kept) == \A e \in records : \E f \in kept : EvidenceKey(f) = EvidenceKey(e)

\* The first observation of a device: all evidence of its probe's result becomes its own.
FirstSeen(d, resultEv) ==
    LET new == [id |-> d.id, ips |-> ToSet(d.ips), macs |-> ToSet(d.macs), hosts |-> d.hosts, vendor |-> d.vendor,
                type |-> d.type, roles |-> d.roles, ports |-> d.ports, words |-> d.words, conf |-> d.conf,
                ev |-> MergeEvidence({}, resultEv, d.ev), inferred |-> d.inferred]
    IN  [new EXCEPT !.conf = TopologyDeviceConfidence(new)]

\* (Mutant: the names of a known device are replaced, not merged.)
MergeIntoDeviceReplaces(dst, src, resultEv) == [FirstSeen(src, resultEv) EXCEPT !.id = dst.id]

MergeIntoDevice(dst, src, resultEv) ==
    LET new == [id |-> dst.id, ips |-> dst.ips \cup ToSet(src.ips), macs |-> dst.macs \cup ToSet(src.macs),
                hosts |-> dst.hosts \cup src.hosts,
                vendor |-> IF dst.vendor = "" THEN src.vendor ELSE dst.vendor,
                type |-> IF src.type # "" /\ (dst.type \in {"", "unknown"} \/ src.conf > dst.conf)
                         THEN src.type ELSE dst.type,
                roles |-> dst.roles \cup src.roles, ports |-> dst.ports \cup src.ports,
                words |-> dst.words \cup src.words, conf |-> dst.conf,
                ev |-> MergeEvidence(dst.ev, resultEv, src.ev), inferred |-> dst.inferred \/ src.inferred]
    IN  [new EXCEPT !.conf = TopologyDeviceConfidence(new)]

\* One observation: acc is [byKey, known].
MergeOne(acc, d, resultEv) ==
    IF HasPublicOnlyIPs(d) THEN acc
    ELSE LET key  == MergeKey(d, acc.known)
             dst  == IF key \in DOMAIN acc.byKey THEN MergeIntoDevice(acc.byKey[key], d, resultEv)
                     ELSE FirstSeen(d, resultEv)
             mine == {<<"ip", i>> : i \in dst.ips} \cup {<<"mac", m>> : m \in dst.macs}
         IN  [byKey |-> [k \in DOMAIN acc.byKey \cup {key} |-> IF k = key THEN dst ELSE acc.byKey[k]],
              known |-> [n \in DOMAIN acc.known \cup mine |-> IF n \in mine THEN key ELSE acc.known[n]]]

MergeResult(acc, r) == FoldLeft(LAMBDA a, d : MergeOne(a, d, r.ev), acc, r.devices)

NothingMerged == [byKey |-> <<>>, known |-> <<>>]

MergeAll(results) == FoldLeft(MergeResult, NothingMerged, results)

\* sort.Slice by identifier; devices with the same one come in any order.
ById(ds) == FoldLeft(LAMBDA s, id : s \o SetToSeq({d \in ds : d.id = id}), <<>>, Lexical)

MergeDevices(results) ==
    LET byKey == MergeAll(results).byKey IN ById({ClassifyDevice(byKey[k]) : k \in DOMAIN byKey})

-----------------------------------------------------------------------------
(* DetectConflicts, in the order in which they are appended. A conflict is  *)
(* [type, severity, devs, about]; no devs means that it concerns everyone. *)

Conflict(type, severity, devs, about) == [type |-> type, severity |-> severity, devs |-> devs, about |-> about]

IPMACConflicts(ds) ==
    LET at(ip)   == {d \in ds : ip \in d.ips}
        of(mac)  == {d \in ds : mac \in d.macs}
        ips  == {ip \in UNION {d.ips : d \in ds} : Cardinality(UNION {d.macs : d \in at(ip)}) > 1}
        macs == {mac \in UNION {d.macs : d \in ds} : Cardinality(UNION {d.ips : d \in of(mac)}) > 1}
    IN  SetToSeq({Conflict("same_ip_different_macs", "high", {d.id : d \in {d \in at(ip) : d.macs # {}}}, ip) : ip \in ips})
        \o SetToSeq({Conflict("same_mac_multiple_ips", "low", {d.id : d \in {d \in of(mac) : d.ips # {}}}, mac) : mac \in macs})

HostnameConflicts(ds) ==
    SetToSeq({Conflict("hostname_mismatch", "low", {d.id}, "") : d \in {d \in ds : Cardinality(d.hosts) > 1}})

DeviceTypeConflicts(ds) ==
    LET says(d, words) == DeviceText(d) \cap words # {}
    IN  SetToSeq({Conflict("router_printer_type_conflict", "medium", {d.id}, "") :
                    d \in {d \in ds : d.type = "router" /\ says(d, {"printer", "_ipp._tcp"})}}
                 \cup {Conflict("snmp_switch_http_router_conflict", "medium", {d.id}, "") :
                    d \in {d \in ds : says(d, {"sysdescr", "switch", "bridge-mib"})
                                      /\ says(d, {"router", "internetgatewaydevice"})}})

\* The last gateway and the last access point of the list are compared.
WiFiGatewayVendorConflict(devices) ==
    LET gws == SelectSeq(devices, LAMBDA d : "default_gateway" \in d.roles)
        aps == SelectSeq(devices, LAMBDA d : d.type = "access_point" \/ "wifi_ap" \in d.roles)
    IN  IF gws = <<>> \/ aps = <<>> THEN <<>>
        ELSE IF "" \in {Last(gws).vendor, Last(aps).vendor} \/ Last(gws).vendor = Last(aps).vendor THEN <<>>
        ELSE <<Conflict("wifi_bssid_vendor_differs_from_gateway_vendor", "low", {Last(gws).id, Last(aps).id}, "")>>

\* Reachability that changes from one evidence of a gateway to its next, and chains that differ.
ProbeConflicts(results) ==
    LET ev      == FoldLeft(LAMBDA s, r : s \o r.ev, <<>>, results)
        told    == Those(ev, {e \in ToSet(ev) : e.reach # ""})
        changes == {j \in DOMAIN told : \E i \in 1..(j - 1) :
                       /\ told[i].target = told[j].target /\ told[i].reach # told[j].reach
                       /\ \A k \in (i + 1)..(j - 1) : told[k].target # told[i].target}
    IN  SetToSeq({Conflict("default_gateway_unreachable_but_http_reachable", "medium", {<<"ip", told[j].target>>}, j) :
                    j \in changes})
        \o IF Cardinality({e.chain : e \in ToSet(ev)} \ {""}) > 1
           THEN <<Conflict("gateway_chain_differs_between_probes", "medium", {}, "")>> ELSE <<>>

PublicAndVirtualConflicts(ds) ==
    SetToSeq((UNION {{Conflict("public_ip_classified_as_local_device", "high", {d.id}, ip) : ip \in d.ips \ PrivateIP} :
                       d \in {d \in ds : d.type # "isp_hop"}})
             \cup {Conflict("virtual_adapter_mistaken_as_physical_upstream", "high", {d.id}, "") :
                       d \in {d \in ds : d.type = "virtual_adapter" /\ "upstream_gateway" \in d.roles}})

DetectConflicts(devices, results) ==
    LET ds == ToSet(devices)
    IN  IPMACConflicts(ds) \o HostnameConflicts(ds) \o DeviceTypeConflicts(ds)
        \o WiFiGatewayVendorConflict(devices) \o ProbeConflicts(results) \o PublicAndVirtualConflicts(ds)

\* (Mutant: a high conflict costs as much as a medium one.)
DowngradeForConflictsFlat(conf, conflicts, id) ==
    MaxOf(0, conf - 10 * Len(SelectSeq(conflicts, LAMBDA c : c.devs = {} \/ id \in c.devs)))

DowngradeForConflicts(conf, conflicts, id) ==
    LET mine == Those(conflicts, {c \in ToSet(conflicts) : c.devs = {} \/ id \in c.devs})
    IN  MaxOf(0, FoldLeft(LAMBDA v, c : CASE c.severity = "high" -> MinOf(v, 45)
                                          [] c.severity = "medium" -> v - 10
                                          [] c.severity = "low" -> v - 5, conf, mine))
=============================================================================
