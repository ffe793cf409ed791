----------------------------- MODULE ScanFusion -----------------------------
(***************************************************************************)
(* One LAN scan of cmd/agent: the runner collects the result of every      *)
(* probe the mode allows, in the registered order whatever order they      *)
(* finished in, and BuildScanOutput fuses them.                            *)
(***************************************************************************)
EXTENDS FusionTopology

CONSTANTS
    Reports(_)     \* the results a probe can have besides an empty one

\* What the probes of some mode may report.
Reported == UNION {UNION {Reports(ProbesOf(m)[i]) : i \in 1..Len(ProbesOf(m))} : m \in ToSet(Modes)}
Observations == UNION {ToSet(r.devices) : r \in Reported}

ReportsAssumption ==
    /\ Reported \subseteq ProbeResult
    /\ \A o \in Observations : IsFiniteSet(o.ev)

\* An adapter tells at most one MAC address of a device, and gives two records the same
\* identifier only if they share an address or have none.
ObservationAssumption ==
    /\ \A o \in Observations : Len(o.macs) <= 1
    /\ \A o, p \in Observations : o.id = p.id =>
        \/ ToSet(o.ips) \cap ToSet(p.ips) # {} \/ ToSet(o.macs) \cap ToSet(p.macs) # {}
        \/ o.ips = <<>> /\ p.ips = <<>> /\ o.macs = <<>> /\ p.macs = <<>>

LexicalAssumption ==
    /\ Lexical \in Seq(Ids) /\ IsInjective(Lexical)
    /\ {o.id : o \in Observations} \subseteq ToSet(Lexical)

ASSUME ReportsAssumption
ASSUME ObservationAssumption
ASSUME LexicalAssumption

VARIABLES
    mode,          \* the scan mode
    results,       \* the results so far
    stage,         \* "probing", "merged", "built"
    devices,       \* the fused devices
    conflicts,     \* what DetectConflicts found
    topology,      \* nodes and edges
    output         \* path, summary, suggestions and the graph drawn

vars == <<mode, results, stage, devices, conflicts, topology, output>>

NoTopology == [nodes |-> <<>>, edges |-> {}]

Init ==
    /\ mode \in ToSet(Modes)
    /\ results = <<>>
    /\ stage = "probing"
    /\ devices = <<>> /\ conflicts = <<>>
    /\ topology = NoTopology
    /\ output = [summary |-> Summarize(<<>>)]

\* A probe that fails, is skipped or is cancelled while it waits reports nothing.
ProbeReports ==
    /\ stage = "probing" /\ Len(results) < Len(ProbesOf(mode))
    /\ \E r \in Reports(ProbesOf(mode)[Len(results) + 1]) \cup {Skipped} : results' = Append(results, r)
    /\ UNCHANGED <<mode, stage, devices, conflicts, topology, output>>

\* A scope or target that is not private is refused before any probe runs.
RefuseScope ==
    /\ stage = "probing" /\ results = <<>>
    /\ results' = <<Skipped>>
    /\ stage' = "refused"
    /\ UNCHANGED <<mode, devices, conflicts, topology, output>>

Merge ==
    /\ \/ stage = "probing" /\ Len(results) = Len(ProbesOf(mode))
       \/ stage = "refused"
    /\ devices' = MergeDevices(results)
    /\ conflicts' = DetectConflicts(devices', results)
    /\ stage' = "merged"
    /\ UNCHANGED <<mode, results, topology, output>>

\* The rest of BuildScanOutput: downgrade, evidence, topology, path, summary, suggestions.
Build ==
    /\ stage = "merged"
    /\ devices' = MapSeq(devices, LAMBDA d : [d EXCEPT !.conf = DowngradeForConflicts(@, conflicts, d.id)])
    /\ topology' = BuildTopology(devices', CollectEvidence(results, devices'))
    /\ output' = [summary |-> Summarize(devices'), isp |-> BuildISPPath(results),
                  next |-> NextBestProbes(devices', topology'.edges, conflicts, mode),
                  local |-> FindLocalHost(devices'), warned |-> conflicts # <<>>,
                  graph |-> GraphAdapter(topology')]
    /\ stage' = "built"
    /\ UNCHANGED <<mode, results, conflicts>>

Next == ProbeReports \/ RefuseScope \/ Merge \/ Build

Spec == Init /\ [][Next]_vars

-----------------------------------------------------------------------------
Merged == stage = "merged"
Built  == stage = "built"

Seen == UNION {ToSet(r.devices) : r \in ToSet(results)}

\* "Merge by MAC": whatever order observations come in and whichever addresses they share,
\* no two fused devices carry one MAC address or one identifier.
OneDevicePerMAC ==
    Merged => \A i, j \in DOMAIN devices : i # j => devices[i].macs \cap devices[j].macs = {} /\ devices[i].id # devices[j].id

\* An observation that is not of a foreign public address is found again whole in a single
\* fused device: its addresses, MAC, names, roles and ports, and for each record of its evidence
\* the one kept of that source, target and reason.
NothingObservedIsLost ==
    Merged => \A o \in Seen : ~HasPublicOnlyIPs(o) =>
        \E d \in ToSet(devices) :
            /\ ToSet(o.ips) \subseteq d.ips /\ ToSet(o.macs) \subseteq d.macs /\ o.hosts \subseteq d.hosts
            /\ o.roles \subseteq d.roles /\ o.ports \subseteq d.ports /\ Told(o.ev, d.ev)

\* A public address never makes a confident LAN device: whoever carries one is a hop of
\* the provider's, or is listed with at most 45 percent and a conflict that says so.
PublicNeverConfident ==
    Built => \A d \in ToSet(devices) : ~(d.ips \subseteq PrivateIP) =>
        \/ d.type = "isp_hop"
        \/ d.conf <= 45 /\ \E c \in ToSet(conflicts) : c.severity = "high" /\ d.id \in c.devs

\* BuildTopology classifies every device again, from a device that has been classified:
\* the node it draws has the type the device list gives.
ClassificationStable ==
    Built => \A i \in DOMAIN devices :
        topology.nodes[i].id = devices[i].id /\ topology.nodes[i].type = devices[i].type

\* The interface draws a solid line only where something was observed: a Wi-Fi link the
\* operating system reported, or a neighbour named by evidence that proves links.
SolidEdgesProven ==
    Built => \A g \in output.graph.edges : g.style = "solid" =>
        \E e \in topology.edges : /\ EdgeId(e) = g.id
                                  /\ e.rel = "wifi_link" \/ \E p \in e.ev : p.link # <<>> /\ Proven(p)

\* An inferred device or edge never reaches more than 60 percent, through the merge, two
\* classifications and the drawing.
InferenceStaysWeak ==
    Built => /\ \A n \in ToSet(topology.nodes) : n.inferred => n.conf <= 60
             /\ \A e \in topology.edges : e.inferred => e.conf <= 60

=============================================================================
