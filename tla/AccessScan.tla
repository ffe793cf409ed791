---------------------------- MODULE AccessScan ----------------------------
(***************************************************************************)
(* One classification: the probes report slot by slot in the registered    *)
(* order, then Engine.Analyze merges, scores, decides and publishes.       *)
(***************************************************************************)
EXTENDS AccessEngine, ModemCollector

CONSTANTS
    Slots,       \* the probes in registration order
    Outcome(_)   \* the results a probe can have: [hints, conf, ev] records

\* GatewayChainProbe runs once; the probes that add to its devices are registered behind it.
ASSUME SlotsAssumption ==
    /\ Slots \in Seq(STRING)
    /\ \A i, j \in DOMAIN Slots :
          Slots[j] = "gateway_chain_probe" /\ i < j => Slots[i] \notin DeviceProbes \cup {"gateway_chain_probe"}

\* A gateway device as the probes describe it: its address is one of the private gateways,
\* nothing but an answer makes its state "true", and who finds TR-064 leaves the state of it open.
Devices ==
    {d \in [ip : Private, role : STRING, reachable : BOOLEAN, rstate : {"", "unknown", "false", "true"},
            found : SUBSET STRING, tr064 : STRING, observed : BOOLEAN, wantype : SUBSET STRING, link : SUBSET STRING,
            access : SUBSET STRING, model : SUBSET STRING, services : SUBSET STRING, hints : Seq(STRING),
            physhints : Seq(STRING), devconf : Nat, accconf : Nat] :
        /\ d.rstate = "true" => d.reachable
        /\ "tr064" \in d.found => d.tr064 = ""}

NATs ==
    [publicip : STRING, stunip : STRING, cgnat : BOOLEAN, double : BOOLEAN, internal : BOOLEAN,
     control : BOOLEAN, topology : STRING]

\* The keys that only some probes set, and what is stored under a key.
SetBy(key) ==
    CASE key = "hops"                 -> {"traceroute_probe"}
      [] key = "gateway_chain"        -> {"gateway_chain_probe", "upstream_private_cpe_probe"}
      [] key = "gateway_devices"      -> {"gateway_chain_probe"} \cup DeviceProbes
      [] key = "nat_topology"         -> {"stun_pcp_nat_probe"}
      [] OTHER                        -> STRING

ValuesOf(key) ==
    CASE key \in {"hops", "gateway_chain"} -> Seq(STRING)
      [] key = "gateway_devices"      -> Seq(Devices)
      [] key = "nat_topology"         -> NATs
      [] key = "wan_signals"          -> Seq([text : SUBSET STRING, named : BOOLEAN, strong : BOOLEAN, conf : Nat])
      [] key \in {"access_confidence", "device_confidence", "network_confidence", "performance_confidence", "avg_ms"} -> Nat
      [] key \in {"gateway", "gateway_ip", "ip", "public_ip"} -> STRING
      [] key \in {"cgnat", "double_nat_possible", "double_nat", "management_reachable"} -> BOOLEAN

TypedKeys ==
    {"hops", "gateway_chain", "gateway_devices", "nat_topology", "wan_signals", "access_confidence", "device_confidence",
     "network_confidence", "performance_confidence", "avg_ms", "gateway", "gateway_ip", "ip", "public_ip", "cgnat",
     "double_nat_possible", "double_nat", "management_reachable"}

\* What a probe reports: the types of its evidence, and whose evidence it is.
Reported(n, o) ==
    /\ o.hints \in Seq(STRING) /\ o.conf \in Nat
    /\ \A key \in TypedKeys \cap DOMAIN o.ev : o.ev[key] \in ValuesOf(key) /\ n \in SetBy(key)

ASSUME OutcomeAssumption == \A i \in DOMAIN Slots : \A o \in Outcome(Slots[i]) : Reported(Slots[i], o)

VARIABLES
    results,     \* what the runner collected so far, one entry per slot
    stage,       \* what Analyze has done
    bag,         \* the evidence bag
    board,       \* the points of every key
    verdict,     \* the decision
    report,      \* the published contract
    collection   \* the modem collection attached to it

vars == <<results, stage, bag, board, verdict, report, collection>>

None == [primary |-> ""]

Init ==
    /\ results = <<>>
    /\ stage = "probing"
    /\ bag = NoEvidence
    /\ board = <<>>
    /\ verdict = None
    /\ report = None
    /\ collection = None

\* A probe fills its slot: a result, or a failure (error, panic, timeout, nil).
ProbeReports ==
    /\ Len(results) < Len(Slots)
    /\ LET n == Slots[Len(results) + 1]
       IN  \/ \E o \in Outcome(n) :
                results' = Append(results, [name |-> n, ok |-> TRUE, hints |-> o.hints, conf |-> o.conf, ev |-> o.ev])
           \/ results' = Append(results, [name |-> n, ok |-> FALSE, hints |-> <<>>, conf |-> 0, ev |-> <<>>])
    /\ UNCHANGED <<stage, bag, board, verdict, report, collection>>

\* mergeProbeResults, then the merge of devices and of NAT signals.
Merge ==
    /\ stage = "probing" /\ Len(results) = Len(Slots)
    /\ bag' = Reconcile(Aggregate(results))
    /\ stage' = "merged"
    /\ UNCHANGED <<results, board, verdict, report, collection>>

Score ==
    /\ stage = "merged"
    /\ board' = RawScores(bag)
    /\ stage' = "scored"
    /\ UNCHANGED <<results, bag, verdict, report, collection>>

Judge ==
    /\ stage = "scored"
    /\ verdict' = Decide(results, Normalize(board), bag)
    /\ stage' = "decided"
    /\ UNCHANGED <<results, bag, board, report, collection>>

PopulateOutputContract ==
    /\ stage = "decided"
    /\ report' = Publish(verdict, bag)
    /\ collection' = Collect(bag)
    /\ stage' = "published"
    /\ UNCHANGED <<results, bag, board, verdict>>

Next == ProbeReports \/ Merge \/ Score \/ Judge \/ PopulateOutputContract

Spec == Init /\ [][Next]_vars

-----------------------------------------------------------------------------
Merged == stage = "merged"
Decided == stage = "decided"
Committed == Decided /\ verdict.primary # Unknown

\* A source that saw two private gateways other than the host is never overruled by
\* another source, nor is a NAT topology with two of them: traceroute and the chain probe
\* both assign the flag, STUN brings its own, and the reconciled topology still says
\* internal double NAT.
DoubleNATNeverLost ==
    (Merged /\ \E r \in ToSet(Successful(results)) :
        \/ Len(PrivateChain(Get(r.ev, "hops", <<>>) \o Get(r.ev, "gateway_chain", <<>>), {"", "*", bag.me})) >= 2
        \/ "nat_topology" \in DOMAIN r.ev /\ (r.ev["nat_topology"].double \/ r.ev["nat_topology"].internal))
    => bag.double /\ bag.nat.internal /\ bag.nat.double

\* Merging the descriptions of one gateway leaves one device per address and keeps everything
\* positive any probe found: reachability, observations, services, the strengths of its evidence,
\* the hints with a text and the best confidences.
GatewayFindingsKept ==
    Merged =>
     /\ \A i, j \in DOMAIN bag.devices : i # j /\ bag.devices[i].ip # "" => bag.devices[i].ip # bag.devices[j].ip
     /\ \A r \in ToSet(Successful(results)) : \A d \in ToSet(Get(r.ev, "gateway_devices", <<>>)) :
        \E m \in ToSet(bag.devices) :
            /\ m.ip = d.ip
            /\ d.reachable => m.reachable /\ m.rstate = "true"
            /\ d.observed => m.observed
            /\ d.found \subseteq m.found /\ d.services \subseteq m.services /\ d.access \subseteq m.access
            /\ "tr064" \in d.found => m.tr064 = "found"
            /\ ToSet(d.hints) \ {""} \subseteq ToSet(m.hints) /\ ToSet(d.physhints) \ {""} \subseteq ToSet(m.physhints)
            /\ m.devconf >= d.devconf /\ m.accconf >= d.accconf
            /\ GatewayRolePriority(m.role) >= GatewayRolePriority(d.role)

\* The audit list is rebuilt by code of its own: for every key its amounts add up to the
\* points on the board.
ContributionsAccountForScores ==
    stage = "scored" =>
        LET all == BuildContributions(bag)
        IN  \A t \in ToSet(Keys) :
                SumOf([i \in DOMAIN all |-> IF all[i].target = t THEN all[i].amount ELSE 0]) = board[t]

\* The two gates agree: what the one returns as Unknown the other never grades above low,
\* and a high severity conflict never leaves a committed verdict.
GatesAgree ==
    Decided => /\ verdict.primary = Unknown => verdict.quality = "low"
               /\ HasHigh(verdict.conflicts) => verdict.primary = Unknown

\* What is safe to display as final is undisputed: the WAN types two probes report are
\* never of different families, no probe denies the double NAT verdict, and the reachability
\* probes agree with what the other probes reached.
SafeIsUndisputed ==
    stage = "published" /\ report.safe =>
        LET ok == ToSet(Successful(results))
            families(r) == {ConflictFamily(PublicTypeForTarget(t)) : t \in ToSet(WANTypeValues(r))} \ {Unknown}
        IN  /\ \A r, q \in ok : \A x \in families(r), y \in families(q) : x = y
            /\ \A r \in ok : DoubleNATValue(r) \subseteq {FinalDouble(bag)}
            /\ \A r \in ok : \A d \in ToSet(bag.devices) :
                  r.name \in {"gateway_reachability_diagnostics_probe", "gateway_reachability_probe"}
                      /\ d.ip # "" /\ Diagnosed(r) = d.ip
                  => d.reachable = Managed(r)

\* The collection names every private gateway, hop and device of the report once, the
\* likely modem before the gateways. A candidate is reachable if a probe reached the merged
\* device of its address, never without an answer of some kind, and unreachable exactly if
\* the merged state is false. Physical hints with a text and strong access evidence make its proof of the
\* medium present; what is present the verdict counts as proof too, strong access evidence apart.
CollectionMatchesContext ==
    stage = "published" =>
        LET cs    == collection.candidates
            known == {bag.gateway} \cup ToSet(bag.hops) \cup {d.ip : d \in ToSet(bag.devices)}
        IN  /\ {c.ip : c \in ToSet(cs)} = known \cap Private
            /\ \A i, j \in DOMAIN cs :
                  i < j => cs[i].ip # cs[j].ip /\ cs[i].priority >= cs[j].priority
            /\ \A c \in ToSet(cs) : \A d \in ToSet(bag.devices) :
                  c.ip = d.ip =>
                    LET claimed == d.access \cap {"physical", "strong"} # {}
                    IN  /\ d.reachable => c.reachable = "true"
                        /\ c.reachable = "true" => d.reachable \/ d.observed
                        /\ c.reachable = "false" <=> d.rstate = "false"
                        /\ ToSet(d.physhints) \ {""} # {} \/ claimed => c.physical = "present"
                        /\ c.physical = "present" => claimed \/ GatewayDeviceHasDirectPhysicalEvidence(d)
            /\ (collection.nat.double = "true") <=> FinalDouble(bag)

\* scoring/weights.go: latency "must never decide a verdict on its own": a committed type's
\* category has support from something other than latency.
LatencyNeverDecides ==
    Committed => \E c \in ToSet(BuildContributions(bag)) :
        c.class # "performance" /\ ScoredCategory(c.target) = ScoredCategory(verdict.primary)
=============================================================================
