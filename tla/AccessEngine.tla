--------------------------- MODULE AccessEngine ---------------------------
(***************************************************************************)
(* From the evidence bag to a verdict: the score board, the ranking, the   *)
(* conflicts, the confidence, the decision gates and the published         *)
(* contract. Scores are points, 100 is full; confidences are in 1/10000.   *)
(***************************************************************************)
EXTENDS ProbeEvidence

CONSTANTS
    Keys,           \* the type keys that evidence can score, in alphabetical order
    Fingerprints,   \* sequence of [match, hints, supports]
    Rules           \* sequence of [class, model, text, iface, hint, add]

ASSUME KeysAssumption ==
    Keys \in Seq(STRING \ {Unknown}) /\ \A i, j \in DOMAIN Keys : Keys[i] = Keys[j] => i = j

ASSUME FingerprintsAssumption ==
    Fingerprints \in Seq([match : SUBSET STRING, hints : Seq(STRING), supports : Seq(STRING)])

ASSUME RulesAssumption ==
    /\ Rules \in Seq(ToSet(Rules))
    /\ \A i \in DOMAIN Rules : \A t \in DOMAIN Rules[i].add : Rules[i].add[t] \in Int

MatchText(bag) == bag.model \cup bag.text \cup bag.devtext \cup bag.wantext

\* The first known device whose name occurs in the text, as a sequence of at most one.
MatchFingerprint(bag) ==
    LET hits == {i \in DOMAIN Fingerprints : Fingerprints[i].match \cap MatchText(bag) # {}}
    IN  IF hits = {} THEN <<>> ELSE <<Fingerprints[Min(hits)]>>

Matched(bag) == MatchFingerprint(bag) # <<>>

MatchHints(bag) == bag.hints \o (IF Matched(bag) THEN MatchFingerprint(bag)[1].hints ELSE <<>>) \o bag.strong

\* A rule fires when any of its groups matches.
RuleMatches(rule, bag) ==
    \/ rule.model \cap bag.model # {}
    \/ rule.text \cap MatchText(bag) # {}
    \/ rule.iface \cap bag.interfaces # {}
    \/ rule.hint \cap HintsText(MatchHints(bag)) # {}

Fired(bag) == Those(Rules, {r \in ToSet(Rules) : RuleMatches(r, bag)})

LatencySignal(bag) ==
    LET ms == bag.avg
    IN  IF ~HasLatency(bag) THEN <<>>
        ELSE IF ms <= 8 THEN [Fiber |-> 4, VDSL |-> 3]
        ELSE IF ms <= 25 THEN [t \in {"DSL", "VDSL", "Fiber", "Cable"} |-> 2]
        ELSE IF ms <= 80 THEN [t \in {"DSL", "FWA"} |-> 2]
        ELSE IF ms <= 200 THEN [t \in {"Mobile", "FWA"} |-> 4]
        ELSE IF ms >= 500 THEN [Satellite |-> 15]
        ELSE <<>>

Occurrences(s, v) == Cardinality({i \in DOMAIN s : s[i] = v})

\* The board: points of every key, as the passes over the evidence add them up.
RawScores(bag) ==
    LET fp    == MatchFingerprint(bag)
        lat   == LatencySignal(bag)
        fired == Fired(bag)
    IN  [t \in ToSet(Keys) |->
            (IF fp = <<>> THEN 0 ELSE 40 * Occurrences(fp[1].hints, t) + 15 * Occurrences(fp[1].supports, t))
            + 25 * Occurrences(bag.hints, t)
            + 45 * Occurrences(bag.strong, t)
            + (IF t \in DOMAIN lat THEN lat[t] ELSE 0)
            + SumOf([i \in DOMAIN fired |-> Get(fired[i].add, t, 0)])]

Normalize(raw) == [t \in DOMAIN raw |-> IF raw[t] > 100 THEN 100 ELSE IF raw[t] < 0 THEN 0 ELSE raw[t]]

-----------------------------------------------------------------------------
(* The audit list, reconstructed apart from the board.                     *)

Contribution(target, amount, class) == [target |-> target, amount |-> amount, class |-> class]

\* (Mutant: the audit list was not extended when bands were added.)
LatencyContributionsLowOnly(bag) ==
    IF HasLatency(bag) /\ bag.avg <= 8
    THEN <<Contribution("Fiber", 4, "performance"), Contribution("VDSL", 3, "performance")>> ELSE <<>>

LatencyContributions(bag) ==
    LET c(t, n) == Contribution(t, n, "performance")
        ms == bag.avg
    IN  IF ~HasLatency(bag) THEN <<>>
        ELSE IF ms <= 8 THEN <<c("Fiber", 4), c("VDSL", 3)>>
        ELSE IF ms <= 25 THEN <<c("DSL", 2), c("VDSL", 2), c("Fiber", 2), c("Cable", 2)>>
        ELSE IF ms <= 80 THEN <<c("DSL", 2), c("FWA", 2)>>
        ELSE IF ms <= 200 THEN <<c("Mobile", 4), c("FWA", 4)>>
        ELSE IF ms >= 500 THEN <<c("Satellite", 15)>>
        ELSE <<>>

\* The same amount for every hint of a list.
EachHint(hs, n, class) == [i \in DOMAIN hs |-> Contribution(hs[i], n, class)]

\* The code ranges over a Go map; the order of these contributions is nowhere used.
RuleContributions(r) ==
    LET ts == Those(Keys, DOMAIN r.add) IN [i \in DOMAIN ts |-> Contribution(ts[i], r.add[ts[i]], r.class)]

BuildContributions(bag) ==
    LET fp    == MatchFingerprint(bag)
        fired == Fired(bag)
    IN  (IF fp = <<>> THEN <<>>
         ELSE EachHint(fp[1].hints, 40, "device") \o EachHint(fp[1].supports, 15, "device"))
        \o EachHint(bag.hints, 25, "network") \o EachHint(bag.strong, 45, "physical")
        \o LatencyContributions(bag) \o Flattened([i \in DOMAIN fired |-> RuleContributions(fired[i])])

-----------------------------------------------------------------------------
(* Ranking.                                                                *)

\* The keys are in alphabetical order, which breaks the ties.
RankAll(scores) == StableSort(Those(Keys, {t \in ToSet(Keys) : scores[t] > 0}), scores)

\* A parent key gives way to any subtype of its category that scored.
CollapseParentSubtypeCandidates(ranked) ==
    LET hasSubtype == {CategoryFor(t) : t \in {t \in ToSet(ranked) : CategoryFor(t) # t}}
    IN  Those(ranked, {t \in ToSet(ranked) : ~(t \in {"DSL", "Fiber", "Cable"} /\ CategoryFor(t) \in hasSubtype)})

Ranked(scores) == CollapseParentSubtypeCandidates(RankAll(scores))

CategoryScores(scores) ==
    [c \in {ScoredCategory(t) : t \in DOMAIN scores} |->
        Max({scores[t] : t \in {t \in DOMAIN scores : ScoredCategory(t) = c}})]

\* topTwo walks a Go map: the order of the keys is not fixed, the two scores are.
TopScore(m) == Max({0} \cup {m[k] : k \in DOMAIN m})

SecondScore(m) ==
    LET best == {k \in DOMAIN m : m[k] = TopScore(m)}
    IN  IF Cardinality(best) > 1 THEN TopScore(m) ELSE Max({0} \cup {m[k] : k \in DOMAIN m \ best})

Margin(m) == TopScore(m) - SecondScore(m)

-----------------------------------------------------------------------------
(* What kind of evidence there is.                                         *)

HasDirectPhysicalEvidence(bag) ==
    \/ bag.line.conf > 0 \/ bag.phys > 0 \/ bag.strong # <<>>
    \/ \E s \in ToSet(bag.signals) : DirectSignal(s)
    \/ (bag.wantext \cup bag.cpetext) \cap DirectEvidenceTokens # {}

HasDeviceModelEvidence(bag) ==
    \/ Matched(bag)
    \/ bag.model # {} /\ bag.dev > 0
    \/ \E d \in ToSet(bag.devices) : d.model # {} /\ d.devconf >= 40

HasTopologyEvidence(bag) ==
    bag.gateway # "" \/ bag.chain # <<>> \/ bag.net > 0 \/ (bag.hasnat /\ HasUsefulNATContext(bag.nat))

HasPerformance(bag) == bag.perfconf > 0 \/ HasLatency(bag) \/ bag.perf

HasRegional(bag) == bag.org \/ bag.ptr

HasEthernetWANSignal(bag) ==
    \/ \E s \in ToSet(bag.signals) : "ethernet" \in s.text
    \/ "EthernetWAN" \in ToSet(bag.strong)

EthernetWANOnlyEvidence(bag) ==
    /\ HasEthernetWANSignal(bag)
    /\ ToSet(bag.strong) \subseteq {"EthernetWAN"}
    /\ \A s \in ToSet(bag.signals) : InferTargetType(s.text) \in {"EthernetWAN", Unknown}

\* Items of the two tiers that can support a candidate: [target, strength].
DirectItems(bag) ==
    (IF bag.line = NoProfile THEN <<>> ELSE <<FirstHintTarget(AccessHints(bag.line))>>)
    \o LET sigs == Those(bag.signals, {s \in ToSet(bag.signals) : DirectSignal(s)}) IN [i \in DOMAIN sigs |-> InferTargetType(sigs[i].text)]
    \o [i \in DOMAIN bag.strong |-> PublicTypeForTarget(bag.strong[i])]

StrengthLabel(c) == IF c <= 0 THEN "none" ELSE IF c < 40 THEN "weak" ELSE IF c < 70 THEN "medium" ELSE "strong"

DeviceItems(bag) ==
    LET text  == bag.model \cup HintsText(bag.hints)
        named == Those(bag.devices, {d \in ToSet(bag.devices) : d.model # {}})
    IN  (IF Matched(bag) THEN <<[target |-> InferTargetType(text), strength |-> "medium"]>> ELSE <<>>)
        \o (IF bag.model = {} THEN <<>> ELSE <<[target |-> InferTargetType(text), strength |-> StrengthLabel(bag.dev)]>>)
        \o [i \in DOMAIN named |-> [target |-> FirstHintTarget(named[i].hints), strength |-> StrengthLabel(named[i].devconf)]]

StrengthRank(s) == CASE s = "strong" -> 3 [] s = "medium" -> 2 [] s = "weak" -> 1 [] OTHER -> 0

TierStrength(strengths) ==
    IF strengths = {} THEN "none" ELSE CHOOSE s \in strengths : \A u \in strengths : StrengthRank(s) >= StrengthRank(u)

\* Which tiers hold an item, and the strength of the two that matter.
EvidenceTiers(bag) ==
    [direct     |-> DirectItems(bag) # <<>>,
     device     |-> TierStrength({d.strength : d \in ToSet(DeviceItems(bag))} \cup {"none"}),
     topology   |-> bag.gateway # "" \/ bag.chain # <<>> \/ (bag.hasnat /\ HasUsefulNATContext(bag.nat)),
     performance |-> bag.perf \/ HasLatency(bag),
     regional   |-> HasRegional(bag)]

-----------------------------------------------------------------------------
(* Conflicts between results.                                              *)

Diagnosed(r) == FirstNonEmpty(Get(r.ev, "gateway_ip", ""), Get(r.ev, "ip", ""))

Managed(r) == Get(r.ev, "management_reachable", FALSE)

ReachabilityConflicts(results, bag) ==
    {Conflict("gateway_devices.reachable", "high", r.name) : r \in {r \in ToSet(Successful(results)) :
        /\ r.name \in {"gateway_reachability_diagnostics_probe", "gateway_reachability_probe"}
        /\ \E d \in ToSet(bag.devices) : d.ip # "" /\ d.ip = Diagnosed(r) /\ d.reachable # Managed(r)}}

ChainConflicts(results, bag) ==
    {Conflict("gateway_chain", "medium", r.name) : r \in {r \in ToSet(Successful(results)) :
        /\ r.name = "traceroute_probe"
        /\ DetectGatewayChain(Get(r.ev, "hops", <<>>)) \notin {<<>>, bag.chain}}}

\* What a result says about double NAT, as a set of at most one value.
DoubleNATValue(r) ==
    IF "double_nat_possible" \in DOMAIN r.ev THEN {r.ev["double_nat_possible"]}
    ELSE IF "double_nat" \in DOMAIN r.ev THEN {r.ev["double_nat"]}
    ELSE IF "nat_topology" \in DOMAIN r.ev THEN {r.ev["nat_topology"].double \/ r.ev["nat_topology"].internal}
    ELSE {}

FinalDouble(bag) == bag.double \/ (bag.hasnat /\ (bag.nat.double \/ bag.nat.internal))

DoubleNATConflicts(results, bag) ==
    {Conflict("nat_topology.double_nat",
              IF r.name \in {"gateway_chain_probe", "traceroute_probe"} THEN "high" ELSE "medium", r.name) :
        r \in {r \in ToSet(Successful(results)) : DoubleNATValue(r) \notin {{}, {FinalDouble(bag)}}}}

NamedSignals(r) ==
    LET sigs == Get(r.ev, "wan_signals", <<>>) IN Those(sigs, {s \in ToSet(sigs) : s.named})

WANTypeValues(r) ==
    (IF "wan_access_type" \in DOMAIN r.ev THEN <<InferTargetType(r.ev["wan_access_type"])>> ELSE <<>>)
    \o LET sigs == NamedSignals(r) IN [i \in DOMAIN sigs |-> InferTargetType(sigs[i].text)]
    \o (IF Get(r.ev, "direct_physical_evidence", FALSE) /\ FirstHintTarget(r.hints) # Unknown
        THEN <<FirstHintTarget(r.hints)>> ELSE <<>>)

\* (Mutant: only the values of one probe are compared with each other.)
WANTypeConflictsWithin(results) ==
    IF \E r \in ToSet(Successful(results)) :
          \E t, u \in ToSet(WANTypeValues(r)) :
             ConflictFamily(PublicTypeForTarget(t)) # ConflictFamily(PublicTypeForTarget(u))
    THEN {Conflict("wan_access_type", "high", "probes")} ELSE {}

\* The first value is held against every later one that is known.
WANTypeConflicts(results) ==
    LET ok == Successful(results)
        values == Flattened([i \in DOMAIN ok |-> WANTypeValues(ok[i])])
        family(i) == ConflictFamily(PublicTypeForTarget(values[i]))
    IN  IF \E i \in DOMAIN values \ {1} : family(i) \notin {Unknown, family(1)}
        THEN {Conflict("wan_access_type", "high", "probes")} ELSE {}

DetectConflicts(results, scores, bag) ==
    ReachabilityConflicts(results, bag) \cup ChainConflicts(results, bag) \cup DoubleNATConflicts(results, bag)
    \cup bag.chainconflicts \cup WANTypeConflicts(results)
    \cup (IF HasEthernetWANSignal(bag) /\ \E t \in {"DSL", "VDSL", "ADSL", "Fiber"} : Get(scores, t, 0) > 35
          THEN {Conflict("classification.wan_access_type", "high", "scores")} ELSE {})

HasHigh(conflicts) == \E c \in conflicts : c.severity = "high"
HasMedium(conflicts) == \E c \in conflicts : c.severity = "medium"
HasWANConflict(conflicts) == \E c \in conflicts : c.field \in {"wan_access_type", "classification.wan_access_type"}

-----------------------------------------------------------------------------
(* Confidence.                                                             *)

AtMost(v, cap) == IF v > cap THEN cap ELSE v

ComputeConfidence(scores, sources, matched) ==
    LET cat == CategoryScores(scores)
        top == TopScore(cat)
    IN  IF top <= 0 THEN 0
        ELSE AtMost(60 * top + (2500 * Margin(cat)) \div top + 375 * AtMost(sources, 4)
                    + (IF matched THEN 1000 ELSE 0), 10000)

StrongestSignal(bag) == Max({0} \cup {s.conf : s \in {s \in ToSet(bag.signals) : DirectSignal(s)}})

\* The base confidence, raised or capped by the kind of evidence behind it.
EvidenceConfidence(scores, bag) ==
    LET conf   == ComputeConfidence(scores, bag.sources, Matched(bag))
        proof  == Max({bag.phys, StrongestSignal(bag), bag.line.conf})
        raised == AtMost(MaxOf(conf, IF proof >= 85 THEN 100 * proof ELSE 8000), 9800)
        known  == 100 * MaxOf(bag.dev, IF Matched(bag) THEN 72 ELSE 0)
    IN  IF HasDirectPhysicalEvidence(bag) THEN IF EthernetWANOnlyEvidence(bag) THEN AtMost(raised, 5900) ELSE raised
        ELSE IF HasDeviceModelEvidence(bag) THEN AtMost(MaxOf(conf, known), 7500)
        ELSE IF HasTopologyEvidence(bag) /\ ~HasPerformance(bag) /\ ~HasRegional(bag) THEN AtMost(conf, 3000)
        ELSE IF ~HasTopologyEvidence(bag) /\ HasPerformance(bag) /\ HasRegional(bag) THEN AtMost(conf, 2500)
        ELSE AtMost(conf, 4000)

\* (Mutant: conflicts do not cost confidence.)
ConfidenceUncapped(scores, bag, conflicts) == EvidenceConfidence(scores, bag)

ComputeClassificationConfidence(scores, bag, conflicts) ==
    LET conf == EvidenceConfidence(scores, bag)
    IN  IF HasHigh(conflicts) /\ conf > 3500 THEN 3500
        ELSE IF HasMedium(conflicts) THEN MaxOf(conf - 1000, 0) ELSE conf

ContextConfidence(bag) ==
    LET signals == Cardinality({i \in 1..5 :
                      <<HasRegional(bag), bag.hasnat, bag.ipv6, HasLatency(bag) \/ bag.perf, bag.publicip # "">>[i]})
    IN  Max({100 * bag.net, 85 * bag.perfconf, 60 * bag.dev, IF signals > 0 THEN 2000 + 1000 * signals ELSE 0})

-----------------------------------------------------------------------------
(* The decision.                                                           *)

ShouldReturnUnknown(scores, bag, conf) ==
    LET cat    == CategoryScores(scores)
        direct == HasDirectPhysicalEvidence(bag)
    IN  \/ conf < 4000
        \/ TopScore(cat) < 35
        \/ Margin(cat) < 12 /\ ~direct
        \/ ~direct /\ ~HasDeviceModelEvidence(bag)

DecisionQuality(scores, bag, conf) ==
    LET cat    == CategoryScores(scores)
        direct == HasDirectPhysicalEvidence(bag)
    IN  IF direct /\ conf >= 8500 /\ TopScore(cat) >= 60 /\ Margin(cat) >= 20 THEN "high"
        ELSE IF (direct \/ HasDeviceModelEvidence(bag)) /\ conf >= 4000 /\ Margin(cat) >= 12 /\ TopScore(cat) >= 35 THEN "medium"
        ELSE "low"

IsFiberVDSLTie(scores) ==
    LET fiber == Max({Get(scores, t, 0) : t \in {"Fiber", "FTTH", "GPON"}})
        vdsl  == MaxOf(Get(scores, "VDSL", 0), Get(scores, "VDSL2", 0))
    IN  fiber > 0 /\ vdsl > 0 /\ fiber - vdsl < 12 /\ vdsl - fiber < 12

NextBestProbes(scores, bag, conflicts) ==
    LET direct == HasDirectPhysicalEvidence(bag)
    IN  IF direct /\ conflicts = {} THEN {}
        ELSE (IF direct THEN {}
              ELSE {"upnp_wan_common_interface_probe", "tr064_probe", "http_fingerprint_probe",
                    "snmp_opt_in_probe", "tr181_interface_stack_probe"})
             \cup (IF \E c \in conflicts : c.field \in {"gateway_devices.reachable", "gateway_chain",
                       "gateway_chain_state.chain", "gateway_chain_state.internal_double_nat_possible"}
                   THEN {"gateway_reachability_probe", "route_table_probe", "traceroute_private_hop_probe"} ELSE {})
             \cup (IF bag.model = {} /\ bag.devices = <<>>
                   THEN {"upnp_device_description_probe", "favicon_hash_probe"} ELSE {})
             \cup (IF IsFiberVDSLTie(scores)
                   THEN {"tr064_dsl_probe", "upnp_wan_common_interface_probe"} ELSE {})

ClassificationState(primary, conf, direct, conflicts) ==
    IF primary = Unknown THEN IF conflicts # {} THEN "conflicting_evidence" ELSE "insufficient_evidence"
    ELSE IF HasWANConflict(conflicts) THEN "conflicting_evidence"
    ELSE IF direct /\ conf >= 8500 THEN "confirmed"
    ELSE IF conf >= 6000 THEN "probable"
    ELSE IF conf >= 4000 THEN "possible"
    ELSE "insufficient_evidence"

CapN(s, n) == SubSeq(s, 1, AtMost(Len(s), n))

VerdictOn(scores, bag, ranked, conflicts, conf) ==
    LET direct    == HasDirectPhysicalEvidence(bag)
        unknown   == \/ ranked = <<>>
                     \/ ShouldReturnUnknown(scores, bag, conf)
                     \/ HasHigh(conflicts) /\ (~direct \/ HasWANConflict(conflicts))
    IN  [primary      |-> IF unknown THEN Unknown ELSE ranked[1],
         conf         |-> conf,
         quality      |-> IF ranked = <<>> THEN "low" ELSE DecisionQuality(scores, bag, conf),
         alternatives |-> IF unknown THEN CapN(ranked, 4) ELSE CapN(Tail(ranked), 3),
         conflicts    |-> conflicts,
         context      |-> ContextConfidence(bag),
         nextbest     |-> IF unknown \/ ~direct \/ conf < 8500 THEN NextBestProbes(scores, bag, conflicts) ELSE {}]

\* The verdict before publication: Analyze from the ranking on.
Decide(results, scores, bag) ==
    LET ranked    == Ranked(scores)
        conflicts == DetectConflicts(results, scores, bag)
    IN  VerdictOn(scores, bag, ranked, conflicts,
                  IF ranked = <<>> THEN 0 ELSE ComputeClassificationConfidence(scores, bag, conflicts))

\* The output contract: what a consumer of the report is shown.
Publish(v, bag) ==
    LET public == PublicClassification(v.primary, bag.line.subtype)
        direct == HasDirectPhysicalEvidence(bag)
        state  == ClassificationState(public[1], v.conf, direct, v.conflicts)
    IN  [primary |-> public[1], subtype |-> public[2], state |-> state,
         details |-> ClassificationDetails(public[1], public[2]),
         safe    |-> public[1] # Unknown /\ state = "confirmed" /\ direct /\ v.conflicts = {},
         tiers   |-> EvidenceTiers(bag)]
=============================================================================
