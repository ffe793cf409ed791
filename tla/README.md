# Tmap: verification project

TLA+ models, TLC configurations and TLAPS proofs for the parts of Tmap whose
correctness depends on the order in which things happen.

## 1. Inventory

Tmap is a Go agent (`agent/`, a single-shot CLI that prints one JSON report), a Wails
desktop application (`apps/desktop`, Go) and its frontend (`apps/desktop/frontend`,
TypeScript).

| Component | State | Operations | Hard part |
|---|---|---|---|
| Device registry (`ippool/device_pool.go`) | entries, consecutive failures | EnsureCandidate, RecordSuccess, RecordFailure, AddEvidence, ClearStale | outcomes in any order, also after an entry was cleared |
| Discovery pool manager (`ippool/manager.go`) | running, paused, backlog, expanded subnets, in-flight marks, the channels of the newest session | Start, Stop, AddSeed, AddDeviceEvidence, SetPaused, ClearStale; feed, retest, consume and batch loops | nothing waits for the goroutines of a stopped session |
| Probe scheduler (`ippool/probe_scheduler.go`) | dispatcher, workers | Run | cancellation while an address is in hand |
| Scope guard, candidate generator | none | AllowIP, AllowCIDR, GenerateFromSeed | what may be probed at all |
| Live mobile fingerprint (`ippool/mobile_fingerprint.go`) | scores per entry | rescoring on evidence | order of evidence |
| Scan controller (`scan_controller.go`) | scanCancel, scanID, lastReport | StartScan, CancelScan, runScanJob, emitPhases, clearScan | superseded scans wind down while a new one runs |
| Frontend scan store (`useScanStore.ts`, `useScanEvents.ts`, `scan-controller.ts`) | scan status, report, buffered report | event handlers, startScan, cancelScan, New scan | events of several scans, a call's result racing its events |
| Agent: sweeps, runners, enrichment (`agent/cmd`, `internal/probe`, `probes`, `discovery`, `upstream`) | a slot per item, semaphore, rate limiter | fan-out stages of the commands | panics, deadlines, cancellation while waiting for a slot or a token |
| Agent: access detection (`internal/detection`, `scoring`, `linestats`, `modemcollector`) | evidence bag, gateway devices, score board, verdict | aggregate, reconcile, score, decide, publish, collect | several probes on one fact, in any combination and order; thresholds |
| Agent: LAN fusion (`cmd/agent`: `internal/probe`, `discovery`, `output`) | fused devices, conflicts, topology | merge, conflicts, downgrade, build | identities that become known late; confidences that pass a threshold |
| Agent: scan report (`cmd/iad-agent`: `discovery`, `upstream`, `deviceintel`, `topology`) | report, upstream results, intelligence store | scope, sweep, classify, enrich, build, validate | sections built in several passes that must keep agreeing |
| Frontend normalisation, view model, components; report types; parsers | none | pure functions, rendering | none of them concurrent |

Interaction: the frontend calls the bindings of `App` (one goroutine per call) and
receives events in the order they were emitted. `StartScan` runs the agent as a child
process. The discovery pool is independent of the scans; it owns the registry, uses
the guard and the generator as pure functions, and talks to its scheduler through a
task and a result channel per session.

What makes each component correct: the registry's statuses agree with what the probes
saw and evidence only gets better; the pool probes nothing outside its scope, no
address twice at once, and leaves no mark without a probe; at most one scan is
live, CancelScan reaches it, and what the console shows converges to it; a command of
the agent ends, respects its limits and returns every result it got; evidence is not
lost on its way to a verdict or a map, a verdict is explained by its audit list, weak
or inferred evidence stays weak, and the sections of a report agree with one another.
`PROJECT.json` lists the hazards line by line with the properties that cover them.

## 2. Modules

| Module | Models | Composes |
|---|---|---|
| `DevicePool` | the registry, one action per operation under its mutex | |
| `LiveFingerprint` | the live mobile scorer, as operators | |
| `LiveRegistry` | the registry with names, evidence lists and fingerprints | extends both |
| `DiscoveryPool` | manager and scheduler, one action per step between two synchronisations | extends `DevicePool` |
| `ScanController`, `ScanStore` | the backend's scans, the frontend's scan status | |
| `ScanConsole` | calls, results and events between them | extends both |
| `AgentStages`, `AgentReport` | the stages of a command; what a command promises, without goroutines | |
| `AgentRun` | the launching loops, goroutines, semaphores, rate limiter and deadline | implements `AgentReport` |
| `Slices` | the loops over slices that the code writes out where it needs them | extended by the two below |
| `AccessTypes`, `LineStats`, `GatewayChain`, `ProbeEvidence` | type keys and texts; modem telemetry; the gateway chain; the evidence bag | each extends the ones it uses |
| `AccessEngine`, `ModemCollector` | score board to verdict; the collection of CPE candidates | extend `ProbeEvidence` |
| `AccessScan` | one classification, stage by stage | extends both |
| `FusionProbes`, `DeviceFusion`, `FusionTopology` | the LAN probes' observations; merge and conflicts; topology, path, summary, graph | a chain of EXTENDS |
| `ScanFusion` | one LAN scan of `cmd/agent` | extends the chain |
| `LanScope`, `LanTopology`, `LanDiscovery`, `UpstreamIntel`, `IntelStore`, `DeviceIntel`, `RichTopology` | scope rules; evidence graph and validator; discovery.Run; upstream enrichment; intelligence store, section; rich map | a chain of EXTENDS |
| `LanScan` | the scan command of `iad-agent`, stage by stage | extends the chain |
| `MC...` | small instances for TLC | extend the module they name |
| `...Proofs` | theorems | extend the module they are about |
| `FoldInduction` | facts about loops and sorting, for the proofs | extended by `LiveRegistryProofs`, `ScanFusionProofs`, `AccessScanProofs`, `LanScanProofs` |

### DevicePool, LiveFingerprint, LiveRegistry

`status[ip]` is `"absent"` where the map has no entry. `streak` is `consecutiveFail`,
saturated at `FailCap`, above which the thresholds cannot tell values apart. `evidence`
keeps one grade per merge key; a grade stands for the pair (strength, confidence
impact) in the lexicographic order that `mergeEvidence` compares. Latency, TTL and
timestamps decide nothing and are left out. `consume` calls RecordSuccess and
AddEvidence, and `AddDeviceEvidence` calls EnsureCandidate and AddEvidence, in two
critical sections; they are one action here because whatever runs in between commutes
with the second: only ClearStale could remove the entry, and then both orders end
without it.

`LiveRegistry` adds `live[ip]`: the evidence in its order of arrival, the first name, MAC
and vendor, the fingerprint last stored and the type hint. An item of evidence is the
set of needles its type and value contain, of those the code looks for; a passive
domain is reduced to its category or refused (`Sanitized`, `Accepted`). The scorer is
`Fingerprint`, a fold over the list. It runs when evidence that counts as meaningful
changed (`Attach`) and in the refresh of the batch loop, and its result is stored only
where `mobileFingerprintChanged` sees a difference (`Rescored`).

### DiscoveryPool

A *session* is one `Start`. `session` counts them, and `m.taskCh`, `m.results` always
name the newest session's channels; a goroutine that was given a channel keeps it
(`bound`, `con[g].ch`), one that reads the field reads `session`. `Start` is split where
it unlocks: `Start`, `StartSeed` per seed, `Launch` for the go statements. `enqueue` is
split between its mark (`Mark`) and its non-blocking send (`SendTask`), `addSeedLocked`
once more before `expandSubnet` (`ExpandSeed`). A retest tick first takes its list
(`RetestTick`) and then enqueues address by address (`RetestEnqueue`). The two retest
loops of a session share one list `due`, as sets of addresses. Worker, dispatcher and
consumer are small automata; a select with several ready cases is a choice between
actions. The network's answer is a choice (`Probe`). `panicked` records a send on a
closed channel or a second close, after which the process is gone.

The scope guard and the generator are constants: `Allowed`, `SubnetOf`, `Expandable`,
`Hosts`; `ScopeAssumption` states what the code establishes, that generated hosts have
passed the guard. Seeds and evidence may name any address.

Left out: the emitted events, which change no state modelled here; the list of seeds
and the warnings; the reachability probe's parsing of ping.

### ScanController, ScanStore, ScanConsole

A scan is named by the call that asked for it. `pc[j]` follows StartScan and
runScanJob, `ctx[j]` the context with its first reason to be done, `phases` the tickers.
The agent's output is one of: a valid report, an invalid one, none, an error. Events
wait in `events`, bounded by `MaxEvents`. `StartScan`'s result returns to the frontend by
itself (`call[j]`). The frontend's status is set by one step per handler; handlers do
not look at the scan id, as in the code. `CancelScan` fetches and calls the cancel
function in one step: a cancel function called late belongs to a scan that has been
superseded, and so cancelled already, or is over. The polling fallback and the blocking
RunScan are used only where the shell offers no events and are left out, and so is what
a report contains.

### AgentStages, AgentReport, AgentRun

The concurrent stages of both commands: TCP sweep, ARP sweep, the classification's
probes, upstream enrichment, and the rate-limited runner of `cmd/agent`. `loop` and `next`
are the launching loop, `sem` its semaphore, `job[i]` the goroutine of an item, `slot[i]`
what it wrote, `tokens` the limiter's channel. The differences between the stages are
kept: the TCP sweep waits for a slot and for the context together, the ARP sweep only
looks at the context at the top of its loop, the runners have no semaphore and one
recovers from panics. `AgentReport` is the abstract specification: a stage returns once,
with an entry per item, in order; only a sweep may leave out a tail, and only after the
deadline. `ImplementsAgentReport` states the refinement through `INSTANCE AgentReport WITH`.

### Access detection

A probe result carries hints, a confidence and a function on the evidence keys the
probe set. `ProbeReports` fills the slots in the registered order, each with a result or
a failure; then `Merge`, `Score`, `Judge` and `PopulateOutputContract` are the stages of
`Engine.Analyze`. A text is the set of needles it contains and a switch over
`strings.Contains` a table whose first matching row decides. Scores are integers, points
out of 100; confidences are in 1/10000, and weighted sums are exact at that scale.
`LineStats` reads numbers as tenths with a mark for the decimal point, because the code
treats "120" and "12.0" dB differently. The rule files (`Fingerprints`, `Rules`) and the
type keys (`Keys`) are constant tables; the private addresses are the constant `Private`.
What a probe may report is `OutcomeAssumption`: the types of the values the engine
computes with, and which probes set a key that only some of them set (hops, the
gateway chain, its devices, the NAT topology). Explanations and the texts of suggestions
are left out. In a gateway device `observed` says that HTTP, TLS or a port answered, which
need not make it `reachable`; `link` and `access` are the text of its physical link and the
strengths of its access evidence. `CollectionMatchesContext` names where the collector asks
for less than the verdict: it calls a candidate reachable also when something was only
observed of it (`output.go:182`), and its physical evidence present for strong access
evidence alone (`output.go:211`), which `gatewayDeviceHasDirectPhysicalEvidence` does not
look at.

### LAN fusion (`cmd/agent`)

`FusionProbes` has one operator per probe: what it reports of what its platform adapter
handed over. `ScanFusion` collects the results in the registered order, `Merge` is
MergeDevices and DetectConflicts, `Build` the rest of BuildScanOutput. The merge key of
an observation depends on the addresses and MACs known so far, so that part is a fold.
The order of identifiers is a constant `Lexical`. Adapters are outside the repository;
what is supposed of them is `ObservationAssumption`: a record has at most one MAC, and two
records have one identifier only if they share an address or have none, as identifiers
are made of an address wherever the repository makes them. Of evidence records with one
source, target and reason `MergeEvidence` keeps the first, as `mergeEvidence` does; within
one observation they are supposed to differ. `BuildISPPath` is the list of hops: the
provider's address, ASN, organization and CGNAT flag, which it copies from the results
and the context, are left out, and with them its confidence.

### Scan report (`cmd/iad-agent`)

IPv4 addresses are numbers of `Bits` bits, prefixes are prefixes of those, and the
private blocks are a constant, so that the arithmetic of the scope rules is the code's.
`Select`, `DiscoverLAN`, `ClassifyAccess`, `EnrichUpstream` or `SkipUpstream`,
`BuildDeviceIntel`, `Complete` are the stages of `runScan`; what interfaces, network,
targets and scorers say is chosen when a stage asks. The detected context is an input
here (`Contexts`): what the access detection makes of probe results is `AccessScan`'s.
Of its probes it has the names, which become registry items. The upstream
evidence is appended in any order, as the code iterates over a map. The
agent's own mobile fingerprint is any value of `Mobiles`, so that what is shown
downstream does not depend on its scores.

## 3. Runs

| Run | Result | Shows |
|---|---|---|
| `registry` | pass | statuses agree with failure runs, the map shows responders, evidence never weakens; the stored fingerprint is current, one source never convinces, scores fall only by way of the vendor |
| `pool_restart` | pass | AtMostOneProbe, MarksAreHeld and BacklogHasNoDuplicates with two sessions side by side |
| `pool_live` | pass | InScope and MarkReleased in one session with an address outside the scope, pauses and evidence |
| `console_live` | pass | LiveScanIsCurrent, LiveScanShown, StartingEnds with two scans |
| `agent_run` | pass | slots and rate are respected, the command ends, and the goroutines implement AgentReport |
| `access_detection` | pass | double NAT and gateway findings are never lost, the audit list adds up to the scores, the gates agree, what is called safe is undisputed, the collection follows from the context |
| `scan_fusion` | pass | one device per MAC, nothing observed is lost, public addresses and inferences stay weak, classification is stable, solid edges are proven |
| `lan_map` | pass | the scope is respected, no role from an address alone, the order of upstream evidence is irrelevant, citations resolve, sections agree, the report validates |
| `pool_panic` | violation | close(m.results) is not safe (`manager.go:127`) |
| `console_settles` | violation | a late progress tick leaves the console "scanning" |
| `access_latency` | violation | a latency band alone moves the verdict to another family |
| `lan_counts` | violation | the evidence count of the summary is out of date |

The runs that expect a violation each check one statement a comment of the code makes;
the findings in `PROJECT.json` quote it and explain the counterexample. `lan_map` checks
ReportValidates without the evidence count, which `lan_counts` is about. `ValidateReport`
of the model reports duplicates, dangling ends and citations, and empty types, styles and
media; an edge's id, reason and relationship and a registry item's source and kind, which
are never empty by their construction, are left out.

What the passing runs delimit. `MarkReleased` holds for a single session. With
`MaxSessions = 2` in `PoolLive.cfg` it fails: a mark whose probe died with its session is
never released, and its address is not probed again while the Manager lives. How far
that can go is `MarksAreHeld`: with any number of sessions, only an address that a
goroutine of a cancelled session had in hand when it exited stays marked.

That every candidate is probed is not a property of this code, and no run or theorem
claims it. The comment of `enqueue` (`manager.go:267`) says of a full queue that "a dropped
probe is simply retried on the next tick". For the retest loops this is so: they list the
devices anew. It is not so for a candidate: `feedCandidates` has taken it from the backlog
and given it the status candidate, a drop gives back only its mark, and no retest loop
lists candidates, so it stays a candidate that was never probed unless a seed names it
again. In the model this takes two allowed addresses and a queue of one place, with the
first in the queue while the second is fed: `FairSpec` then does not imply that a
candidate comes to be probed. In `pool_restart` the queue, with one address, is never
full; that a drop leaves no mark behind is what `PoolMarksHeld` proves for every size of
queue.

Elsewhere: RecordSuccess creates entries beyond `MaxPoolSize` (an address that was cleared
while its probe was under way). In the scan of `iad-agent` ScopeRespected leaves out the
networks that outgrow (`Outgrows`) a private block smaller than the limit, which is
link-local multicast: `isPrivateNetwork` (`discovery/scope.go:179`) looks only at the
base of a network, so 224.0.0.0/16 is swept without the public flag, although
`scope.go:3` says that public address space is refused unless the caller opts in;
without that exception TLC finds such a scope. In the LAN fusion the node of a device
that conflicts have downgraded shows the confidence from before:
`topologyDeviceConfidence` takes the maximum with that of its evidence. In the live
fingerprint, evidence whose kind says only tcp, udp or packet is not scored until the
next refresh (`Waiting`).

Bounds.

- `registry`: the default thresholds, two addresses in a registry of size one, 14 sightings
  of the first (two names, two vendors, a randomised MAC, domains of both families and
  of none, Google Cast, a user agent, ports that count alone and ports that count beside others),
  at most `MaxEvidence = 3` items per entry: two interact and a third may depend on both.
- `pool_*`: one address is enough for two sessions to compete for it, and two sessions
  for every interference between an old session and the next (in `pool_restart` the seeds
  of Start take the place of AddSeed). The thresholds 1 and 2 let a device pass through
  every status.
- `console_*`: two scans exhibit a scan and its superseded predecessor; `MaxEvents` of 1
  or 2 only delays emitters, as a busy runtime does.
- `agent_run`: three items for two slots, or two for one, so that a launch waits for a
  release; a burst of one token and one refill for three probes.
- `access_*`: a host, a gateway and an upstream CPE; the probes whose results interact in
  the engine, each failing, or with the outcomes that reach different branches; rules and
  fingerprints are entries of the shipped files.
- `scan_fusion`: four private addresses, one public, one MAC shared by two; every probe of
  every mode with its outcomes or skipped.
- `lan_*`: 7-bit addresses: 32..47 stands for 192.168/16, 16..23 for 10/8, 8..15 for
  link-local, 112 and 113 for link-local multicast, the rest is public. With
  `MaxScanHosts = 8` the requested scopes lie inside the LAN, reach out of a private block,
  are too large, public, or IPv6; gateway and targets may be in the LAN, upstream of it,
  public or missing.

`MaxSessions`, `MaxScans`, `MaxEvents`, `FailCap`, `MaxEvidence` and `MaxTicks` bound what the
code does not; all are constants named in the modules.

Deadlock is not checked where the system may stop: a pool after a panic or idle after
its last session, a command that has ended, a pipeline that has published its report. It
is checked for the console and the registry.

Fairness. `DiscoveryPool`: every goroutine that can take a step eventually does, tickers
fire while their loop runs, and a cancelled context is cancelled after Stop. Nothing is
assumed of the user or of the network's answers; a probe does return, since its context
has a timeout. Of the feed loop only the steps of sessions that are not cancelled are
fair. `ScanConsole`: goroutines run, events are delivered, the ticker ticks while it
exists, and an agent whose context is done is killed. An agent left alone need not exit:
otherwise LiveScanShown would hold because every scan ends. Strong fairness is used
for the steps that emit, which the bound on undelivered events can disable in between.
`AgentRun`: the launching goroutine and each worker run when they can (each dial, lookup
or exchange has a timeout of its own), the deadline of the context passes, the limiter's
ticker ticks; nothing is assumed of which case of a select is taken, nor that a probe
does not panic.

## 4. Proofs

All theorems hold for arbitrary constants that satisfy the named assumptions (for
instance any number of addresses, subnets, workers, sessions, scans, items, slots).

- `LiveRegistryProofs`, about the registry alone: `PoolTypeCorrect`, `PoolStreaks`, `PoolMap`,
  `PoolEvidence`. With the types, each of the three invariants is inductive by itself; the
  action property follows from `MergeKeepsBest`. About the registry with fingerprints:
  `LiveUsesRegistry`, every step of the registry with fingerprints is
  a step of the registry or leaves it alone, whatever the evidence and the scores; so
  `LiveStatusesSound` follows from `PoolStreaks`. `LiveCurrent`, `LiveOneSource` and
  `LiveScores` rest on `LiveInv`. Its part `Fit` says that a stored fingerprint is never ahead
  of the evidence and behind it only while an item waits for the refresh: scores and
  warnings of a list only grow when an item is appended, so a change that
  `mobileFingerprintChanged` does not see is none. `Traced` says that the entry's own name,
  MAC and vendor stand in its evidence; then an entry with one source scores that source
  once, with 45 points at most, and `Convinced` follows. That scores fall only by way of
  the vendor compares two lists of the same items, scored beside two identities. The
  assumptions are `SightingAssumption` and `AddressAssumption` on the inputs.
- `DiscoveryPoolProofs`: `PoolInScope` rests on the inductive invariant `ScopeInv`.
  InScope alone is not inductive: a retest tick selects addresses by status, so that
  they are allowed follows only from MapShowsRespondersOnly together with "whoever has
  responded is allowed", and the latter from the fact that a consumer that records
  holds an address out of the pipeline (`Wired`, `PipelineOK(Allowed)`). One lemma per
  group of variables (`ControlStep`, `QueuesStep`, `PipelineStep`, `WiredStep`,
  `RespondedStep`) shows that every action preserves it. `PoolTypes` adds the channel
  capacities. `PoolUsesRegistry` is the refinement: every step of the pool is a step of
  the registry or leaves it alone, so `PoolStatusesSound` follows from `PoolStreaks`.
  `PoolProbesOnce`: a holder of a probe is a place (an enqueue call, a slot of a channel,
  a dispatcher, a worker), and the invariant `Sole` says that an address has one holder at
  most and a mark while it has one. A step passes an address from one place to another,
  and a receive moves a whole channel up by one, which renames its holders without
  merging any; only `Mark` makes a holder, where there was no mark and so no holder.
  `PoolMarksHeld`: an address with a mark has a place that holds it, or a goroutine of a
  cancelled session has exited (`Held`). The invariant is kept action by action, of any
  session; a receive or an outcome moves the address to the next place or takes its mark.
  `PoolBacklogUnique` needs that a candidate waits only if its subnet has been expanded
  (`BacklogInv`), since expansion then adds none that is there, and `HostsAssumption`: the
  generator lists a host once, and in one subnet.
- `ScanFusionProofs`: `FusionStages` says what is known at each stage, by the results of the
  probes alone; each property is then one of the functions that compute the stage.
  `FusionMACs` and `FusionComplete` follow a merge observation by observation: the index of
  known addresses and MACs leads to the device that carries them, each device began
  with one observation and has grown since (`MergeStates`, `MergeOneStep`), so a MAC that
  comes again finds its device. `FusionPublicWeak`: a public address is always in the list
  of conflicts, and once a downgrade has met a high conflict later ones only subtract.
  `FusionStable` compares the classes of a device before and after it has been given one:
  what a class adds (its type's name, its roles) makes no other case of the switch hold
  (`ClassesApart`), and its own case still does when it held by the old type's name.
  `FusionWeak` and `FusionSolid` show of each source of edges that what it wants is sound,
  and that `upsertEdge` keeps only what is wanted, whichever edge wins.
- `AccessScanProofs`: every stage stores a function of the stages before it, and the results
  of the probes are ones that `OutcomeAssumption` allows; that is the inductive invariant,
  `StageInv`. Each of the six invariants is then a fact about these functions.
  `DoubleNATKept`, `FindingsAlwaysKept` and `CollectionAlwaysMatches` follow the evidence
  bag through the engine: `GatheredBag` says what the fold over the results has gathered
  (devices are only replaced by the chain probe, which `SlotsAssumption` puts before those
  that add to them), `FinalBag` what the reconciliation leaves of it. Two mergers of
  devices are compared with what they are given: a merged device is `Settled`, its states
  follow from its findings, and `Keeps` everything positive of each description of its
  address (`MergeKeeps`, `MergeByAddressKeeps`); the store of the collection holds `Bare`
  addresses and entries that say what one device says (`Tells`), in whatever order they
  come (`StoreTells`). `ContributionsAccount` compares term by term the sums behind the
  board with the list that is built apart from it. `GatesAlwaysAgree` bounds the margin
  and the confidence that both gates read. `SafeAlwaysUndisputed`: where the list of
  conflicts is empty, no pair of results disagrees.
- `LanScanProofs`. `ScopeIsRespected`, for every width of address: what is arithmetic in the
  code stays arithmetic here. Two blocks of powers of two are nested or apart, so a network
  that starts in a private block is inside it unless it outgrows it, and a block that is
  outgrown by a network below the limit is narrow (`AcceptedSound`); the number of hosts
  enumerated is the one announced. `ScopeInv` keeps such a scope until the sweep; the devices
  of `Run` are then followed source by source (`SeenInScope`, `BuiltDevices`, `RunSound`).
  `LimitAssumption` and `BlocksAssumption` say that the limit is a power of two and private
  networks are CIDR blocks, `HostsAssumption`, `RequestsAssumption`, `GatewaysAssumption` and
  `LansAssumption` what interfaces, requests and sweeps consist of. `RolesNeedEvidence` needs
  none of them: the signals of a target without answers are few enough for its confidence
  floor and its tags to be computed, whatever the context says. `ReportsValidate`,
  `CitationsAreResolved` and `SectionsStayInStep` follow from the inductive invariant `LanInv`,
  which says what each stage hands to the next: a `SoundReport` (devices with their evidence,
  edges with their ends, counts), records with ids of their own (`EvidenceAppended`: also
  after the upstream records are appended in any order), a `SoundSection`, and at the end
  the report `Finished` from them. Every pass over the intelligence store, every merge into
  a node and every link drawn is a round of a loop, and `LoopLeads` carries over any loop
  what its rounds keep: a `KnownStore` only grows (`StoreFilled`), so whatever a pass has
  written is still there after the others; the first registration of a record names the
  device of its address (`Traced`), and every record of an allowed address is there after
  its pass (`Recorded`). A device keeps what the store knew when it is classified
  (`ClassifiedSound`) and when upstream results are attached (`AttachedSection`); a node
  bears what each section says of its device (`NodesDrawn`). No edge that `Build` draws from
  a sweep is physical (`DrawnTypes`), which is why no link is. `ContextsAssumption` adds
  what a detected context is: private hops and finitely many gateways.
  `UpstreamOrderIsIrrelevant` compares two runs of all the passes over the intelligence
  store, for two orders of the appended evidence. The property quantifies over every
  arrangement of the targets at once. `OrderInv` adds to `LanInv` that the records behind the
  sweep's are what the targets' results append, in some order (`Behind`). A record is filed
  under its own address only (`RecordFiled`), so what a device comes to hold is decided by
  the records about it, and those of one address come in the order in which its target
  logged them, whatever stands between them (`AboutNext`, `RunsSame`, `RecordsAlike`). The
  later passes then start from the same devices and observations and give the same
  section (`TopologyAlike`, `GatewaysAlike`, `ContextAlike`, `SectionAlike`).
- `ScanConsoleProofs`: `ConsoleTypes` and `OneLiveScan`; with the types
  LiveScanIsCurrent is inductive. The step that matters is BeginScan: every live scan
  is the one `scanCancel` names, so cancelling that one leaves none.
- `AgentRunProofs`: the inductive invariant `RunInv` joins the types with `JobsOK` (what a
  goroutine's state says about its slot), `LoopOK` (which items have been launched, and
  that a loop ended early only in a sweep and after the deadline), `SlotsOK` (the
  semaphore counts exactly the goroutines that hold a slot) and `TokensOK` (tokens spent
  and left are the burst and the refills at most). From it follow `RunTypes`,
  `RunSlotsBounded`, `RunRateRespected`, and `RunImplementsReport`: the safety of the
  refinement, where the step to show is that `Return` is `ReturnStage` with the prefix of
  launched items. SlotsBounded is not inductive: a release must not free a slot that its
  goroutine does not hold, which is SlotsOK.

Loops. The folds of the models (the items of a list of evidence, the observations of a
result, conflicts, edges) choose a function by its recursive equation, and the library's
induction theorems cannot be used here. `FoldInduction` does without: `UpTo` is induction
over `0..n` for a set of naturals, from the least element outside it; `FoldExists` shows that
the equation has a solution, and `FoldPrefixes` that the fold is the last state of a run
over the prefixes. A proof about a loop takes its run and shows with `UpTo` what holds of
every state of it. `AccessScanProofs` does this once for all its loops (`LoopExists`,
`LoopRuns`), and states what the recurring ones leave behind: appending what is new
(`UniqueIn`), joining (`FlattenedIn`), sums (`SumJoin`), a stable sort (`SortIn`).

Only model-checked: the liveness properties, which involve fairness and are outside what
the proof system handles. Every safety property and action property of the passing runs
is a theorem.

## 5. Plan

1. The report store of the frontend (merge, buffering, import) beside `ScanStore`.
2. The arithmetic of the pool's scope guard and generator, with `ScopeAssumption` as what
   it is checked for; the agent's own mobile fingerprint with the tables of
   `LiveFingerprint` as a pattern.

## 6. Not modelled

Rendering and layout; the frontend's normalisation and view model, pure functions of a
report; parsing of device pages, of tool output and of the operating system's tables;
JSON encoding, redaction and files; network I/O of the individual probes; texts
(explanations, labels, next steps); the agent's mobile fingerprint scorer; the single
probe, validate and classify commands, which only print. They have no state of their
own, depend on what is outside the repository, or, for texts, say nothing a property
could be about.
