------------------------- MODULE LiveRegistryProofs -------------------------
(***************************************************************************)
(* The registry of DevicePool, for any addresses, evidence and thresholds, *)
(* and the registry with its fingerprints, which implements it for any     *)
(* scores: what DevicePool promises holds with them. Beside it, what the   *)
(* stored fingerprints promise: that they are current, that no single item *)
(* convinces, and when a score may fall. All three rest on how one item    *)
(* moves a score (ItemMove), carried over the list of an entry's evidence  *)
(* by induction (FoldMove, FoldOne), and on the invariant LiveInv.         *)
(***************************************************************************)
EXTENDS LiveRegistry, FoldInduction, FiniteSetTheorems

-----------------------------------------------------------------------------
(* The registry by itself.                                                 *)

\* mergeEvidence stores one of its two grades, and never a worse one.
LEMMA MergeKeepsBest ==
    ASSUME NEW old \in Grade \cup {0}, NEW new \in Grade
    PROVE  Merge(old, new) \in Grade \cup {0} /\ Merge(old, new) >= old
  BY GradeAssumption DEF Merge

\* A stored grade is a natural number.
LEMMA GradeNat == Grade \cup {0} \subseteq Nat
  BY GradeAssumption

\* The failure run counts up to its cap.
LEMMA BumpType ==
    ASSUME NEW n \in 0..FailCap
    PROVE  Bump(n) \in 0..FailCap /\ Bump(n) >= n /\ (n < FailCap => Bump(n) = n + 1)
  BY ThresholdAssumption DEF Bump

\* RecordFailure's state machine stays among the statuses of tracked entries.
LEMMA AfterFailureType ==
    ASSUME NEW s \in DeviceStatus, NEW n \in 0..FailCap
    PROVE  AfterFailure(s, n) \in DeviceStatus
  BY DEF AfterFailure, DeviceStatus

\* EnsureCandidate yields a candidate or leaves the status alone.
LEMMA EnsuredCases ==
    ASSUME NEW ip \in IP
    PROVE  Ensured(ip) = status[ip] \/ (status[ip] = "absent" /\ Ensured(ip) = "candidate")
  BY DEF Ensured

\* AddEvidence keeps the shape of the evidence and worsens nothing.
LEMMA AddEvidenceStep ==
    ASSUME PoolTypeOK, NEW ip \in IP, NEW k \in EvidenceKey, NEW g \in Grade,
           AddEvidence(ip, k, g)
    PROVE  /\ evidence' \in [IP -> [EvidenceKey -> Grade \cup {0}]]
           /\ \A i \in IP, key \in EvidenceKey : evidence'[i][key] >= evidence[i][key]
<1>1. evidence[ip][k] \in Grade \cup {0}
  BY DEF PoolTypeOK
<1>2. Merge(evidence[ip][k], g) \in Grade \cup {0} /\ Merge(evidence[ip][k], g) >= evidence[ip][k]
  BY <1>1, MergeKeepsBest
<1>3. \A i \in IP, key \in EvidenceKey : evidence[i][key] \in Nat
  BY GradeNat DEF PoolTypeOK
<1>4. CASE status'[ip] = "absent"
  BY <1>3, <1>4 DEF AddEvidence, PoolTypeOK
<1>5. CASE status'[ip] # "absent"
  <2> DEFINE m == Merge(evidence[ip][k], g)
  <2>1. evidence' = [evidence EXCEPT ![ip][k] = m]
    BY <1>5 DEF AddEvidence
  <2>2. m \in Grade \cup {0} /\ m >= evidence[ip][k]
    BY <1>2
  <2> HIDE DEF m
  <2> QED
    BY <2>1, <2>2, <1>3 DEF PoolTypeOK
<1> QED
  BY <1>4, <1>5

-----------------------------------------------------------------------------
(* Type correctness *)

LEMMA PoolTypeInit == PoolInit => PoolTypeOK
  BY ThresholdAssumption DEF PoolInit, PoolTypeOK, NoEvidence

LEMMA PoolTypeStep == PoolTypeOK /\ [PoolNext]_poolVars => PoolTypeOK'
<1> SUFFICES ASSUME PoolTypeOK, [PoolNext]_poolVars PROVE PoolTypeOK'
  OBVIOUS
<1>1. ASSUME NEW ip \in IP, EnsureCandidate(ip) PROVE PoolTypeOK'
  BY <1>1, EnsuredCases DEF EnsureCandidate, PoolTypeOK, DeviceStatus
<1>2. ASSUME NEW ip \in IP, RecordFailure(ip) PROVE PoolTypeOK'
  <2>1. CASE status[ip] = "absent"
    BY <1>2, <2>1 DEF RecordFailure, PoolTypeOK
  <2>2. CASE status[ip] # "absent"
    <3>1. status[ip] \in DeviceStatus /\ streak[ip] \in 0..FailCap
      BY <2>2 DEF PoolTypeOK
    <3>2. Bump(streak[ip]) \in 0..FailCap
      BY <3>1, BumpType
    <3>3. AfterFailure(status[ip], Bump(streak[ip])) \in DeviceStatus
      BY <3>1, <3>2, AfterFailureType
    <3> QED
      BY <1>2, <2>2, <3>2, <3>3 DEF RecordFailure, PoolTypeOK
  <2> QED
    BY <2>1, <2>2
<1>3. ASSUME NEW ip \in IP, NEW k \in EvidenceKey, NEW g \in Grade, RecordSuccess(ip, k, g)
      PROVE  PoolTypeOK'
  <2>1. evidence' \in [IP -> [EvidenceKey -> Grade \cup {0}]]
    BY <1>3, AddEvidenceStep DEF RecordSuccess
  <2>2. responded' \in [IP -> BOOLEAN]
    BY <1>3 DEF RecordSuccess, PoolTypeOK
  <2>3. status' \in [IP -> DeviceStatus \cup {"absent"}]
    BY <1>3 DEF RecordSuccess, PoolTypeOK, DeviceStatus
  <2>4. streak' \in [IP -> 0..FailCap]
    BY <1>3, ThresholdAssumption DEF RecordSuccess, PoolTypeOK
  <2> QED
    BY <2>1, <2>2, <2>3, <2>4 DEF PoolTypeOK
<1>4. ASSUME NEW ip \in IP, NEW k \in EvidenceKey, NEW g \in Grade, EnsureWithEvidence(ip, k, g)
      PROVE  PoolTypeOK'
  <2>1. evidence' \in [IP -> [EvidenceKey -> Grade \cup {0}]]
    BY <1>4, AddEvidenceStep DEF EnsureWithEvidence
  <2> QED
    BY <1>4, <2>1, EnsuredCases DEF EnsureWithEvidence, PoolTypeOK, DeviceStatus
<1>5. CASE ClearStale
  BY <1>5, ThresholdAssumption DEF ClearStale, PoolTypeOK, NoEvidence
<1>6. CASE UNCHANGED poolVars
  BY <1>6 DEF poolVars, PoolTypeOK
<1> QED
  BY <1>1, <1>2, <1>3, <1>4, <1>5, <1>6 DEF PoolNext

\* The registry's state keeps its shape under every operation of device_pool.go.
THEOREM PoolTypeCorrect == PoolSpec => []PoolTypeOK
  BY PoolTypeInit, PoolTypeStep, PTL DEF PoolSpec

-----------------------------------------------------------------------------
(* Life cycle *)

LEMMA StreakStep ==
    PoolTypeOK /\ StreakMatchesStatus /\ [PoolNext]_poolVars => StreakMatchesStatus'
<1> SUFFICES ASSUME PoolTypeOK, StreakMatchesStatus, [PoolNext]_poolVars
             PROVE  StreakMatchesStatus'
  OBVIOUS
<1>1. ASSUME NEW ip \in IP, status' = [status EXCEPT ![ip] = Ensured(ip)], UNCHANGED streak
      PROVE  StreakMatchesStatus'
  BY <1>1, EnsuredCases, ThresholdAssumption DEF StreakMatchesStatus, PoolTypeOK
<1>2. ASSUME NEW ip \in IP, RecordFailure(ip) PROVE StreakMatchesStatus'
  <2>1. CASE status[ip] = "absent"
    BY <1>2, <2>1 DEF RecordFailure, StreakMatchesStatus
  <2>2. CASE status[ip] # "absent"
    <3> DEFINE n == Bump(streak[ip])
               s == AfterFailure(status[ip], n)
    <3>1. /\ streak' = [streak EXCEPT ![ip] = n]
          /\ status' = [status EXCEPT ![ip] = s]
      BY <1>2, <2>2 DEF RecordFailure
    <3>2. /\ n \in 0..FailCap
          /\ n >= streak[ip]
          /\ streak[ip] < FailCap => n = streak[ip] + 1
          /\ streak[ip] \in 0..FailCap
      BY BumpType DEF PoolTypeOK
    <3> HIDE DEF n
    <3>3. /\ s = "candidate" => n < CandidateFailMax
          /\ s = "active" => n < RecentlyAfter
          /\ s = "recently_seen" => n >= RecentlyAfter /\ (n = RecentlyAfter \/ n < StaleAfter)
          /\ s = "stale" => n >= StaleAfter /\ n > RecentlyAfter
          /\ s = "unreachable" => n >= CandidateFailMax
          /\ s # "absent"
      <4>1. status[ip] \in DeviceStatus
        BY <2>2 DEF PoolTypeOK
      <4>2. CASE status[ip] = "active"
        BY <4>2, <3>2, ThresholdAssumption DEF AfterFailure, StreakMatchesStatus
      <4>3. CASE status[ip] = "recently_seen"
        BY <4>3, <3>2, ThresholdAssumption DEF AfterFailure, StreakMatchesStatus
      <4>4. CASE status[ip] = "candidate"
        BY <4>4, <3>2, ThresholdAssumption DEF AfterFailure, StreakMatchesStatus
      <4>5. CASE status[ip] \in {"stale", "unreachable"}
        BY <4>5, <3>2, ThresholdAssumption DEF AfterFailure, StreakMatchesStatus
      <4> QED
        BY <4>1, <4>2, <4>3, <4>4, <4>5 DEF DeviceStatus
    <3> HIDE DEF s
    <3> QED
      BY <3>1, <3>2, <3>3 DEF StreakMatchesStatus, PoolTypeOK
  <2> QED
    BY <2>1, <2>2
<1>3. ASSUME NEW ip \in IP, NEW k \in EvidenceKey, NEW g \in Grade, RecordSuccess(ip, k, g)
      PROVE  StreakMatchesStatus'
  BY <1>3, ThresholdAssumption DEF RecordSuccess, StreakMatchesStatus, PoolTypeOK
<1>4. CASE ClearStale
  BY <1>4 DEF ClearStale, Cleared, StreakMatchesStatus, PoolTypeOK
<1>5. CASE UNCHANGED poolVars
  BY <1>5 DEF poolVars, StreakMatchesStatus
<1> QED
  BY <1>1, <1>2, <1>3, <1>4, <1>5 DEF PoolNext, EnsureCandidate, EnsureWithEvidence

\* The life cycle of device_pool.go, for any positive thresholds: a status always
\* agrees with the run of consecutive failures behind it.
THEOREM PoolStreaks == PoolSpec => []StreakMatchesStatus
<1>1. PoolInit => StreakMatchesStatus
  BY ThresholdAssumption DEF PoolInit, StreakMatchesStatus
<1> QED
  BY <1>1, StreakStep, PoolTypeCorrect, PTL DEF PoolSpec

LEMMA MapStep ==
    PoolTypeOK /\ MapShowsRespondersOnly /\ [PoolNext]_poolVars => MapShowsRespondersOnly'
<1> SUFFICES ASSUME PoolTypeOK, MapShowsRespondersOnly, [PoolNext]_poolVars
             PROVE  MapShowsRespondersOnly'
  OBVIOUS
<1> USE DEF MapShowsRespondersOnly, OnMap
<1>1. ASSUME NEW ip \in IP, status' = [status EXCEPT ![ip] = Ensured(ip)], UNCHANGED responded
      PROVE  MapShowsRespondersOnly'
  BY <1>1, EnsuredCases DEF PoolTypeOK
<1>2. ASSUME NEW ip \in IP, RecordFailure(ip) PROVE MapShowsRespondersOnly'
  <2>1. \A n : status[ip] \in OnMap <=> AfterFailure(status[ip], n) \in OnMap
    BY DEF AfterFailure
  <2> QED
    BY <1>2, <2>1 DEF RecordFailure, PoolTypeOK
<1>3. ASSUME NEW ip \in IP, NEW k \in EvidenceKey, NEW g \in Grade, RecordSuccess(ip, k, g)
      PROVE  MapShowsRespondersOnly'
  BY <1>3 DEF RecordSuccess, PoolTypeOK
<1>4. CASE ClearStale
  BY <1>4 DEF ClearStale, Cleared, PoolTypeOK
<1>5. CASE UNCHANGED poolVars
  BY <1>5 DEF poolVars
<1> QED
  BY <1>1, <1>2, <1>3, <1>4, <1>5 DEF PoolNext, EnsureCandidate, EnsureWithEvidence

\* topologyDevices() never sends a raw candidate or an unreachable address to the map,
\* and never leaves out a device that has answered.
THEOREM PoolMap == PoolSpec => []MapShowsRespondersOnly
<1>1. PoolInit => MapShowsRespondersOnly
  BY DEF PoolInit, MapShowsRespondersOnly, OnMap
<1> QED
  BY <1>1, MapStep, PoolTypeCorrect, PTL DEF PoolSpec

-----------------------------------------------------------------------------
(* Evidence *)

LEMMA EvidenceStep ==
    ASSUME PoolTypeOK, [PoolNext]_poolVars
    PROVE  \A ip \in IP, k \in EvidenceKey :
              status'[ip] # "absent" => evidence'[ip][k] >= evidence[ip][k]
<1>0. \A ip \in IP, k \in EvidenceKey : evidence[ip][k] \in Nat
  BY GradeNat DEF PoolTypeOK
<1>1. ASSUME UNCHANGED evidence
      PROVE  \A ip \in IP, k \in EvidenceKey : evidence'[ip][k] >= evidence[ip][k]
  BY <1>0, <1>1
<1>2. ASSUME NEW ip \in IP, NEW k \in EvidenceKey, NEW g \in Grade,
             RecordSuccess(ip, k, g) \/ EnsureWithEvidence(ip, k, g)
      PROVE  \A i \in IP, key \in EvidenceKey : evidence'[i][key] >= evidence[i][key]
  BY <1>2, AddEvidenceStep DEF RecordSuccess, EnsureWithEvidence
<1>3. ASSUME ClearStale
      PROVE  \A ip \in IP, k \in EvidenceKey :
                status'[ip] # "absent" => evidence'[ip][k] >= evidence[ip][k]
  BY <1>0, <1>3 DEF ClearStale
<1>4. ASSUME NEW ip \in IP, EnsureCandidate(ip) \/ RecordFailure(ip)
      PROVE  UNCHANGED evidence
  BY <1>4 DEF EnsureCandidate, RecordFailure
<1> QED
  BY <1>1, <1>2, <1>3, <1>4 DEF PoolNext, poolVars

\* AddEvidence: "weaker duplicates never overwrite stronger observations".
THEOREM PoolEvidence == PoolSpec => EvidenceNeverWeakens
<1>1. PoolTypeOK /\ [PoolNext]_poolVars =>
        [\A ip \in IP, k \in EvidenceKey :
            status'[ip] # "absent" => evidence'[ip][k] >= evidence[ip][k]]_poolVars
  BY EvidenceStep
<1> QED
  BY <1>1, PoolTypeCorrect, PTL DEF PoolSpec, EvidenceNeverWeakens

-----------------------------------------------------------------------------
(* The registry with fingerprints uses the registry.                       *)

\* Every step is an operation of the registry or leaves its part of the entries alone.
LEMMA LiveStep == [LiveNext]_liveVars => [PoolNext]_poolVars
<1> SUFFICES ASSUME [LiveNext]_liveVars PROVE [PoolNext]_poolVars
  OBVIOUS
<1>1. ASSUME NEW s \in Sightings, AddLiveEvidence(s[1], s[2], s[3]) PROVE PoolNext
  <2>1. s[1] \in IP /\ s[3] \in Grade /\ (Accepted(s[2]) => Sanitized(s[2]) \in EvidenceKey)
    BY SightingAssumption
  <2>2. CASE Accepted(s[2])
    <3>1. EnsureWithEvidence(s[1], Sanitized(s[2]), s[3])
      BY <1>1, <2>2 DEF AddLiveEvidence
    <3> QED
      BY <2>1, <2>2, <3>1 DEF PoolNext
  <2>3. CASE ~Accepted(s[2])
    <3>1. EnsureCandidate(s[1])
      BY <1>1, <2>3 DEF AddLiveEvidence
    <3> QED
      BY <2>1, <3>1 DEF PoolNext
  <2> QED
    BY <2>2, <2>3
<1>2. ASSUME NEW ip \in IP, NEW p \in Pings, PingAnswered(ip, p[1], p[2]) PROVE PoolNext
  <2>1. p[1] \in EvidenceKey /\ p[2] \in Grade
    BY SightingAssumption
  <2> QED
    BY <1>2, <2>1 DEF PingAnswered, PoolNext
<1>3. ASSUME NEW ip \in IP, Missed(ip) \/ Seeded(ip) PROVE PoolNext
  BY <1>3 DEF Missed, Seeded, PoolNext
<1>4. CASE Clear
  BY <1>4 DEF Clear, PoolNext
<1>5. CASE RefreshMobileFingerprints
  BY <1>5 DEF RefreshMobileFingerprints
<1>6. CASE UNCHANGED liveVars
  BY <1>6 DEF liveVars, poolVars
<1> QED
  BY <1>1, <1>2, <1>3, <1>4, <1>5, <1>6 DEF LiveNext

\* Fingerprints are an addition: the operations with them (AddDeviceEvidence, consume, the refresh of
\* the batch loop) change statuses, failure runs and evidence only as the registry's own do.
THEOREM LiveUsesRegistry == LiveSpec => PoolSpec
<1>1. LiveInit => PoolInit
  BY DEF LiveInit
<1> QED
  BY <1>1, LiveStep, PTL DEF LiveSpec, PoolSpec

\* The statuses shown beside the fingerprints agree with the failure runs.
THEOREM LiveStatusesSound == LiveSpec => []StreakMatchesStatus
  BY LiveUsesRegistry, PoolStreaks, PTL

-----------------------------------------------------------------------------
(* The scorer's state, and one signal.                                      *)

Warnings == {"random", "mdns", "dns", "user_agent", "5353", "common"}
Categories == {"hostname", "mac_oui", "mdns", "dns_query", "user_agent", "service_port", "service_name", "passive_packet"}
Scores == [score : [OSes -> Nat], strong : [OSes -> Nat], cats : [OSes -> SUBSET Categories], n : Nat, warnings : SUBSET Warnings, random : BOOLEAN]

-----------------------------------------------------------------------------
(* The loop over an entry's evidence.                                      *)

\* Its result is the last of the states it runs through.
LEMMA ScoreFold ==
    ASSUME NEW A, NEW base \in Scores, NEW q \in Seq(A),
           \A s \in Scores, x \in A : ScoreItem(s, x) \in Scores
    PROVE  \E acc \in [0..Len(q) -> Scores] :
              /\ acc[0] = base
              /\ \A k \in 1..Len(q) : acc[k] = ScoreItem(acc[k - 1], q[k])
              /\ FoldLeft(ScoreItem, base, q) = acc[Len(q)]
<1> DEFINE o == [p \in Scores \X A |-> ScoreItem(p[1], p[2])]
           Sol(g) == g = [s \in SUBSET DOMAIN q |-> IF s = {} THEN base ELSE ScoreItem(g[s \ {Max(s)}], q[Max(s)])]
           f == CHOOSE g : Sol(g)
<1>0. Len(q) \in Nat /\ DOMAIN q = 1..Len(q) /\ \A k \in 1..Len(q) : q[k] \in A
  OBVIOUS
<1>1. \A s \in Scores, x \in A : o[<<s, x>>] = ScoreItem(s, x)
  OBVIOUS
<1>11. o \in [Scores \X A -> Scores]
  OBVIOUS
<1> HIDE DEF o
<1>2. PICK h \in [SUBSET DOMAIN q -> Scores] : IsFold(h, o, base, q)
  BY <1>11, FoldExists
<1>3. \A s \in SUBSET DOMAIN q : s # {} => Max(s) \in DOMAIN q
  BY <1>0, MaxIn
<1>4. Sol(h)
  <2>1. ASSUME NEW s \in SUBSET DOMAIN q, s # {} PROVE h[s] = ScoreItem(h[s \ {Max(s)}], q[Max(s)])
    <3>1. h[s \ {Max(s)}] \in Scores /\ q[Max(s)] \in A
      BY <1>0, <1>3, <2>1
    <3> QED
      BY <1>1, <1>2, <2>1, <3>1 DEF IsFold
  <2> QED
    BY <1>2, <2>1 DEF IsFold
<1>5. Sol(f)
  BY <1>4, Zenon
<1>6. FoldLeft(ScoreItem, base, q) = f[DOMAIN q]
  BY Zenon DEF FoldLeft, MapThenFoldSet
<1> HIDE DEF f
<1>7. f[{}] = base
  BY <1>5
<1>8. ASSUME NEW k \in 1..Len(q), f[1..k - 1] \in Scores PROVE f[1..k] = o[<<f[1..k - 1], q[k]>>]
  <2>1. k \in Nat /\ k # 0 /\ 1..k \in SUBSET DOMAIN q
    BY <1>0
  <2>2. f[1..k] = ScoreItem(f[(1..k) \ {Max(1..k)}], q[Max(1..k)])
    BY <1>5, <2>1, MaxOfPrefix
  <2> QED
    BY <1>0, <1>1, <1>8, <2>1, <2>2, MaxOfPrefix
<1>81. Unrolls(f, o, base, Scores, q)
  BY <1>7, <1>8 DEF Unrolls
<1>9. PICK acc \in [0..Len(q) -> Scores] : IsRun(acc, o, base, q) /\ EndsIn(acc, q, f[DOMAIN q])
  BY <1>11, <1>81, FoldPrefixes
<1>10. ASSUME NEW k \in 1..Len(q) PROVE acc[k] = ScoreItem(acc[k - 1], q[k])
  <2>1. k - 1 \in 0..Len(q) /\ q[k] \in A
    BY <1>0
  <2>2. acc[k - 1] \in Scores
    BY <2>1
  <2> QED
    BY <1>1, <1>9, <2>1, <2>2 DEF IsRun
<1> QED
  BY <1>6, <1>9, <1>10 DEF IsRun, EndsIn


Signals == [oses : SUBSET OSes, impact : 0..45, strong : BOOLEAN]

Leq(s, t) == \A o \in OSes : s.score[o] <= t.score[o]

Within(s, t, k) == \A o \in OSes : t.score[o] <= s.score[o] + k

\* A signal raises the scores of its systems and nothing else that is compared here.
LEMMA AddFacts ==
    ASSUME NEW s \in Scores, NEW cat \in Categories, NEW signal \in Signals
    PROVE  /\ Add(s, cat, signal) \in Scores
           /\ Add(s, cat, signal).warnings = s.warnings
           /\ Add(s, cat, signal) # s
           /\ \A o \in OSes : Add(s, cat, signal).score[o] = IF o \in signal.oses THEN s.score[o] + signal.impact ELSE s.score[o]
<1>1. Add(s, cat, signal).n = s.n + 1 /\ s.n \in Nat
  BY DEF Add, Scores
<1>2. Add(s, cat, signal) \in Scores
  <2> DEFINE score  == [o \in OSes |-> IF o \in signal.oses THEN s.score[o] + signal.impact ELSE s.score[o]]
             strong == [o \in OSes |-> IF o \in signal.oses /\ signal.strong THEN s.strong[o] + 1 ELSE s.strong[o]]
             cats   == [o \in OSes |-> IF o \in signal.oses THEN s.cats[o] \cup {cat} ELSE s.cats[o]]
  <2>1. Add(s, cat, signal) = [score |-> score, strong |-> strong, cats |-> cats, n |-> s.n + 1, warnings |-> s.warnings, random |-> s.random]
    BY DEF Add
  <2>2. score \in [OSes -> Nat]
    BY DEF Scores, Signals
  <2>3. strong \in [OSes -> Nat]
    BY DEF Scores
  <2>4. cats \in [OSes -> SUBSET Categories]
    BY DEF Scores
  <2>5. s.n + 1 \in Nat /\ s.warnings \in SUBSET Warnings /\ s.random \in BOOLEAN
    BY DEF Scores
  <2> HIDE DEF score, strong, cats
  <2> QED
    BY <2>1, <2>2, <2>3, <2>4, <2>5 DEF Scores
<1>3. Add(s, cat, signal).warnings = s.warnings
  BY DEF Add, Scores, Signals
<1>4. \A o \in OSes : Add(s, cat, signal).score[o] = IF o \in signal.oses THEN s.score[o] + signal.impact ELSE s.score[o]
  BY DEF Add, Scores, Signals
<1> QED
  BY <1>1, <1>2, <1>3, <1>4

LEMMA WarnFacts ==
    ASSUME NEW s \in Scores, NEW w \in Warnings
    PROVE  /\ Warn(s, w) \in Scores
           /\ Warn(s, w).warnings = s.warnings \cup {w}
           /\ Warn(s, w).score = s.score
  BY DEF Warn, Scores

\* A table adds the signal of one of its rows or none, whatever the score.
LEMMA FirstRow ==
    ASSUME NEW table, DOMAIN table \in SUBSET Nat, NEW text
    PROVE  \/ \A s, cat : AddFirst(s, cat, table, text) = s
           \/ \E i \in DOMAIN table : \A s, cat : AddFirst(s, cat, table, text) = Add(s, cat, table[i][2])
<1> DEFINE hits == {i \in DOMAIN table : table[i][1] \cap text # {}}
           first == CHOOSE i \in hits : \A j \in hits : i <= j
<1>1. CASE hits = {}
  BY <1>1 DEF AddFirst
<1>2. CASE hits # {}
  <2>1. hits \in SUBSET Nat
    OBVIOUS
  <2>2. \A s, cat : AddFirst(s, cat, table, text) = Add(s, cat, table[first][2])
    BY <1>2 DEF AddFirst
  <2>3. first \in DOMAIN table
    <3> HIDE DEF hits
    <3>1. \E i \in hits : \A j \in hits : i <= j
      BY <1>2, <2>1, NatMin
    <3>2. first \in hits
      BY <3>1
    <3> QED
      BY <3>2 DEF hits
  <2> HIDE DEF first
  <2> QED
    BY <2>2, <2>3
<1> QED
  BY <1>1, <1>2

\* A table of signals.
Scorer(table) == DOMAIN table \in SUBSET Nat /\ \A i \in DOMAIN table : table[i][2] \in Signals

LEMMA OSSets == {"ios"} \in SUBSET OSes /\ {"ipados"} \in SUBSET OSes /\ {"android"} \in SUBSET OSes /\ Apple \in SUBSET OSes
  BY DEF OSes, Apple

LEMMA HostnameTableSignals == Scorer(HostnameTable)
<1>1. DOMAIN HostnameTable = 1..4
  BY DEF HostnameTable
<1>2. HostnameTable[1][2] \in Signals
  <2>1. HostnameTable[1][2] = Signal({"ios"}, 45, TRUE)
    BY DEF HostnameTable
  <2> QED
    BY <2>1, OSSets DEF Signal, Signals
<1>3. HostnameTable[2][2] \in Signals
  <2>1. HostnameTable[2][2] = Signal({"ipados"}, 45, TRUE)
    BY DEF HostnameTable
  <2> QED
    BY <2>1, OSSets DEF Signal, Signals
<1>4. HostnameTable[3][2] \in Signals
  <2>1. HostnameTable[3][2] = Signal({"ios"}, 30, FALSE)
    BY DEF HostnameTable
  <2> QED
    BY <2>1, OSSets DEF Signal, Signals
<1>5. HostnameTable[4][2] \in Signals
  <2>1. HostnameTable[4][2] = Signal({"android"}, 45, TRUE)
    BY DEF HostnameTable
  <2> QED
    BY <2>1, OSSets DEF Signal, Signals
<1> QED
  BY <1>1, <1>2, <1>3, <1>4, <1>5 DEF Scorer

LEMMA MDNSTableSignals == Scorer(MDNSTable)
<1>1. DOMAIN MDNSTable = 1..5
  BY DEF MDNSTable
<1>2. MDNSTable[1][2] \in Signals
  <2>1. MDNSTable[1][2] = Signal({"ios"}, 45, TRUE)
    BY DEF MDNSTable
  <2> QED
    BY <2>1, OSSets DEF Signal, Signals
<1>3. MDNSTable[2][2] \in Signals
  <2>1. MDNSTable[2][2] = Signal({"ipados"}, 45, TRUE)
    BY DEF MDNSTable
  <2> QED
    BY <2>1, OSSets DEF Signal, Signals
<1>4. MDNSTable[3][2] \in Signals
  <2>1. MDNSTable[3][2] = Signal(Apple, 30, TRUE)
    BY DEF MDNSTable
  <2> QED
    BY <2>1, OSSets DEF Signal, Signals
<1>5. MDNSTable[4][2] \in Signals
  <2>1. MDNSTable[4][2] = Signal(Apple, 25, FALSE)
    BY DEF MDNSTable
  <2> QED
    BY <2>1, OSSets DEF Signal, Signals
<1>6. MDNSTable[5][2] \in Signals
  <2>1. MDNSTable[5][2] = Signal({"android"}, 30, TRUE)
    BY DEF MDNSTable
  <2> QED
    BY <2>1, OSSets DEF Signal, Signals
<1> QED
  BY <1>1, <1>2, <1>3, <1>4, <1>5, <1>6 DEF Scorer

LEMMA UserAgentTableSignals == Scorer(UserAgentTable)
<1>1. DOMAIN UserAgentTable = 1..3
  BY DEF UserAgentTable
<1>2. UserAgentTable[1][2] \in Signals
  <2>1. UserAgentTable[1][2] = Signal({"ios"}, 45, TRUE)
    BY DEF UserAgentTable
  <2> QED
    BY <2>1, OSSets DEF Signal, Signals
<1>3. UserAgentTable[2][2] \in Signals
  <2>1. UserAgentTable[2][2] = Signal({"ipados"}, 45, TRUE)
    BY DEF UserAgentTable
  <2> QED
    BY <2>1, OSSets DEF Signal, Signals
<1>4. UserAgentTable[3][2] \in Signals
  <2>1. UserAgentTable[3][2] = Signal({"android"}, 45, TRUE)
    BY DEF UserAgentTable
  <2> QED
    BY <2>1, OSSets DEF Signal, Signals
<1> QED
  BY <1>1, <1>2, <1>3, <1>4 DEF Scorer

LEMMA DNSTableSignals == Scorer(DNSTable)
<1>1. DOMAIN DNSTable = 1..2
  BY DEF DNSTable
<1>2. DNSTable[1][2] \in Signals
  <2>1. DNSTable[1][2] = Signal(Apple, 20, FALSE)
    BY DEF DNSTable
  <2> QED
    BY <2>1, OSSets DEF Signal, Signals
<1>3. DNSTable[2][2] \in Signals
  <2>1. DNSTable[2][2] = Signal({"android"}, 20, FALSE)
    BY DEF DNSTable
  <2> QED
    BY <2>1, OSSets DEF Signal, Signals
<1> QED
  BY <1>1, <1>2, <1>3 DEF Scorer

LEMMA PassiveTableSignals == Scorer(PassiveTable)
<1>1. DOMAIN PassiveTable = 1..3
  BY DEF PassiveTable
<1>2. PassiveTable[1][2] \in Signals
  <2>1. PassiveTable[1][2] = Signal({"ios"}, 30, FALSE)
    BY DEF PassiveTable
  <2> QED
    BY <2>1, OSSets DEF Signal, Signals
<1>3. PassiveTable[2][2] \in Signals
  <2>1. PassiveTable[2][2] = Signal({"ipados"}, 30, FALSE)
    BY DEF PassiveTable
  <2> QED
    BY <2>1, OSSets DEF Signal, Signals
<1>4. PassiveTable[3][2] \in Signals
  <2>1. PassiveTable[3][2] = Signal({"android"}, 30, FALSE)
    BY DEF PassiveTable
  <2> QED
    BY <2>1, OSSets DEF Signal, Signals
<1> QED
  BY <1>1, <1>2, <1>3, <1>4 DEF Scorer


-----------------------------------------------------------------------------
(* How a score moves: s to u, and beside it t to v. Warnings and points only *)
(* grow, and a step keeps what lies below another one below it.             *)

Sound(s, u) == u \in Scores /\ s.warnings \subseteq u.warnings /\ Leq(s, u)

Move(s, t, u, v) ==
    /\ Sound(s, u) /\ Sound(t, v)
    /\ s.warnings \subseteq t.warnings => u.warnings \subseteq v.warnings
    /\ Leq(s, t) => Leq(u, v)

LEMMA NoMove == ASSUME NEW s \in Scores, NEW t \in Scores PROVE Move(s, t, s, t) /\ Within(s, s, 45)
  BY DEF Move, Sound, Leq, Within, Scores

LEMMA AddMove ==
    ASSUME NEW s \in Scores, NEW t \in Scores, NEW cat \in Categories, NEW signal \in Signals
    PROVE  Move(s, t, Add(s, cat, signal), Add(t, cat, signal)) /\ Within(s, Add(s, cat, signal), 45)
<1> DEFINE u == Add(s, cat, signal)
           v == Add(t, cat, signal)
<1>1. /\ u \in Scores /\ u.warnings = s.warnings
      /\ \A o \in OSes : u.score[o] = IF o \in signal.oses THEN s.score[o] + signal.impact ELSE s.score[o]
  BY AddFacts
<1>2. /\ v \in Scores /\ v.warnings = t.warnings
      /\ \A o \in OSes : v.score[o] = IF o \in signal.oses THEN t.score[o] + signal.impact ELSE t.score[o]
  BY AddFacts
<1> HIDE DEF u, v
<1>3. \A o \in OSes : s.score[o] \in Nat /\ t.score[o] \in Nat /\ signal.impact \in 0..45
  BY DEF Scores, Signals
<1>4. Leq(s, u) /\ Within(s, u, 45)
  BY <1>1, <1>3 DEF Leq, Within
<1>5. Leq(t, v)
  BY <1>2, <1>3 DEF Leq
<1>6. ASSUME Leq(s, t) PROVE Leq(u, v)
  <2> SUFFICES ASSUME NEW o \in OSes PROVE u.score[o] <= v.score[o]
    BY DEF Leq
  <2>1. s.score[o] <= t.score[o]
    BY <1>6 DEF Leq
  <2> QED
    BY <1>1, <1>2, <1>3, <2>1
<1>7. Sound(s, u) /\ Sound(t, v) /\ (s.warnings \subseteq t.warnings => u.warnings \subseteq v.warnings)
  BY <1>1, <1>2, <1>4, <1>5 DEF Sound
<1> HIDE DEF u, v
<1>8. Move(s, t, u, v) /\ Within(s, u, 45)
  BY <1>4, <1>6, <1>7 DEF Move
<1> QED
  BY <1>8 DEF u, v

LEMMA WarnMove ==
    ASSUME NEW s \in Scores, NEW t \in Scores, NEW w \in Warnings
    PROVE  Move(s, t, Warn(s, w), Warn(t, w)) /\ Within(s, Warn(s, w), 45)
<1>1. \A o \in OSes : s.score[o] \in Nat /\ t.score[o] \in Nat
  BY DEF Scores
<1> QED
  BY <1>1, WarnFacts DEF Move, Sound, Leq, Within

\* Moves follow one another.
LEMMA MoveTrans ==
    ASSUME NEW s \in Scores, NEW t \in Scores, NEW a, NEW b, NEW u, NEW v, Move(s, t, a, b), Move(a, b, u, v)
    PROVE  Move(s, t, u, v)
<1>1. a \in Scores /\ b \in Scores /\ u \in Scores /\ v \in Scores
  BY DEF Move, Sound
<1>2. \A o \in OSes : s.score[o] \in Nat /\ a.score[o] \in Nat /\ u.score[o] \in Nat
                      /\ t.score[o] \in Nat /\ b.score[o] \in Nat /\ v.score[o] \in Nat
  BY <1>1 DEF Scores
<1>3. Sound(s, u) /\ Sound(t, v)
  BY <1>1, <1>2 DEF Move, Sound, Leq
<1> QED
  BY <1>3 DEF Move

\* Supporting signals count beside other evidence, of which a greater score has no less.
LEMMA SeenKept ==
    ASSUME NEW s \in Scores, NEW t \in Scores, Leq(s, t)
    PROVE  (SeenApple(s) => SeenApple(t)) /\ (SeenAndroid(s) => SeenAndroid(t))
<1>1. \A o \in OSes : s.score[o] \in Nat /\ t.score[o] \in Nat
  BY DEF Scores
<1> QED
  BY <1>1 DEF Leq, SeenApple, SeenAndroid, OSes

IfApple(s, cat, signal) == IF SeenApple(s) THEN Add(s, cat, signal) ELSE s
IfAndroid(s, cat, signal) == IF SeenAndroid(s) THEN Add(s, cat, signal) ELSE s

LEMMA IfMove ==
    ASSUME NEW s \in Scores, NEW t \in Scores, NEW cat \in Categories, NEW signal \in Signals
    PROVE  /\ Move(s, t, IfApple(s, cat, signal), IfApple(t, cat, signal)) /\ Within(s, IfApple(s, cat, signal), 45)
           /\ Move(s, t, IfAndroid(s, cat, signal), IfAndroid(t, cat, signal)) /\ Within(s, IfAndroid(s, cat, signal), 45)
<1> DEFINE u == Add(s, cat, signal)
           v == Add(t, cat, signal)
<1>1. Move(s, t, u, v) /\ Within(s, u, 45) /\ Move(s, t, s, t) /\ Within(s, s, 45)
  BY AddMove, NoMove
<1>2. u.warnings = s.warnings /\ v.warnings = t.warnings
  BY AddFacts
<1>3. Move(s, t, s, v)
  <2>1. Leq(s, t) => Leq(s, v)
    <3>1. v \in Scores /\ Leq(t, v)
      BY <1>1 DEF Move, Sound
    <3>2. \A o \in OSes : s.score[o] \in Nat /\ t.score[o] \in Nat /\ v.score[o] \in Nat
      BY <3>1 DEF Scores
    <3> QED
      BY <3>1, <3>2 DEF Leq
  <2> QED
    BY <1>1, <1>2, <2>1 DEF Move
<1>4. ~Leq(s, t) => Move(s, t, u, t)
  BY <1>1, <1>2 DEF Move
<1> HIDE DEF u, v
<1>5. IfApple(s, cat, signal) = IF SeenApple(s) THEN u ELSE s
  BY DEF IfApple, u
<1>6. IfApple(t, cat, signal) = IF SeenApple(t) THEN v ELSE t
  BY DEF IfApple, v
<1>7. IfAndroid(s, cat, signal) = IF SeenAndroid(s) THEN u ELSE s
  BY DEF IfAndroid, u
<1>8. IfAndroid(t, cat, signal) = IF SeenAndroid(t) THEN v ELSE t
  BY DEF IfAndroid, v
<1>9. Leq(s, t) => (SeenApple(s) => SeenApple(t)) /\ (SeenAndroid(s) => SeenAndroid(t))
  BY SeenKept
<1> QED
  BY <1>1, <1>3, <1>4, <1>5, <1>6, <1>7, <1>8, <1>9

LEMMA FirstMove ==
    ASSUME NEW s \in Scores, NEW t \in Scores, NEW cat \in Categories, NEW table, Scorer(table), NEW text
    PROVE  Move(s, t, AddFirst(s, cat, table, text), AddFirst(t, cat, table, text)) /\ Within(s, AddFirst(s, cat, table, text), 45)
<1>1. CASE \A x, c : AddFirst(x, c, table, text) = x
  BY <1>1, NoMove
<1>2. CASE \E i \in DOMAIN table : \A x, c : AddFirst(x, c, table, text) = Add(x, c, table[i][2])
  <2>1. PICK i \in DOMAIN table : \A x, c : AddFirst(x, c, table, text) = Add(x, c, table[i][2])
    BY <1>2
  <2>2. table[i][2] \in Signals
    BY DEF Scorer
  <2>3. AddFirst(s, cat, table, text) = Add(s, cat, table[i][2]) /\ AddFirst(t, cat, table, text) = Add(t, cat, table[i][2])
    BY <2>1
  <2> QED
    BY <2>2, <2>3, AddMove
<1> QED
  BY <1>1, <1>2, FirstRow DEF Scorer

-----------------------------------------------------------------------------
(* The sorts of evidence.                                                  *)

LEMMA CatsWarns ==
    /\ \A c \in {"hostname", "mac_oui", "mdns", "dns_query", "user_agent", "service_port", "service_name", "passive_packet"} : c \in Categories
    /\ \A w \in {"random", "mdns", "dns", "user_agent", "5353", "common"} : w \in Warnings
  BY DEF Categories, Warnings

LEMMA HostnameMove ==
    ASSUME NEW s \in Scores, NEW t \in Scores, NEW text
    PROVE  Move(s, t, ScoreHostname(s, text), ScoreHostname(t, text)) /\ Within(s, ScoreHostname(s, text), 45)
  BY FirstMove, HostnameTableSignals, CatsWarns DEF ScoreHostname

LEMMA VendorMove ==
    ASSUME NEW s \in Scores, NEW t \in Scores, NEW local \in BOOLEAN, NEW text
    PROVE  /\ Move(s, t, ScoreMACOrVendor(s, local, text), ScoreMACOrVendor(t, local, text))
           /\ Within(s, ScoreMACOrVendor(s, local, text), 45)
<1> DEFINE warned(x) == IF local THEN [Warn(x, "random") EXCEPT !.random = TRUE] ELSE x
           impact == IF local THEN 8 ELSE 35
           scored(x) == IF "apple" \in text THEN Add(x, "mac_oui", Signal(Apple, impact, FALSE))
                        ELSE IF text \cap AndroidVendors # {} THEN Add(x, "mac_oui", Signal({"android"}, impact, FALSE))
                        ELSE x
<1>1. Move(s, t, warned(s), warned(t)) /\ \A o \in OSes : warned(s).score[o] = s.score[o]
  <2>1. CASE ~local
    BY <2>1, NoMove
  <2>2. CASE local
    <3> DEFINE u == Warn(s, "random")
               v == Warn(t, "random")
    <3>1. Move(s, t, u, v) /\ u.score = s.score
      BY WarnMove, WarnFacts, CatsWarns
    <3>2. u \in Scores /\ v \in Scores
      BY WarnFacts, CatsWarns
    <3> HIDE DEF u, v
    <3>3. [u EXCEPT !.random = TRUE] \in Scores /\ [u EXCEPT !.random = TRUE].score = u.score /\ [u EXCEPT !.random = TRUE].warnings = u.warnings
      BY <3>2 DEF Scores
    <3>4. [v EXCEPT !.random = TRUE] \in Scores /\ [v EXCEPT !.random = TRUE].score = v.score /\ [v EXCEPT !.random = TRUE].warnings = v.warnings
      BY <3>2 DEF Scores
    <3>5. Move(s, t, [u EXCEPT !.random = TRUE], [v EXCEPT !.random = TRUE])
      BY <3>1, <3>3, <3>4 DEF Move, Sound, Leq
    <3> QED
      BY <2>2, <3>1, <3>3, <3>5 DEF u, v
  <2> QED
    BY <2>1, <2>2
<1>2. warned(s) \in Scores /\ warned(t) \in Scores
  BY <1>1 DEF Move, Sound
<1>3. Signal(Apple, impact, FALSE) \in Signals /\ Signal({"android"}, impact, FALSE) \in Signals
  BY OSSets DEF Signal, Signals
<1>4. Move(warned(s), warned(t), scored(warned(s)), scored(warned(t))) /\ Within(warned(s), scored(warned(s)), 45)
  <2> HIDE DEF warned, impact
  <2> QED
    BY <1>2, <1>3, AddMove, NoMove, CatsWarns
<1>5. ScoreMACOrVendor(s, local, text) = scored(warned(s)) /\ ScoreMACOrVendor(t, local, text) = scored(warned(t))
  BY DEF ScoreMACOrVendor
<1> HIDE DEF warned, scored
<1>6. Within(s, scored(warned(s)), 45)
  BY <1>1, <1>4 DEF Within
<1> QED
  BY <1>1, <1>4, <1>5, <1>6, MoveTrans

LEMMA MDNSMove ==
    ASSUME NEW s \in Scores, NEW t \in Scores, NEW text
    PROVE  Move(s, t, ScoreMDNS(s, text), ScoreMDNS(t, text)) /\ Within(s, ScoreMDNS(s, text), 45)
<1> DEFINE cast == Signal({"android"}, 15, FALSE)
<1>1. cast \in Signals
  BY OSSets DEF Signal, Signals
<1>2. CASE \E i \in DOMAIN MDNSTable : MDNSTable[i][1] \cap text # {}
  BY <1>2, FirstMove, MDNSTableSignals, CatsWarns DEF ScoreMDNS
<1>3. CASE ~(\E i \in DOMAIN MDNSTable : MDNSTable[i][1] \cap text # {}) /\ text \cap {"googlecast", "chromecast"} # {}
  <2>1. \A x : ScoreMDNS(x, text) = IfAndroid(x, "mdns", cast)
    BY <1>3 DEF ScoreMDNS, IfAndroid
  <2> HIDE DEF cast
  <2> QED
    BY <1>1, <2>1, IfMove, CatsWarns
<1>4. CASE ~(\E i \in DOMAIN MDNSTable : MDNSTable[i][1] \cap text # {}) /\ text \cap {"googlecast", "chromecast"} = {}
  <2>1. \A x : ScoreMDNS(x, text) = IF text \cap {"services", "mdns"} # {} THEN Warn(x, "mdns") ELSE x
    BY <1>4 DEF ScoreMDNS
  <2> QED
    BY <2>1, NoMove, WarnMove, CatsWarns
<1> QED
  BY <1>2, <1>3, <1>4

LEMMA WarnedMove ==
    ASSUME NEW s \in Scores, NEW t \in Scores, NEW u, NEW v, Move(s, t, u, v), Within(s, u, 45), NEW w \in Warnings
    PROVE  Move(s, t, Warn(u, w), Warn(v, w)) /\ Within(s, Warn(u, w), 45)
<1>1. u \in Scores /\ v \in Scores
  BY DEF Move, Sound
<1>2. Move(u, v, Warn(u, w), Warn(v, w)) /\ Warn(u, w).score = u.score
  BY <1>1, WarnMove, WarnFacts
<1> QED
  BY <1>2, MoveTrans DEF Within

LEMMA DNSMove ==
    ASSUME NEW s \in Scores, NEW t \in Scores, NEW text
    PROVE  Move(s, t, ScoreDNSCategory(s, text), ScoreDNSCategory(t, text)) /\ Within(s, ScoreDNSCategory(s, text), 45)
<1>1. CASE text \cap DNSCategory = {}
  BY <1>1, NoMove DEF ScoreDNSCategory
<1>2. CASE text \cap DNSCategory # {}
  <2>1. \A x : ScoreDNSCategory(x, text) = Warn(AddFirst(x, "dns_query", DNSTable, text), "dns")
    BY <1>2 DEF ScoreDNSCategory
  <2> QED
    BY <2>1, FirstMove, DNSTableSignals, WarnedMove, CatsWarns
<1> QED
  BY <1>1, <1>2

LEMMA UserAgentMove ==
    ASSUME NEW s \in Scores, NEW t \in Scores, NEW text
    PROVE  Move(s, t, ScoreUserAgent(s, text), ScoreUserAgent(t, text)) /\ Within(s, ScoreUserAgent(s, text), 45)
<1>1. CASE text = {}
  BY <1>1, NoMove DEF ScoreUserAgent
<1>2. CASE text # {}
  <2>1. \A x : ScoreUserAgent(x, text) = Warn(AddFirst(x, "user_agent", UserAgentTable, text), "user_agent")
    BY <1>2 DEF ScoreUserAgent
  <2> QED
    BY <2>1, FirstMove, UserAgentTableSignals, WarnedMove, CatsWarns
<1> QED
  BY <1>1, <1>2

LEMMA PassiveMove ==
    ASSUME NEW s \in Scores, NEW t \in Scores, NEW text
    PROVE  Move(s, t, ScorePassive(s, text), ScorePassive(t, text)) /\ Within(s, ScorePassive(s, text), 45)
<1> DEFINE first(x) == AddFirst(x, "passive_packet", PassiveTable, text)
           rest(x) == IF "5353" \in text THEN Warn(x, "5353") ELSE IF text \cap {"443", "80"} # {} THEN Warn(x, "common") ELSE x
<1>1. \A x : ScorePassive(x, text) = IF first(x) # x THEN first(x) ELSE rest(x)
  BY DEF ScorePassive
<1>2. Move(s, t, first(s), first(t)) /\ Within(s, first(s), 45)
  BY FirstMove, PassiveTableSignals, CatsWarns
<1>3. (first(s) # s) <=> (first(t) # t)
  <2>1. Scorer(PassiveTable)
    BY PassiveTableSignals
  <2>2. CASE \A x, c : AddFirst(x, c, PassiveTable, text) = x
    BY <2>2
  <2>3. CASE \E i \in DOMAIN PassiveTable : \A x, c : AddFirst(x, c, PassiveTable, text) = Add(x, c, PassiveTable[i][2])
    <3>1. PICK i \in DOMAIN PassiveTable : \A x, c : AddFirst(x, c, PassiveTable, text) = Add(x, c, PassiveTable[i][2])
      BY <2>3
    <3>2. PassiveTable[i][2] \in Signals
      BY <2>1 DEF Scorer
    <3> QED
      BY <3>1, <3>2, AddFacts, CatsWarns
  <2> QED
    BY <2>1, <2>2, <2>3, FirstRow DEF Scorer
<1>4. Move(s, t, rest(s), rest(t)) /\ Within(s, rest(s), 45)
  BY NoMove, WarnMove, CatsWarns
<1> HIDE DEF first, rest
<1> QED
  BY <1>1, <1>2, <1>3, <1>4

-----------------------------------------------------------------------------
\* What a signal adds to each family.
Gains(s, u, apple, android) ==
    /\ \A o \in Apple : u.score[o] <= s.score[o] + apple
    /\ u.score["android"] <= s.score["android"] + android

LEMMA AddGains ==
    ASSUME NEW s \in Scores, NEW cat \in Categories, NEW impact \in 0..45
    PROVE  /\ Signal(Apple, impact, FALSE) \in Signals /\ Gains(s, Add(s, cat, Signal(Apple, impact, FALSE)), impact, 0)
           /\ Signal({"android"}, impact, FALSE) \in Signals /\ Gains(s, Add(s, cat, Signal({"android"}, impact, FALSE)), 0, impact)
<1> DEFINE g == Signal(Apple, impact, FALSE)
           h == Signal({"android"}, impact, FALSE)
<1>1. g \in Signals /\ g.oses = Apple /\ g.impact = impact
  BY OSSets DEF Signal, Signals
<1>2. h \in Signals /\ h.oses = {"android"} /\ h.impact = impact
  BY OSSets DEF Signal, Signals
<1>3. \A o \in OSes : s.score[o] \in Nat
  BY DEF Scores
<1>4. \A o \in Apple : o \in OSes /\ o # "android"
  BY DEF OSes, Apple
<1>5. "android" \in OSes /\ "android" \notin Apple
  BY DEF OSes, Apple
<1> HIDE DEF g, h
<1> DEFINE u == Add(s, cat, g)
           v == Add(s, cat, h)
<1>6. \A o \in OSes : u.score[o] = IF o \in g.oses THEN s.score[o] + g.impact ELSE s.score[o]
  BY <1>1, AddFacts
<1>7. \A o \in OSes : v.score[o] = IF o \in h.oses THEN s.score[o] + h.impact ELSE s.score[o]
  BY <1>2, AddFacts
<1> HIDE DEF u, v
<1>8. Gains(s, u, impact, 0)
  BY <1>1, <1>3, <1>4, <1>5, <1>6 DEF Gains
<1>9. Gains(s, v, 0, impact)
  BY <1>2, <1>3, <1>4, <1>5, <1>7 DEF Gains
<1> QED
  BY <1>1, <1>2, <1>8, <1>9 DEF u, v, g, h

LEMMA NoGains == ASSUME NEW s \in Scores, NEW a \in 0..45, NEW b \in 0..45 PROVE Gains(s, s, a, b)
<1>1. \A o \in Apple : o \in OSes
  BY DEF OSes
<1>2. "android" \in OSes
  BY DEF OSes
<1>3. \A o \in OSes : s.score[o] \in Nat
  BY DEF Scores
<1> QED
  BY <1>1, <1>2, <1>3 DEF Gains

LEMMA PortMove ==
    ASSUME NEW s \in Scores, NEW t \in Scores, NEW item
    PROVE  Move(s, t, PortSignal(s, item), PortSignal(t, item)) /\ Gains(s, PortSignal(s, item), 25, 15)
<1> DEFINE p == item.port
           udp == item.proto = "udp"
           A(x, n) == Add(x, "service_port", Signal(Apple, n, FALSE))
           G(x) == Add(x, "service_port", Signal({"android"}, 15, FALSE))
           push == ~udp /\ p \in {5223, 2197}
           mdns == udp /\ p = 5353
           web  == p \in {80, 443}
           call == udp /\ p \in (3478 .. 3497) \cup (16384 .. 16403)
           play == ~udp /\ p \in {3689, 5000, 6000, 7000}
           says == Says(item, {"airplay", "raop", "daap"})
           cast == p \in {8008, 8009} /\ Says(item, {"chromecast", "googlecast"})
<1>1. \A x : PortSignal(x, item) =
          IF push THEN A(x, 25)
          ELSE IF mdns THEN Warn(x, "5353")
          ELSE IF web THEN Warn(x, "common")
          ELSE IF call THEN IF SeenApple(x) THEN A(x, 10) ELSE x
          ELSE IF play THEN IF says \/ SeenApple(x) THEN A(x, 15) ELSE x
          ELSE IF cast /\ SeenAndroid(x) THEN G(x) ELSE x
  BY DEF PortSignal
<1>2. "service_port" \in Categories /\ "5353" \in Warnings /\ "common" \in Warnings
  BY CatsWarns
<1>21. \A n \in {10, 15, 25} : n \in 0..45 /\ n <= 25 /\ n >= 0
  OBVIOUS
<1>22. 0 \in 0..45 /\ 15 \in 0..45 /\ 25 \in 0..45
  OBVIOUS
<1>3. \A n \in {10, 15, 25} : Signal(Apple, n, FALSE) \in Signals /\ Gains(s, A(s, n), n, 0) /\ A(s, n) \in Scores
  BY <1>2, <1>21, <1>22, AddGains, AddFacts
<1>4. Signal({"android"}, 15, FALSE) \in Signals /\ Gains(s, G(s), 0, 15) /\ G(s) \in Scores
  BY <1>2, <1>21, <1>22, AddGains, AddFacts
<1>23. (\A o \in Apple : o \in OSes) /\ "android" \in OSes
  BY DEF OSes
<1>24. \A u \in Scores : (\A o \in Apple : s.score[o] \in Nat /\ u.score[o] \in Nat) /\ s.score["android"] \in Nat /\ u.score["android"] \in Nat
  BY <1>23 DEF Scores
<1>5. \A n \in {10, 15, 25} : Move(s, t, A(s, n), A(t, n)) /\ Gains(s, A(s, n), 25, 15)
  <2> SUFFICES ASSUME NEW n \in {10, 15, 25} PROVE Move(s, t, A(s, n), A(t, n)) /\ Gains(s, A(s, n), 25, 15)
    OBVIOUS
  <2>1. Move(s, t, A(s, n), A(t, n))
    BY <1>2, <1>3, AddMove
  <2>2. A(s, n) \in Scores /\ Gains(s, A(s, n), n, 0) /\ n \in 0..45 /\ n <= 25
    BY <1>3, <1>21
  <2> HIDE DEF A
  <2>3. Gains(s, A(s, n), 25, 15)
    BY <2>2, <1>24 DEF Gains
  <2> QED
    BY <2>1, <2>3
<1>6. Move(s, t, s, t) /\ Gains(s, s, 25, 15)
  BY NoMove, NoGains
<1>7. Gains(s, G(s), 25, 15)
  <2> HIDE DEF G
  <2> QED
    BY <1>4, <1>24 DEF Gains
<1>8. \A w \in {"5353", "common"} : Move(s, t, Warn(s, w), Warn(t, w)) /\ Gains(s, Warn(s, w), 25, 15)
  BY <1>2, <1>6, WarnMove, WarnFacts DEF Gains
<1>9. \A n \in {10, 15, 25} : Move(s, t, IF SeenApple(s) THEN A(s, n) ELSE s, IF SeenApple(t) THEN A(t, n) ELSE t)
  BY <1>2, <1>3, IfMove DEF IfApple
<1>10. Move(s, t, IF SeenAndroid(s) THEN G(s) ELSE s, IF SeenAndroid(t) THEN G(t) ELSE t)
  BY <1>2, <1>4, IfMove DEF IfAndroid
<1> HIDE DEF A, G, p, udp, push, mdns, web, call, play, says, cast
<1>11. CASE push
  BY <1>1, <1>5, <1>11
<1>12. CASE ~push /\ (mdns \/ web)
  BY <1>1, <1>8, <1>12
<1>13. CASE ~push /\ ~mdns /\ ~web /\ call
  BY <1>1, <1>5, <1>6, <1>9, <1>13
<1>14. CASE ~push /\ ~mdns /\ ~web /\ ~call /\ play
  BY <1>1, <1>5, <1>6, <1>9, <1>14
<1>15. CASE ~push /\ ~mdns /\ ~web /\ ~call /\ ~play
  BY <1>1, <1>6, <1>7, <1>10, <1>15
<1> QED
  BY <1>11, <1>12, <1>13, <1>14, <1>15

LEMMA ServiceMove ==
    ASSUME NEW s \in Scores, NEW t \in Scores, NEW item
    PROVE  Move(s, t, ScoreService(s, item), ScoreService(t, item)) /\ Within(s, ScoreService(s, item), 45)
<1> DEFINE apple == Says(item, {"airplay", "raop", "apple-mobdev2"})
           android == Says(item, {"android", "googlecast"})
           A(x) == Add(x, "service_name", Signal(Apple, 15, FALSE))
           G(x) == Add(x, "service_name", Signal({"android"}, 15, FALSE))
           ported(x) == PortSignal(x, item)
           named(x) == IF apple THEN A(ported(x)) ELSE ported(x)
           last(x) == IF android /\ SeenAndroid(named(x)) THEN G(named(x)) ELSE named(x)
<1>1. CASE item.port = 0
  BY <1>1, NoMove DEF ScoreService
<1>2. CASE item.port # 0
  <2>0. ScoreService(s, item) = last(s) /\ ScoreService(t, item) = last(t)
    BY <1>2 DEF ScoreService
  <2>1. Move(s, t, ported(s), ported(t)) /\ Gains(s, ported(s), 25, 15)
    BY PortMove
  <2>2. ported(s) \in Scores /\ ported(t) \in Scores
    BY <2>1 DEF Move, Sound
  <2>3. "service_name" \in Categories
    BY CatsWarns
  <2>31. 0 \in 0..45 /\ 15 \in 0..45
    OBVIOUS
  <2> DEFINE u == ported(s)
             v == ported(t)
  <2> HIDE DEF ported, u, v
  <2>4. /\ Signal(Apple, 15, FALSE) \in Signals /\ Gains(u, A(u), 15, 0)
        /\ Signal({"android"}, 15, FALSE) \in Signals
    BY <2>2, <2>3, <2>31, AddGains DEF u
  <2>5. Move(u, v, named(s), named(t)) /\ Gains(u, named(s), 15, 0)
    BY <2>2, <2>3, <2>31, <2>4, AddMove, NoMove, NoGains DEF u, v
  <2>6. named(s) \in Scores /\ named(t) \in Scores
    BY <2>5 DEF Move, Sound
  <2> DEFINE y == named(s)
             z == named(t)
  <2> HIDE DEF named, y, z
  <2>7. Gains(y, G(y), 0, 15) /\ Gains(y, y, 0, 15)
    BY <2>3, <2>31, <2>6, AddGains, NoGains DEF y
  <2>8. Move(y, z, last(s), last(t)) /\ Gains(y, last(s), 0, 15)
    BY <2>3, <2>4, <2>6, <2>7, IfMove, NoMove DEF IfAndroid, y, z
  <2>9. last(s) \in Scores /\ last(t) \in Scores
    BY <2>8 DEF Move, Sound
  <2> HIDE DEF last
  <2>10. Move(s, t, last(s), last(t))
    <3>1. Move(s, t, y, z)
      BY <2>1, <2>5, MoveTrans DEF u, v, y, z
    <3> QED
      BY <2>8, <3>1, MoveTrans
  <2>11. Within(s, last(s), 45)
    <3>1. \A o \in OSes : s.score[o] \in Nat /\ u.score[o] \in Nat /\ y.score[o] \in Nat /\ last(s).score[o] \in Nat
      BY <2>2, <2>6, <2>9 DEF Scores, u, y
    <3>2. \A o \in OSes : o \in Apple \/ o = "android"
      BY DEF OSes
    <3>3. Gains(s, u, 25, 15) /\ Gains(u, y, 15, 0) /\ Gains(y, last(s), 0, 15)
      BY <2>1, <2>5, <2>8 DEF u, y
    <3> QED
      BY <3>1, <3>2, <3>3 DEF Within, Gains
  <2> QED
    BY <2>0, <2>10, <2>11
<1> QED
  BY <1>1, <1>2

\* One item of evidence: at most 45 points for each system, and nothing is taken away.
LEMMA ItemMove ==
    ASSUME NEW s \in Scores, NEW t \in Scores, NEW item
    PROVE  Move(s, t, ScoreItem(s, item), ScoreItem(t, item)) /\ Within(s, ScoreItem(s, item), 45)
<1>1. (item.addr = "local") \in BOOLEAN
  OBVIOUS
<1> QED
  BY <1>1, NoMove, HostnameMove, VendorMove, MDNSMove, DNSMove, UserAgentMove, ServiceMove, PassiveMove DEF ScoreItem, ScoreEvidence

LEMMA ItemTyped == ASSUME NEW s \in Scores, NEW item PROVE ScoreItem(s, item) \in Scores
  BY ItemMove DEF Move, Sound

-----------------------------------------------------------------------------
(* A whole list.                                                           *)

LEMMA NoScoreTyped == NoScore \in Scores
  BY DEF NoScore, Scores

LEMMA FoldTyped ==
    ASSUME NEW A, NEW q \in Seq(A), NEW s \in Scores
    PROVE  FoldLeft(ScoreItem, s, q) \in Scores
<1>1. Len(q) \in Nat /\ Len(q) \in 0..Len(q)
  OBVIOUS
<1>2. \A x \in Scores, y \in A : ScoreItem(x, y) \in Scores
  BY ItemTyped
<1>3. \E acc \in [0..Len(q) -> Scores] : FoldLeft(ScoreItem, s, q) = acc[Len(q)]
  BY <1>2, ScoreFold
<1> QED
  BY <1>1, <1>3

\* More to begin with gives no less in the end.
LEMMA FoldMove ==
    ASSUME NEW A, NEW q \in Seq(A), NEW s \in Scores, NEW t \in Scores
    PROVE  Move(s, t, FoldLeft(ScoreItem, s, q), FoldLeft(ScoreItem, t, q))
<1>0. Len(q) \in Nat
  OBVIOUS
<1>1. \A x \in Scores, y \in A : ScoreItem(x, y) \in Scores
  BY ItemTyped
<1>2. PICK a \in [0..Len(q) -> Scores] :
          a[0] = s /\ (\A k \in 1..Len(q) : a[k] = ScoreItem(a[k - 1], q[k])) /\ FoldLeft(ScoreItem, s, q) = a[Len(q)]
  BY <1>1, ScoreFold
<1>3. PICK b \in [0..Len(q) -> Scores] :
          b[0] = t /\ (\A k \in 1..Len(q) : b[k] = ScoreItem(b[k - 1], q[k])) /\ FoldLeft(ScoreItem, t, q) = b[Len(q)]
  BY <1>1, ScoreFold
<1> DEFINE G == {k \in Nat : Move(s, t, a[k], b[k])}
<1>4. 0 \in G
  BY <1>2, <1>3, NoMove
<1>5. ASSUME NEW k \in 0..Len(q) - 1, k \in G PROVE k + 1 \in G
  <2>1. k \in 0..Len(q) /\ k + 1 \in 1..Len(q) /\ (k + 1) - 1 = k
    BY <1>0
  <2>2. a[k] \in Scores /\ b[k] \in Scores /\ Move(s, t, a[k], b[k])
    BY <1>5, <2>1
  <2>3. a[k + 1] = ScoreItem(a[k], q[k + 1]) /\ b[k + 1] = ScoreItem(b[k], q[k + 1])
    BY <1>2, <1>3, <2>1
  <2>4. Move(a[k], b[k], a[k + 1], b[k + 1])
    BY <2>2, <2>3, ItemMove
  <2>5. Move(s, t, a[k + 1], b[k + 1])
    BY <2>2, <2>4, MoveTrans
  <2> QED
    BY <2>1, <2>5
<1>6. \A k \in 0..Len(q) : k \in G
  <2>1. G \in SUBSET Nat
    OBVIOUS
  <2> HIDE DEF G
  <2> QED
    BY <1>0, <1>4, <1>5, <2>1, UpTo
<1>7. Move(s, t, a[Len(q)], b[Len(q)])
  BY <1>0, <1>6
<1> QED
  BY <1>2, <1>3, <1>7

LEMMA FoldEmpty ==
    ASSUME NEW s \in Scores
    PROVE  FoldLeft(ScoreItem, s, <<>>) = s
<1> DEFINE q == <<>>
<1>1. q \in Seq(EvidenceKey)
  OBVIOUS
<1>2. Len(q) = 0
  OBVIOUS
<1> HIDE DEF q
<1>3. \A x \in Scores, y \in EvidenceKey : ScoreItem(x, y) \in Scores
  BY ItemTyped
<1>4. PICK acc \in [0..Len(q) -> Scores] :
          acc[0] = s /\ (\A k \in 1..Len(q) : acc[k] = ScoreItem(acc[k - 1], q[k])) /\ FoldLeft(ScoreItem, s, q) = acc[Len(q)]
  BY <1>1, <1>3, ScoreFold
<1> QED
  BY <1>2, <1>4 DEF q

\* Evidence that comes later is scored last.
LEMMA FoldAppend ==
    ASSUME NEW A, NEW q \in Seq(A), NEW s \in Scores, NEW item \in A
    PROVE  FoldLeft(ScoreItem, s, Append(q, item)) = ScoreItem(FoldLeft(ScoreItem, s, q), item)
<1> DEFINE r == Append(q, item)
<1>0. Len(q) \in Nat /\ r \in Seq(A) /\ Len(r) = Len(q) + 1 /\ r[Len(q) + 1] = item /\ \A k \in 1..Len(q) : r[k] = q[k]
  OBVIOUS
<1>01. r \in Seq(A)
  BY <1>0
<1> HIDE DEF r
<1>1. \A x \in Scores, y \in A : ScoreItem(x, y) \in Scores
  BY ItemTyped
<1>2. PICK a \in [0..Len(q) -> Scores] :
          a[0] = s /\ (\A k \in 1..Len(q) : a[k] = ScoreItem(a[k - 1], q[k])) /\ FoldLeft(ScoreItem, s, q) = a[Len(q)]
  BY <1>1, ScoreFold
<1>3. PICK b \in [0..Len(r) -> Scores] :
          b[0] = s /\ (\A k \in 1..Len(r) : b[k] = ScoreItem(b[k - 1], r[k])) /\ FoldLeft(ScoreItem, s, r) = b[Len(r)]
  BY <1>01, <1>1, ScoreFold
<1> DEFINE G == {k \in Nat : a[k] = b[k]}
<1>4. 0 \in G
  BY <1>2, <1>3
<1>5. ASSUME NEW k \in 0..Len(q) - 1, k \in G PROVE k + 1 \in G
  <2>1. k + 1 \in 1..Len(q) /\ (k + 1) - 1 = k /\ k + 1 \in 1..Len(r)
    BY <1>0
  <2>2. a[k] = b[k]
    BY <1>5
  <2>3. a[k + 1] = ScoreItem(a[k], q[k + 1])
    BY <1>2, <2>1
  <2>4. b[k + 1] = ScoreItem(b[k], q[k + 1])
    BY <1>0, <1>3, <2>1
  <2> QED
    BY <2>1, <2>2, <2>3, <2>4
<1>6. \A k \in 0..Len(q) : k \in G
  <2>1. G \in SUBSET Nat
    OBVIOUS
  <2> HIDE DEF G
  <2> QED
    BY <1>0, <1>4, <1>5, <2>1, UpTo
<1>7. a[Len(q)] = b[Len(q)]
  BY <1>0, <1>6
<1>8. b[Len(r)] = ScoreItem(b[Len(q)], item)
  <2>1. Len(r) \in 1..Len(r) /\ Len(r) - 1 = Len(q)
    BY <1>0
  <2> QED
    BY <1>0, <1>3, <2>1
<1> QED
  BY <1>2, <1>3, <1>7, <1>8 DEF r

-----------------------------------------------------------------------------
(* Entries and their fingerprints.                                         *)

Texts == {item.text : item \in EvidenceKey} \cup {{}}
Prints == {Finish(s) : s \in Scores}
Entries ==
    [list : Seq(EvidenceKey), host : Texts, mac : EvidenceKey \cup {Nameless}, vendor : Texts, fp : Prints, type : {"phone", "tablet", "unknown"}]

Total(e) == FoldLeft(ScoreItem, Owned(e), e.list)

LEMMA OwnedTyped == ASSUME NEW e PROVE Owned(e) \in Scores
<1>1. (e.mac.addr = "local") \in BOOLEAN
  OBVIOUS
<1>2. ScoreHostname(NoScore, e.host) \in Scores
  BY NoScoreTyped, HostnameMove DEF Move, Sound
<1> QED
  BY <1>1, <1>2, VendorMove DEF Owned, Move, Sound

LEMMA TotalTyped == ASSUME NEW e \in Entries PROVE Total(e) \in Scores /\ Fingerprint(e) = Finish(Total(e)) /\ Fingerprint(e) \in Prints
<1>1. e.list \in Seq(EvidenceKey)
  BY DEF Entries
<1>2. Total(e) \in Scores
  BY <1>1, OwnedTyped, FoldTyped DEF Total
<1>3. Fingerprint(e) = Finish(Total(e))
  BY DEF Fingerprint, Total
<1> QED
  BY <1>2, <1>3 DEF Prints

LEMMA FinishKeeps == ASSUME NEW s PROVE Finish(s).score = s.score /\ Finish(s).warnings = s.warnings
  BY DEF Finish

\* Warnings are counted, not compared; as they only grow, the count tells them apart.
LEMMA ChangeSeen ==
    ASSUME NEW old \in Prints, NEW new \in Prints, old.warnings \subseteq new.warnings, ~Changed(old, new)
    PROVE  old = new
<1>1. PICK s \in Scores : old = Finish(s)
  BY DEF Prints
<1>2. PICK t \in Scores : new = Finish(t)
  BY DEF Prints
<1>3. IsFiniteSet(Warnings)
  <2> DEFINE a == {"random"} \cup {"mdns"}
             b == {"dns"} \cup {"user_agent"}
             c == {"5353"} \cup {"common"}
  <2>1. IsFiniteSet(a) /\ IsFiniteSet(b) /\ IsFiniteSet(c)
    BY FS_Singleton, FS_Union
  <2>2. Warnings = (a \cup b) \cup c
    BY DEF Warnings
  <2> HIDE DEF a, b, c
  <2>3. IsFiniteSet(a \cup b)
    BY <2>1, FS_Union
  <2> QED
    BY <2>1, <2>2, <2>3, FS_Union
<1>4. new.warnings \subseteq Warnings
  BY <1>2, FinishKeeps DEF Scores
<1>5. IsFiniteSet(new.warnings)
  BY <1>3, <1>4, FS_Subset
<1>6. old.warnings = new.warnings
  BY <1>5, FS_Subset DEF Changed
<1>7. old.class = new.class /\ old.score = new.score /\ old.conf = new.conf /\ old.n = new.n /\ old.conflict = new.conflict
  BY DEF Changed
<1> QED
  BY <1>1, <1>2, <1>6, <1>7 DEF Finish

\* After rescoreMobileLocked the fingerprint is the one the evidence gives.
LEMMA RescoredFacts ==
    ASSUME NEW e \in Entries, e.fp.warnings \subseteq Fingerprint(e).warnings
    PROVE  /\ Rescored(e) \in Entries
           /\ Rescored(e).list = e.list /\ Rescored(e).host = e.host /\ Rescored(e).mac = e.mac /\ Rescored(e).vendor = e.vendor
           /\ Rescored(e).fp = Fingerprint(e)
           /\ Fingerprint(Rescored(e)) = Fingerprint(e)
<1> DEFINE fp == Fingerprint(e)
           hint == TypeHint(fp, e.host)
           rescored == [[e EXCEPT !.fp = fp] EXCEPT !.type = hint]
<1>1. fp \in Prints /\ e.fp \in Prints
  BY TotalTyped DEF Entries
<1>2. hint \in {"phone", "tablet", "unknown"}
  BY DEF TypeHint
<1>3. Rescored(e) = IF Changed(e.fp, fp) THEN rescored ELSE e
  BY DEF Rescored
<1> HIDE DEF fp, hint
<1>4. rescored \in Entries /\ rescored.list = e.list /\ rescored.host = e.host /\ rescored.mac = e.mac /\ rescored.vendor = e.vendor /\ rescored.fp = fp
  <2> DEFINE half == [e EXCEPT !.fp = fp]
  <2>1. half \in Entries /\ half.list = e.list /\ half.host = e.host /\ half.mac = e.mac /\ half.vendor = e.vendor /\ half.fp = fp
    BY <1>1 DEF Entries
  <2> HIDE DEF half
  <2>2. [half EXCEPT !.type = hint] \in Entries /\ [half EXCEPT !.type = hint].list = half.list /\ [half EXCEPT !.type = hint].host = half.host
        /\ [half EXCEPT !.type = hint].mac = half.mac /\ [half EXCEPT !.type = hint].vendor = half.vendor /\ [half EXCEPT !.type = hint].fp = half.fp
    BY <1>2, <2>1 DEF Entries
  <2> QED
    BY <2>1, <2>2 DEF half
<1>5. ~Changed(e.fp, fp) => e.fp = fp
  BY <1>1, ChangeSeen DEF fp
<1> HIDE DEF rescored
<1>6. Rescored(e) \in Entries /\ Rescored(e).list = e.list /\ Rescored(e).host = e.host /\ Rescored(e).mac = e.mac /\ Rescored(e).vendor = e.vendor /\ Rescored(e).fp = fp
  BY <1>3, <1>4, <1>5
<1> QED
  BY <1>6 DEF Fingerprint, Owned, fp

\* The entry with the item in its evidence.
Listed(e, item, new) == IF new THEN [e EXCEPT !.list = Append(@, item)] ELSE e

LEMMA ListedFacts ==
    ASSUME NEW e \in Entries, NEW item \in EvidenceKey, NEW new \in BOOLEAN
    PROVE  /\ Listed(e, item, new) \in Entries
           /\ Listed(e, item, new).list = IF new THEN Append(e.list, item) ELSE e.list
           /\ Listed(e, item, new).host = e.host /\ Listed(e, item, new).mac = e.mac /\ Listed(e, item, new).vendor = e.vendor
           /\ Listed(e, item, new).fp = e.fp
           /\ Total(Listed(e, item, new)) = IF new THEN ScoreItem(Total(e), item) ELSE Total(e)
<1> DEFINE f == Listed(e, item, new)
<1>1. e.list \in Seq(EvidenceKey) /\ Append(e.list, item) \in Seq(EvidenceKey)
  BY DEF Entries
<1>2. /\ f \in Entries
      /\ f.list = IF new THEN Append(e.list, item) ELSE e.list
      /\ f.host = e.host /\ f.mac = e.mac /\ f.vendor = e.vendor /\ f.fp = e.fp
  <2> DEFINE q == Append(e.list, item)
  <2> HIDE DEF q
  <2>1. [e EXCEPT !.list = q] \in Entries
    BY <1>1 DEF Entries, q
  <2>2. f = IF new THEN [e EXCEPT !.list = q] ELSE e
    BY DEF Listed, q
  <2> HIDE DEF f
  <2> QED
    BY <2>1, <2>2 DEF q, Entries
<1> HIDE DEF f
<1>3. Owned(f) = Owned(e) /\ Owned(e) \in Scores
  BY <1>2, OwnedTyped DEF Owned
<1>4. Total(f) = IF new THEN ScoreItem(Total(e), item) ELSE Total(e)
  <2>1. FoldLeft(ScoreItem, Owned(e), Append(e.list, item)) = ScoreItem(FoldLeft(ScoreItem, Owned(e), e.list), item)
    BY <1>1, <1>3, FoldAppend
  <2> QED
    BY <1>2, <1>3, <2>1 DEF Total
<1> QED
  BY <1>2, <1>4 DEF f

-----------------------------------------------------------------------------
(* What an entry takes over from an item.                                  *)

TakesName(e, f, item) ==
    Has(item, NameKinds) /\ e.host = {} /\ f.host = item.text /\ f.mac = e.mac /\ f.vendor = e.vendor

TakesAddress(e, f, item) ==
    /\ ~Has(item, NameKinds) /\ Has(item, {"mac", "arp"}) /\ item.addr # ""
    /\ e.mac = Nameless /\ f.mac = item /\ f.host = e.host /\ f.vendor = e.vendor

TakesVendor(e, f, item) ==
    /\ ~Has(item, NameKinds) /\ ~Has(item, {"mac", "arp"}) /\ Has(item, {"oui", "vendor"}) /\ item.addr = ""
    /\ e.vendor = {} /\ f.vendor = item.text /\ f.host = e.host /\ f.mac = e.mac

LEMMA IdentityFacts ==
    ASSUME NEW e \in Entries, NEW item \in EvidenceKey
    PROVE  /\ WithIdentity(e, item) \in Entries
           /\ WithIdentity(e, item).list = e.list /\ WithIdentity(e, item).fp = e.fp
           /\ \/ WithIdentity(e, item) = e
              \/ TakesName(e, WithIdentity(e, item), item)
              \/ TakesAddress(e, WithIdentity(e, item), item)
              \/ TakesVendor(e, WithIdentity(e, item), item)
<1> DEFINE f == WithIdentity(e, item)
<1>0. item.text \in Texts
  BY DEF Texts
<1>1. CASE Has(item, NameKinds) /\ e.host = {}
  <2>1. f = [e EXCEPT !.host = item.text]
    BY <1>1 DEF WithIdentity
  <2>2. f \in Entries /\ f.list = e.list /\ f.fp = e.fp /\ f.host = item.text /\ f.mac = e.mac /\ f.vendor = e.vendor
    BY <1>0, <2>1 DEF Entries
  <2> HIDE DEF f
  <2>3. TakesName(e, f, item)
    BY <1>1, <2>2 DEF TakesName
  <2> QED
    BY <2>2, <2>3 DEF f
<1>2. CASE ~Has(item, NameKinds) /\ Has(item, {"mac", "arp"}) /\ e.mac = Nameless /\ item.addr # ""
  <2>1. f = [e EXCEPT !.mac = item]
    BY <1>2 DEF WithIdentity
  <2>2. f \in Entries /\ f.list = e.list /\ f.fp = e.fp /\ f.host = e.host /\ f.mac = item /\ f.vendor = e.vendor
    BY <2>1 DEF Entries
  <2> HIDE DEF f
  <2>3. TakesAddress(e, f, item)
    BY <1>2, <2>2 DEF TakesAddress
  <2> QED
    BY <2>2, <2>3 DEF f
<1>3. CASE ~Has(item, NameKinds) /\ ~Has(item, {"mac", "arp"}) /\ Has(item, {"oui", "vendor"}) /\ e.vendor = {} /\ item.addr = ""
  <2>1. f = [e EXCEPT !.vendor = item.text]
    BY <1>3 DEF WithIdentity
  <2>2. f \in Entries /\ f.list = e.list /\ f.fp = e.fp /\ f.host = e.host /\ f.mac = e.mac /\ f.vendor = item.text
    BY <1>0, <2>1 DEF Entries
  <2> HIDE DEF f
  <2>3. TakesVendor(e, f, item)
    BY <1>3, <2>2 DEF TakesVendor
  <2> QED
    BY <2>2, <2>3 DEF f
<1>4. CASE f = e
  BY <1>4
<1> QED
  BY <1>1, <1>2, <1>3, <1>4 DEF WithIdentity

\* A vendor that is named after the address displaces the vendor of its prefix.
Overruled(e, f) == e.mac.text # {} /\ e.vendor = {} /\ f.vendor # {}

LEMMA NamelessScores ==
    /\ \A s : ScoreHostname(s, {}) = s
    /\ \A s : ScoreMACOrVendor(s, FALSE, {}) = s
<1>1. \A s : ScoreHostname(s, {}) = s
  BY DEF ScoreHostname, AddFirst
<1>2. \A s : ScoreMACOrVendor(s, FALSE, {}) = s
  BY DEF ScoreMACOrVendor
<1> QED
  BY <1>1, <1>2

\* Only a randomised address warns.
LEMMA OwnedWarnings ==
    ASSUME NEW e
    PROVE  Owned(e).warnings = IF e.mac.addr = "local" THEN {"random"} ELSE {}
<1> DEFINE named == ScoreHostname(NoScore, e.host)
           local == e.mac.addr = "local"
           vendor == IF e.vendor = {} THEN e.mac.text ELSE e.vendor
           warned == [Warn(named, "random") EXCEPT !.random = TRUE]
           owned == IF local THEN warned ELSE named
           impact == IF local THEN 8 ELSE 35
<1>1. named \in Scores
  BY NoScoreTyped, HostnameMove DEF Move, Sound
<1>2. named.warnings = {}
  <2>1. NoScore.warnings = {}
    BY DEF NoScore
  <2>2. CASE \A x, c : AddFirst(x, c, HostnameTable, e.host) = x
    BY <2>1, <2>2 DEF ScoreHostname
  <2>3. CASE \E i \in DOMAIN HostnameTable : \A x, c : AddFirst(x, c, HostnameTable, e.host) = Add(x, c, HostnameTable[i][2])
    <3>1. PICK i \in DOMAIN HostnameTable : \A x, c : AddFirst(x, c, HostnameTable, e.host) = Add(x, c, HostnameTable[i][2])
      BY <2>3
    <3>2. HostnameTable[i][2] \in Signals
      BY HostnameTableSignals DEF Scorer
    <3>3. named = Add(NoScore, "hostname", HostnameTable[i][2])
      BY <3>1 DEF ScoreHostname
    <3>4. \A g \in Signals : Add(NoScore, "hostname", g).warnings = NoScore.warnings
      BY AddFacts, NoScoreTyped, CatsWarns
    <3> QED
      BY <2>1, <3>2, <3>3, <3>4
  <2> QED
    BY <2>2, <2>3, FirstRow, HostnameTableSignals DEF Scorer
<1> HIDE DEF named
<1>3. warned \in Scores /\ warned.warnings = {"random"}
  <2> DEFINE u == Warn(named, "random")
  <2>1. u \in Scores /\ u.warnings = {"random"}
    BY <1>1, <1>2, WarnFacts, CatsWarns
  <2> HIDE DEF u
  <2>2. [u EXCEPT !.random = TRUE] \in Scores /\ [u EXCEPT !.random = TRUE].warnings = u.warnings
    BY <2>1 DEF Scores
  <2> QED
    BY <2>1, <2>2 DEF u
<1> HIDE DEF warned
<1>4. owned \in Scores /\ owned.warnings = IF local THEN {"random"} ELSE {}
  BY <1>1, <1>2, <1>3
<1>5. Owned(e) = IF "apple" \in vendor THEN Add(owned, "mac_oui", Signal(Apple, impact, FALSE))
                 ELSE IF vendor \cap AndroidVendors # {} THEN Add(owned, "mac_oui", Signal({"android"}, impact, FALSE))
                 ELSE owned
  BY DEF Owned, ScoreMACOrVendor, named, warned
<1>6. Signal(Apple, impact, FALSE) \in Signals /\ Signal({"android"}, impact, FALSE) \in Signals
  BY OSSets DEF Signal, Signals
<1> DEFINE g == Signal(Apple, impact, FALSE)
           h == Signal({"android"}, impact, FALSE)
<1> HIDE DEF owned, vendor, impact, g, h
<1>7. \A x \in Signals : Add(owned, "mac_oui", x).warnings = owned.warnings
  BY <1>4, AddFacts, CatsWarns
<1>8. Owned(e).warnings = owned.warnings
  <2>1. Owned(e) = owned \/ Owned(e) = Add(owned, "mac_oui", g) \/ Owned(e) = Add(owned, "mac_oui", h)
    BY <1>5 DEF g, h
  <2>2. g \in Signals /\ h \in Signals
    BY <1>6 DEF g, h
  <2> QED
    BY <2>1, <2>2, <1>7
<1> QED
  BY <1>4, <1>8

\* What the score of the entry's own fields becomes.
GrownTo(e, f) ==
    /\ Owned(e).warnings \subseteq Owned(f).warnings
    /\ f.mac.addr = "local" \/ Overruled(e, f) \/ Leq(Owned(e), Owned(f))

LEMMA OwnedGrows ==
    ASSUME NEW e \in Entries, NEW item \in EvidenceKey
    PROVE  GrownTo(e, WithIdentity(e, item))
<1> DEFINE f == WithIdentity(e, item)
           named == ScoreHostname(NoScore, e.host)
<1>0. named \in Scores /\ Owned(e) \in Scores
  BY NoScoreTyped, HostnameMove, OwnedTyped DEF Move, Sound
<1>1. CASE f = e
  BY <1>0, <1>1, NoMove DEF Move, Sound, GrownTo
<1>2. CASE TakesName(e, f, item)
  <2> DEFINE taken == ScoreHostname(NoScore, f.host)
             local == e.mac.addr = "local"
             vendor == IF e.vendor = {} THEN e.mac.text ELSE e.vendor
  <2>1. taken \in Scores /\ Leq(NoScore, taken)
    BY NoScoreTyped, HostnameMove DEF Move, Sound
  <2>2. Owned(e) = ScoreMACOrVendor(NoScore, local, vendor)
    BY <1>2, NamelessScores DEF Owned, TakesName
  <2>3. Owned(f) = ScoreMACOrVendor(taken, local, vendor)
    BY <1>2 DEF Owned, TakesName
  <2>4. local \in BOOLEAN
    OBVIOUS
  <2> HIDE DEF taken, local, vendor
  <2>5. Leq(Owned(e), Owned(f))
    BY <2>1, <2>2, <2>3, <2>4, NoScoreTyped, VendorMove DEF Move
  <2>6. Owned(e).warnings = Owned(f).warnings
    BY <1>2, OwnedWarnings DEF TakesName
  <2> QED
    BY <2>5, <2>6 DEF GrownTo
<1>3. CASE TakesAddress(e, f, item)
  <2> HIDE DEF f
  <2>01. e.mac = Nameless /\ f.mac = item /\ f.vendor = e.vendor /\ f.host = e.host
    BY <1>3 DEF TakesAddress
  <2>02. Nameless.addr = "" /\ Nameless.text = {}
    BY DEF Nameless
  <2>0. e.mac.addr = "" /\ e.mac.text = {} /\ f.mac = item /\ f.vendor = e.vendor /\ f.host = e.host
    BY <2>01, <2>02
  <2>1. Owned(e).warnings \subseteq Owned(f).warnings
    BY <2>0, OwnedWarnings
  <2>2. CASE item.addr # "local" /\ e.vendor = {}
    <3>1. Owned(e) = named
      BY <2>0, <2>2, NamelessScores DEF Owned
    <3>2. Owned(f) = ScoreMACOrVendor(named, FALSE, item.text)
      BY <2>0, <2>2 DEF Owned
    <3> HIDE DEF named
    <3>3. Leq(named, ScoreMACOrVendor(named, FALSE, item.text))
      BY <1>0, VendorMove DEF Move, Sound
    <3> QED
      BY <2>1, <3>1, <3>2, <3>3 DEF GrownTo, f
  <2>3. CASE item.addr # "local" /\ e.vendor # {}
    <3>1. Owned(e) = Owned(f)
      BY <2>0, <2>3 DEF Owned
    <3> QED
      BY <1>0, <2>1, <3>1, NoMove DEF Move, Sound, GrownTo, f
  <2>4. f.mac.addr = item.addr
    BY <2>0
  <2> QED
    BY <2>1, <2>2, <2>3, <2>4 DEF f, GrownTo
<1>4. CASE TakesVendor(e, f, item)
  <2>1. Owned(e).warnings \subseteq Owned(f).warnings /\ f.mac = e.mac
    BY <1>4, OwnedWarnings DEF TakesVendor
  <2>2. CASE item.text = {}
    <3>1. Owned(e) = Owned(f)
      BY <1>4, <2>2 DEF Owned, TakesVendor
    <3> QED
      BY <1>0, <2>1, <3>1, NoMove DEF Move, Sound, GrownTo
  <2>3. CASE item.text # {} /\ e.mac.text # {}
    BY <1>4, <2>1, <2>3 DEF TakesVendor, Overruled, GrownTo
  <2>4. CASE item.text # {} /\ e.mac.text = {} /\ e.mac.addr # "local"
    <3>1. Owned(e) = named
      BY <1>4, <2>4, NamelessScores DEF Owned, TakesVendor
    <3>2. Owned(f) = ScoreMACOrVendor(named, FALSE, item.text)
      BY <1>4, <2>4 DEF Owned, TakesVendor
    <3> HIDE DEF named
    <3>3. Leq(named, ScoreMACOrVendor(named, FALSE, item.text))
      BY <1>0, VendorMove DEF Move, Sound
    <3> QED
      BY <2>1, <3>1, <3>2, <3>3 DEF GrownTo
  <2> QED
    BY <2>1, <2>2, <2>3, <2>4 DEF GrownTo
<1>5. f = e \/ TakesName(e, f, item) \/ TakesAddress(e, f, item) \/ TakesVendor(e, f, item)
  BY IdentityFacts
<1> QED
  BY <1>1, <1>2, <1>3, <1>4, <1>5

-----------------------------------------------------------------------------
(* The fingerprint beside the evidence: never ahead of it, and behind it    *)
(* only while an item waits for the refresh.                               *)

Fit(e) ==
    /\ e \in Entries
    /\ e.fp.warnings \subseteq Total(e).warnings
    /\ \A o \in OSes : e.fp.score[o] <= Total(e).score[o]
    /\ Waiting(e) \/ e.fp = Fingerprint(e)

\* The entry with the item's identity and evidence, before it is rescored.
Taken(e, item, new) == WithIdentity(Listed(e, item, new), item)

LEMMA TakenFacts ==
    ASSUME NEW e \in Entries, NEW item \in EvidenceKey, NEW new \in BOOLEAN
    PROVE  LET f == Taken(e, item, new)
           IN  /\ f \in Entries /\ f.fp = e.fp
               /\ f.list = IF new THEN Append(e.list, item) ELSE e.list
               /\ Total(e).warnings \subseteq Total(f).warnings
               /\ f.mac.addr = "local" \/ Overruled(e, f) \/ Leq(Total(e), Total(f))
<1> DEFINE g == Listed(e, item, new)
           f == Taken(e, item, new)
<1>1. /\ g \in Entries /\ g.fp = e.fp /\ g.mac = e.mac /\ g.vendor = e.vendor
      /\ g.list = IF new THEN Append(e.list, item) ELSE e.list
      /\ Total(g) = IF new THEN ScoreItem(Total(e), item) ELSE Total(e)
  BY ListedFacts
<1>2. f = WithIdentity(g, item)
  BY DEF Taken
<1> HIDE DEF g, f
<1>3. f \in Entries /\ f.fp = g.fp /\ f.list = g.list
  BY <1>1, <1>2, IdentityFacts
<1>4. GrownTo(g, f)
  BY <1>1, <1>2, OwnedGrows
<1>5. Owned(f) \in Scores /\ Owned(g) \in Scores /\ f.list \in Seq(EvidenceKey)
  BY <1>3, OwnedTyped DEF Entries
<1>6. Move(Owned(g), Owned(f), Total(g), Total(f))
  BY <1>3, <1>5, FoldMove DEF Total
<1>7. Total(e) \in Scores /\ Total(g) \in Scores /\ Total(f) \in Scores
  BY <1>1, <1>3, TotalTyped
<1>8. Total(e).warnings \subseteq Total(g).warnings /\ Leq(Total(e), Total(g))
  BY <1>1, <1>7, ItemMove, NoMove DEF Move, Sound
<1>9. Total(g).warnings \subseteq Total(f).warnings
  BY <1>4, <1>6 DEF GrownTo, Move
<1>10. Leq(Total(g), Total(f)) => Leq(Total(e), Total(f))
  <2>1. \A o \in OSes : Total(e).score[o] \in Nat /\ Total(g).score[o] \in Nat /\ Total(f).score[o] \in Nat
    BY <1>7 DEF Scores
  <2> QED
    BY <1>8, <2>1 DEF Leq
<1>11. f.mac.addr = "local" \/ Overruled(e, f) \/ Leq(Total(g), Total(f))
  BY <1>1, <1>4, <1>6 DEF GrownTo, Move, Overruled
<1> QED
  BY <1>1, <1>3, <1>8, <1>9, <1>10, <1>11 DEF f

\* An item of no meaning is no name, address or vendor.
LEMMA MeaninglessTaken ==
    ASSUME NEW e \in Entries, NEW item \in EvidenceKey, NEW new \in BOOLEAN, ~Meaningful(item)
    PROVE  Taken(e, item, new) = Listed(e, item, new)
<1>1. ~Has(item, NameKinds) /\ ~Has(item, {"mac", "arp"}) /\ ~Has(item, {"oui", "vendor"})
  BY DEF Meaningful, Has, VendorKinds
<1> QED
  BY <1>1 DEF Taken, WithIdentity

\* What is not scorable is not scored.
LEMMA SilentItem ==
    ASSUME NEW item, ~Scorable(item), NEW s
    PROVE  ScoreItem(s, item) = s
  BY DEF Scorable, Meaningful, ScoreItem, ScoreEvidence, ScoreService, Has, NameKinds, VendorKinds, MDNSKinds

LEMMA WaitingKept ==
    ASSUME NEW e \in Entries, NEW item \in EvidenceKey, NEW new \in BOOLEAN
    PROVE  /\ Waiting(e) => Waiting(Listed(e, item, new))
           /\ new /\ Scorable(item) /\ ~Meaningful(item) => Waiting(Listed(e, item, new))
<1> DEFINE f == Listed(e, item, new)
<1>1. f.list = IF new THEN Append(e.list, item) ELSE e.list
  BY ListedFacts
<1>2. e.list \in Seq(EvidenceKey)
  BY DEF Entries
<1> HIDE DEF f
<1>3. \A i \in DOMAIN e.list : i \in DOMAIN f.list /\ f.list[i] = e.list[i]
  BY <1>1, <1>2
<1>4. new => \E i \in DOMAIN f.list : f.list[i] = item
  <2> SUFFICES ASSUME new PROVE Len(e.list) + 1 \in DOMAIN Append(e.list, item) /\ Append(e.list, item)[Len(e.list) + 1] = item
    BY <1>1
  <2> QED
    BY <1>2
<1>5. Waiting(e) => Waiting(f)
  BY <1>3 DEF Waiting
<1>6. new /\ Scorable(item) /\ ~Meaningful(item) => Waiting(f)
  BY <1>4 DEF Waiting
<1> QED
  BY <1>5, <1>6 DEF f

LEMMA AttachedForm ==
    ASSUME NEW e, NEW item, NEW new
    PROVE  Attached(e, item, new) = IF Meaningful(item) THEN Rescored(Taken(e, item, new)) ELSE Taken(e, item, new)
  BY DEF Attached, Taken, Listed

LEMMA RescoredFit ==
    ASSUME NEW e \in Entries, e.fp.warnings \subseteq Total(e).warnings
    PROVE  Fit(Rescored(e)) /\ Rescored(e).fp.score = Total(e).score
<1> DEFINE f == Rescored(e)
<1>1. Total(e) \in Scores /\ Fingerprint(e) = Finish(Total(e))
  BY TotalTyped
<1>2. Fingerprint(e).score = Total(e).score /\ Fingerprint(e).warnings = Total(e).warnings
  BY <1>1, FinishKeeps
<1>3. /\ f \in Entries /\ f.list = e.list /\ f.host = e.host /\ f.mac = e.mac /\ f.vendor = e.vendor
      /\ f.fp = Fingerprint(e) /\ Fingerprint(f) = Fingerprint(e)
  BY <1>2, RescoredFacts
<1> HIDE DEF f
<1>4. Total(f) = Total(e)
  BY <1>3 DEF Total, Owned
<1>5. \A o \in OSes : Total(e).score[o] \in Nat
  BY <1>1 DEF Scores
<1>6. Fit(f) /\ f.fp.score = Total(e).score
  BY <1>2, <1>3, <1>4, <1>5 DEF Fit
<1> QED
  BY <1>6 DEF f

LEMMA AttachedFit ==
    ASSUME NEW e, Fit(e), NEW item \in EvidenceKey, NEW new \in BOOLEAN
    PROVE  Fit(Attached(e, item, new))
<1> DEFINE f == Taken(e, item, new)
<1>1. e \in Entries
  BY DEF Fit
<1>2. /\ f \in Entries /\ f.fp = e.fp
      /\ Total(e).warnings \subseteq Total(f).warnings
  BY <1>1, TakenFacts
<1>3. CASE Meaningful(item)
  <2>1. f.fp.warnings \subseteq Total(f).warnings
    BY <1>2 DEF Fit
  <2> QED
    BY <1>2, <1>3, <2>1, RescoredFit, AttachedForm
<1>4. CASE ~Meaningful(item)
  <2>1. Attached(e, item, new) = f /\ f = Listed(e, item, new)
    BY <1>1, <1>4, MeaninglessTaken, AttachedForm
  <2>2. Total(f) = IF new THEN ScoreItem(Total(e), item) ELSE Total(e)
    BY <1>1, <2>1, ListedFacts
  <2>3. Total(e) \in Scores /\ Total(f) \in Scores /\ Fingerprint(e) = Finish(Total(e)) /\ Fingerprint(f) = Finish(Total(f))
    BY <1>1, <1>2, TotalTyped
  <2>4. Leq(Total(e), Total(f))
    BY <2>2, <2>3, ItemMove, NoMove DEF Move, Sound
  <2>5. \A o \in OSes : f.fp.score[o] <= Total(f).score[o]
    <3>1. \A o \in OSes : Total(e).score[o] \in Nat /\ Total(f).score[o] \in Nat /\ e.fp.score[o] \in Nat
      <4>1. e.fp \in Prints
        BY <1>1 DEF Entries
      <4>2. e.fp.score \in [OSes -> Nat]
        BY <4>1, FinishKeeps DEF Prints, Scores
      <4> QED
        BY <2>3, <4>2 DEF Scores
    <3>2. \A o \in OSes : e.fp.score[o] <= Total(e).score[o]
      BY DEF Fit
    <3> QED
      BY <1>2, <2>4, <3>1, <3>2 DEF Leq
  <2>6. Waiting(f) \/ f.fp = Fingerprint(f)
    <3>1. CASE Waiting(e)
      BY <1>1, <2>1, <3>1, WaitingKept
    <3>2. CASE new /\ Scorable(item)
      BY <1>1, <1>4, <2>1, <3>2, WaitingKept
    <3>3. CASE ~Waiting(e) /\ ~(new /\ Scorable(item))
      <4>1. Total(f) = Total(e)
        BY <2>2, <3>3, SilentItem
      <4> QED
        BY <1>2, <2>3, <3>3, <4>1 DEF Fit
    <3> QED
      BY <3>1, <3>2, <3>3
  <2> HIDE DEF f
  <2>7. Fit(f)
    BY <1>2, <2>5, <2>6 DEF Fit
  <2> QED
    BY <2>1, <2>7
<1> QED
  BY <1>3, <1>4

LEMMA BlankFit == Fit(NoDevice)
<1>1. NoFingerprint = Finish(NoScore) /\ NoFingerprint \in Prints
  BY NoScoreTyped DEF NoFingerprint, Prints
<1>2. NoDevice \in Entries
  BY <1>1 DEF NoDevice, Entries, Texts
<1>3. Nameless.addr = "" /\ Nameless.text = {}
  BY DEF Nameless
<1>4. NoDevice.list = <<>> /\ NoDevice.host = {} /\ NoDevice.mac = Nameless /\ NoDevice.vendor = {} /\ NoDevice.fp = NoFingerprint
  BY DEF NoDevice
<1>5. Owned(NoDevice) = NoScore
  BY <1>3, <1>4, NamelessScores DEF Owned
<1>6. Total(NoDevice) = NoScore
  BY <1>4, <1>5, FoldEmpty, NoScoreTyped DEF Total
<1>7. \A o \in OSes : NoScore.score[o] \in Nat
  BY NoScoreTyped DEF Scores
<1>8. Fingerprint(NoDevice) = NoFingerprint
  BY <1>1, <1>2, <1>6, TotalTyped
<1>9. NoFingerprint.score = NoScore.score /\ NoFingerprint.warnings = NoScore.warnings
  BY <1>1, FinishKeeps
<1> QED
  BY <1>2, <1>4, <1>6, <1>7, <1>8, <1>9 DEF Fit

-----------------------------------------------------------------------------
(* One source.                                                             *)

\* Two stored items that the scorer reads.
TwoSources(e) == \E i, j \in DOMAIN e.list : i # j /\ Scorable(e.list[i]) /\ Scorable(e.list[j])

NameItem(item) == Has(item, NameKinds)
AddressItem(item) == ~Has(item, NameKinds) /\ Has(item, {"mac", "arp"}) /\ item.addr # ""
VendorItem(item) == ~Has(item, NameKinds) /\ ~Has(item, {"mac", "arp"}) /\ Has(item, {"oui", "vendor"})

\* What the entry calls its own stands in its evidence.
Traced(e) ==
    /\ e.host # {} => \E i \in DOMAIN e.list : NameItem(e.list[i])
    /\ e.mac # Nameless => \E i \in DOMAIN e.list : e.list[i] = e.mac /\ AddressItem(e.list[i])
    /\ e.vendor # {} => \E i \in DOMAIN e.list : VendorItem(e.list[i])

LEMMA SourcesScorable ==
    ASSUME NEW item, NameItem(item) \/ AddressItem(item) \/ VendorItem(item)
    PROVE  Scorable(item)
  BY DEF NameItem, AddressItem, VendorItem, Scorable, Meaningful, Has, VendorKinds

\* A name or a vendor is scored as the entry's own and skipped in its evidence.
LEMMA OwnItemsSkipped ==
    ASSUME NEW item, NameItem(item) \/ VendorItem(item), NEW s
    PROVE  ScoreItem(s, item) = s
  BY DEF NameItem, VendorItem, ScoreItem, IsIdentityEvidence, Has, VendorKinds

LEMMA TablesMissed ==
    ASSUME NEW text, text \subseteq {"apple", "other"} \cup AndroidVendors
    PROVE  /\ \A i \in DOMAIN MDNSTable : MDNSTable[i][1] \cap text = {}
           /\ \A i \in DOMAIN UserAgentTable : UserAgentTable[i][1] \cap text = {}
           /\ \A i \in DOMAIN PassiveTable : PassiveTable[i][1] \cap text = {}
<1>1. {"iphone"} \cap text = {} /\ {"ipad"} \cap text = {} /\ {"android"} \cap text = {} /\ {"apple-mobdev2", "companion-link"} \cap text = {} /\ {"airplay", "raop"} \cap text = {}
  BY DEF AndroidVendors
<1>2. /\ DOMAIN MDNSTable = 1..5 /\ MDNSTable[1][1] = {"iphone"} /\ MDNSTable[2][1] = {"ipad"} /\ MDNSTable[3][1] = {"apple-mobdev2", "companion-link"}
      /\ MDNSTable[4][1] = {"airplay", "raop"} /\ MDNSTable[5][1] = {"android"}
  BY DEF MDNSTable
<1>3. DOMAIN UserAgentTable = 1..3 /\ UserAgentTable[1][1] = {"iphone"} /\ UserAgentTable[2][1] = {"ipad"} /\ UserAgentTable[3][1] = {"android"}
  BY DEF UserAgentTable
<1>4. DOMAIN PassiveTable = 1..3 /\ PassiveTable[1][1] = {"iphone"} /\ PassiveTable[2][1] = {"ipad"} /\ PassiveTable[3][1] = {"android"}
  BY DEF PassiveTable
<1>5. \A i \in DOMAIN MDNSTable : MDNSTable[i][1] \cap text = {}
  BY <1>1, <1>2
<1>6. \A i \in DOMAIN UserAgentTable : UserAgentTable[i][1] \cap text = {}
  BY <1>1, <1>3
<1>7. \A i \in DOMAIN PassiveTable : PassiveTable[i][1] \cap text = {}
  BY <1>1, <1>4
<1> QED
  BY <1>5, <1>6, <1>7

\* A MAC address scores once, as the entry's own.
LEMMA AddressScoresNothing ==
    ASSUME NEW item \in EvidenceKey, AddressItem(item), NEW s \in Scores
    PROVE  ScoreItem(s, item).score = s.score
<1> DEFINE text == item.text
<1>0. text \subseteq {"apple", "other"} \cup AndroidVendors /\ item.port \in 0..99
  BY AddressAssumption DEF AddressItem
<1>1. text \cap {"googlecast", "chromecast"} = {} /\ text \cap DNSCategory = {}
  BY <1>0 DEF AndroidVendors, DNSCategory
<1>2. /\ ~Says(item, {"airplay", "raop", "daap"}) /\ ~Says(item, {"chromecast", "googlecast"})
      /\ ~Says(item, {"airplay", "raop", "apple-mobdev2"}) /\ ~Says(item, {"android", "googlecast"})
  BY <1>0 DEF Says, AndroidVendors
<1>3. \A w \in Warnings : Warn(s, w).score = s.score
  BY WarnFacts
<1>4. "mdns" \in Warnings /\ "user_agent" \in Warnings /\ "5353" \in Warnings /\ "common" \in Warnings
  BY CatsWarns
<1> HIDE DEF text
<1>5. ScoreMDNS(s, text).score = s.score
  BY <1>0, <1>1, <1>3, <1>4, TablesMissed DEF ScoreMDNS
<1>6. ScoreDNSCategory(s, text).score = s.score
  BY <1>1 DEF ScoreDNSCategory
<1>7. ScoreUserAgent(s, text).score = s.score
  <2>1. AddFirst(s, "user_agent", UserAgentTable, text) = s
    BY <1>0, TablesMissed DEF AddFirst
  <2> QED
    BY <1>3, <1>4, <2>1 DEF ScoreUserAgent
<1>8. ScorePassive(s, text).score = s.score
  <2>1. AddFirst(s, "passive_packet", PassiveTable, text) = s
    BY <1>0, TablesMissed DEF AddFirst
  <2> QED
    BY <1>3, <1>4, <2>1 DEF ScorePassive
<1>9. ScoreService(s, item).score = s.score
  <2>1. item.port \notin {5223, 2197} /\ item.port # 5353 /\ item.port \notin (3478 .. 3497) \cup (16384 .. 16403)
        /\ item.port \notin {3689, 5000, 6000, 7000} /\ item.port \notin {8008, 8009}
    BY <1>0
  <2>2. PortSignal(s, item) = IF item.port \in {80, 443} THEN Warn(s, "common") ELSE s
    BY <2>1 DEF PortSignal
  <2>3. PortSignal(s, item).score = s.score
    BY <1>3, <1>4, <2>2
  <2>4. ScoreService(s, item) = IF item.port = 0 THEN s ELSE PortSignal(s, item)
    BY <1>2 DEF ScoreService
  <2> QED
    BY <2>3, <2>4
<1>10. ~Has(item, NameKinds)
  BY DEF AddressItem
<1> QED
  BY <1>5, <1>6, <1>7, <1>8, <1>9, <1>10 DEF ScoreItem, ScoreEvidence, IsIdentityEvidence, Has, text

\* Of a list with one item to score, the scores are those of that item.
LEMMA FoldOne ==
    ASSUME NEW A, NEW q \in Seq(A), NEW s \in Scores,
           ~\E i, j \in DOMAIN q : i # j /\ Scorable(q[i]) /\ Scorable(q[j])
    PROVE  \/ FoldLeft(ScoreItem, s, q) = s
           \/ \E i \in DOMAIN q : Scorable(q[i]) /\ FoldLeft(ScoreItem, s, q) = ScoreItem(s, q[i])
<1>0. Len(q) \in Nat /\ DOMAIN q = 1..Len(q)
  OBVIOUS
<1>1. \A x \in Scores, y \in A : ScoreItem(x, y) \in Scores
  BY ItemTyped
<1>2. PICK a \in [0..Len(q) -> Scores] :
          a[0] = s /\ (\A k \in 1..Len(q) : a[k] = ScoreItem(a[k - 1], q[k])) /\ FoldLeft(ScoreItem, s, q) = a[Len(q)]
  BY <1>1, ScoreFold
<1> DEFINE One(k) == \E i \in 1..k : Scorable(q[i]) /\ a[k] = ScoreItem(s, q[i])
           None(k) == \A i \in 1..k : ~Scorable(q[i])
           G == {k \in Nat : (None(k) /\ a[k] = s) \/ One(k)}
<1>3. 0 \in G
  BY <1>2
<1>4. ASSUME NEW k \in 0..Len(q) - 1, k \in G PROVE k + 1 \in G
  <2>1. k + 1 \in 1..Len(q) /\ (k + 1) - 1 = k /\ k \in Nat /\ k + 1 \in DOMAIN q
    BY <1>0
  <2>2. a[k + 1] = ScoreItem(a[k], q[k + 1])
    BY <1>2, <2>1
  <2>3. CASE ~Scorable(q[k + 1])
    <3>1. a[k + 1] = a[k]
      BY <2>2, <2>3, SilentItem
    <3>2. CASE None(k) /\ a[k] = s
      <4>1. None(k + 1)
        BY <2>1, <2>3, <3>2
      <4> QED
        BY <2>1, <3>1, <3>2, <4>1
    <3>3. CASE One(k)
      <4>1. \A i \in 1..k : i \in 1..k + 1
        BY <2>1
      <4>2. One(k + 1)
        BY <3>1, <3>3, <4>1
      <4> QED
        BY <2>1, <4>2
    <3> QED
      BY <1>4, <3>2, <3>3
  <2>4. CASE Scorable(q[k + 1])
    <3>1. None(k)
      <4> SUFFICES ASSUME NEW i \in 1..k, Scorable(q[i]) PROVE FALSE
        OBVIOUS
      <4>1. i \in DOMAIN q /\ i # k + 1
        BY <1>0, <2>1
      <4> QED
        BY <2>1, <2>4, <4>1
    <3>2. a[k] = s
      BY <1>4, <3>1
    <3>3. k + 1 \in 1..k + 1
      BY <2>1
    <3>4. One(k + 1)
      BY <2>2, <2>4, <3>2, <3>3
    <3> QED
      BY <2>1, <3>4
  <2> QED
    BY <2>3, <2>4
<1>5. \A k \in 0..Len(q) : k \in G
  <2>1. G \in SUBSET Nat
    OBVIOUS
  <2> HIDE DEF G
  <2> QED
    BY <1>0, <1>3, <1>4, <2>1, UpTo
<1>6. Len(q) \in G
  BY <1>0, <1>5
<1> QED
  BY <1>0, <1>2, <1>6

\* One item gives no system more than 45 points.
LEMMA OneSourceWeak ==
    ASSUME NEW e \in Entries, Traced(e), ~TwoSources(e)
    PROVE  Within(NoScore, Total(e), 45)
<1> DEFINE q == e.list
           s == Owned(e)
           t == Total(e)
<1>1. q \in Seq(EvidenceKey) /\ s \in Scores /\ t \in Scores /\ NoScore \in Scores
  BY OwnedTyped, TotalTyped, NoScoreTyped DEF Entries
<1>2. t = s \/ \E i \in DOMAIN q : Scorable(q[i]) /\ t = ScoreItem(s, q[i])
  BY <1>1, FoldOne DEF TwoSources, Total
<1>3. \A i, j \in DOMAIN q : Scorable(q[i]) /\ Scorable(q[j]) => i = j
  BY DEF TwoSources
<1>4. \A i \in DOMAIN q : q[i] \in EvidenceKey
  BY <1>1
<1>5. Nameless.addr = "" /\ Nameless.text = {}
  BY DEF Nameless
<1>6. CASE e.host # {}
  <2>1. PICK i \in DOMAIN q : NameItem(q[i])
    BY <1>6 DEF Traced
  <2>2. \A j \in DOMAIN q : Scorable(q[j]) => j = i
    BY <1>3, <2>1, SourcesScorable
  <2>3. e.mac = Nameless /\ e.vendor = {}
    BY <2>1, <2>2, SourcesScorable DEF Traced, NameItem, AddressItem, VendorItem
  <2>4. s = ScoreHostname(NoScore, e.host)
    BY <1>5, <2>3, NamelessScores DEF Owned
  <2>5. t = s
    BY <1>2, <2>1, <2>2, OwnItemsSkipped
  <2> HIDE DEF s, t
  <2> QED
    BY <1>1, <2>4, <2>5, HostnameMove DEF t
<1>7. CASE e.host = {} /\ e.mac # Nameless
  <2>1. PICK i \in DOMAIN q : q[i] = e.mac /\ AddressItem(q[i])
    BY <1>7 DEF Traced
  <2>2. \A j \in DOMAIN q : Scorable(q[j]) => j = i
    BY <1>3, <2>1, SourcesScorable
  <2>3. e.vendor = {}
    BY <2>1, <2>2, SourcesScorable DEF Traced, AddressItem, VendorItem
  <2>4. s = ScoreMACOrVendor(NoScore, e.mac.addr = "local", e.mac.text)
    BY <1>7, <2>3, NamelessScores DEF Owned
  <2>5. t.score = s.score
    BY <1>1, <1>2, <1>4, <2>1, <2>2, AddressScoresNothing
  <2>6. (e.mac.addr = "local") \in BOOLEAN
    OBVIOUS
  <2> HIDE DEF s, t
  <2>7. Within(NoScore, s, 45)
    BY <1>1, <2>4, <2>6, VendorMove
  <2> QED
    BY <2>5, <2>7 DEF Within, t
<1>8. CASE e.host = {} /\ e.mac = Nameless /\ e.vendor # {}
  <2>1. PICK i \in DOMAIN q : VendorItem(q[i])
    BY <1>8 DEF Traced
  <2>2. \A j \in DOMAIN q : Scorable(q[j]) => j = i
    BY <1>3, <2>1, SourcesScorable
  <2>3. s = ScoreMACOrVendor(NoScore, FALSE, e.vendor)
    BY <1>5, <1>8, NamelessScores DEF Owned
  <2>4. t = s
    BY <1>2, <2>1, <2>2, OwnItemsSkipped
  <2> HIDE DEF s, t
  <2> QED
    BY <1>1, <2>3, <2>4, VendorMove DEF t
<1>9. CASE e.host = {} /\ e.mac = Nameless /\ e.vendor = {}
  <2>1. s = NoScore
    BY <1>5, <1>9, NamelessScores DEF Owned
  <2> HIDE DEF s, t
  <2>2. t = NoScore \/ \E i \in DOMAIN q : t = ScoreItem(NoScore, q[i])
    BY <1>2, <2>1
  <2> QED
    BY <1>1, <2>2, NoMove, ItemMove DEF t
<1> QED
  BY <1>6, <1>7, <1>8, <1>9

\* Fewer than 60 points are called possible at most.
LEMMA WeakNeverConvinces ==
    ASSUME NEW t \in Scores, Within(NoScore, t, 45)
    PROVE  Finish(t).class[1] \notin {"probable", "confirmed"}
<1>1. Best(t) \in OSes
  BY DEF Best, OSes, Apple
<1>2. NoScore.score[Best(t)] = 0
  BY <1>1 DEF NoScore
<1>3. t.score[Best(t)] <= 45 /\ t.score[Best(t)] \in Nat
  BY <1>1, <1>2 DEF Within, Scores
<1>4. ~(t.score[Best(t)] >= 80) /\ ~(t.score[Best(t)] >= 60)
  BY <1>3
<1>5. Classification(t)[1] \notin {"probable", "confirmed"}
  BY <1>4 DEF Classification
<1> QED
  BY <1>5 DEF Finish

Convinced(e) == e.fp.class[1] \in {"probable", "confirmed"} => TwoSources(e)

LEMMA RescoredConvinced ==
    ASSUME NEW e \in Entries, e.fp.warnings \subseteq Total(e).warnings, Traced(e)
    PROVE  Convinced(Rescored(e)) /\ Traced(Rescored(e))
<1> DEFINE f == Rescored(e)
<1>1. Fingerprint(e) = Finish(Total(e)) /\ Total(e) \in Scores
  BY TotalTyped
<1>2. e.fp.warnings \subseteq Fingerprint(e).warnings
  BY <1>1, FinishKeeps
<1>3. f.list = e.list /\ f.host = e.host /\ f.mac = e.mac /\ f.vendor = e.vendor /\ f.fp = Finish(Total(e))
  BY <1>1, <1>2, RescoredFacts
<1> HIDE DEF f
<1>4. Traced(f)
  BY <1>3 DEF Traced
<1>5. ASSUME ~TwoSources(f) PROVE f.fp.class[1] \notin {"probable", "confirmed"}
  <2>1. ~TwoSources(e)
    BY <1>3, <1>5 DEF TwoSources
  <2> QED
    BY <1>1, <1>3, <2>1, OneSourceWeak, WeakNeverConvinces
<1>6. Convinced(f)
  BY <1>5 DEF Convinced
<1> QED
  BY <1>4, <1>6 DEF f

\* What is taken over comes from an item in the list.
LEMMA TakenTraced ==
    ASSUME NEW e \in Entries, Traced(e), NEW item \in EvidenceKey, NEW new \in BOOLEAN,
           ~new => \E i \in DOMAIN e.list : e.list[i] = item
    PROVE  /\ Traced(Taken(e, item, new))
           /\ TwoSources(e) => TwoSources(Taken(e, item, new))
           /\ \A i \in DOMAIN e.list : i \in DOMAIN Taken(e, item, new).list /\ Taken(e, item, new).list[i] = e.list[i]
           /\ \E i \in DOMAIN Taken(e, item, new).list : Taken(e, item, new).list[i] = item
<1> DEFINE g == Listed(e, item, new)
           f == Taken(e, item, new)
<1>1. /\ g \in Entries /\ g.host = e.host /\ g.mac = e.mac /\ g.vendor = e.vendor
      /\ g.list = IF new THEN Append(e.list, item) ELSE e.list
  BY ListedFacts
<1>2. f = WithIdentity(g, item)
  BY DEF Taken
<1> HIDE DEF g, f
<1>3. f.list = g.list /\ (f = g \/ TakesName(g, f, item) \/ TakesAddress(g, f, item) \/ TakesVendor(g, f, item))
  BY <1>1, <1>2, IdentityFacts
<1>4. e.list \in Seq(EvidenceKey)
  BY DEF Entries
<1>5. \A i \in DOMAIN e.list : i \in DOMAIN f.list /\ f.list[i] = e.list[i]
  BY <1>1, <1>3, <1>4
<1>6. \E i \in DOMAIN f.list : f.list[i] = item
  <2>1. CASE new
    <3>1. Len(e.list) + 1 \in DOMAIN Append(e.list, item) /\ Append(e.list, item)[Len(e.list) + 1] = item
      BY <1>4
    <3> QED
      BY <1>1, <1>3, <2>1, <3>1
  <2>2. CASE ~new
    BY <1>5, <2>2
  <2> QED
    BY <2>1, <2>2
<1>7. TwoSources(e) => TwoSources(f)
  BY <1>5 DEF TwoSources
<1>8. f.host # {} => \E i \in DOMAIN f.list : NameItem(f.list[i])
  <2>1. CASE TakesName(g, f, item)
    BY <1>6, <2>1 DEF TakesName, NameItem
  <2>2. CASE f.host = e.host
    BY <1>5, <2>2 DEF Traced
  <2> QED
    BY <1>1, <1>3, <2>1, <2>2 DEF TakesAddress, TakesVendor
<1>9. f.mac # Nameless => \E i \in DOMAIN f.list : f.list[i] = f.mac /\ AddressItem(f.list[i])
  <2>1. CASE TakesAddress(g, f, item)
    BY <1>6, <2>1 DEF TakesAddress, AddressItem
  <2>2. CASE f.mac = e.mac
    BY <1>5, <2>2 DEF Traced
  <2> QED
    BY <1>1, <1>3, <2>1, <2>2 DEF TakesName, TakesVendor
<1>10. f.vendor # {} => \E i \in DOMAIN f.list : VendorItem(f.list[i])
  <2>1. CASE TakesVendor(g, f, item)
    BY <1>6, <2>1 DEF TakesVendor, VendorItem
  <2>2. CASE f.vendor = e.vendor
    BY <1>5, <2>2 DEF Traced
  <2> QED
    BY <1>1, <1>3, <2>1, <2>2 DEF TakesName, TakesAddress
<1>11. Traced(f)
  BY <1>8, <1>9, <1>10 DEF Traced
<1> QED
  BY <1>5, <1>6, <1>7, <1>11 DEF f

LEMMA AttachedTraced ==
    ASSUME NEW e, Fit(e), Traced(e), Convinced(e), NEW item \in EvidenceKey, NEW new \in BOOLEAN,
           ~new => \E i \in DOMAIN e.list : e.list[i] = item
    PROVE  /\ Traced(Attached(e, item, new)) /\ Convinced(Attached(e, item, new))
           /\ \A i \in DOMAIN e.list : i \in DOMAIN Attached(e, item, new).list /\ Attached(e, item, new).list[i] = e.list[i]
           /\ \E i \in DOMAIN Attached(e, item, new).list : Attached(e, item, new).list[i] = item
<1> DEFINE f == Taken(e, item, new)
           g == Attached(e, item, new)
<1>1. e \in Entries
  BY DEF Fit
<1>2. f \in Entries /\ f.fp = e.fp /\ Total(e).warnings \subseteq Total(f).warnings
  BY <1>1, TakenFacts
<1>3. f.fp.warnings \subseteq Total(f).warnings
  BY <1>2 DEF Fit
<1>4. /\ Traced(f) /\ (TwoSources(e) => TwoSources(f))
      /\ \A i \in DOMAIN e.list : i \in DOMAIN f.list /\ f.list[i] = e.list[i]
      /\ \E i \in DOMAIN f.list : f.list[i] = item
  BY <1>1, TakenTraced
<1>5. g = IF Meaningful(item) THEN Rescored(f) ELSE f
  BY AttachedForm
<1>6. f.fp.warnings \subseteq Fingerprint(f).warnings
  BY <1>2, <1>3, TotalTyped, FinishKeeps
<1>7. Rescored(f).list = f.list /\ Convinced(Rescored(f)) /\ Traced(Rescored(f))
  BY <1>2, <1>3, <1>4, <1>6, RescoredFacts, RescoredConvinced
<1>8. Convinced(f)
  BY <1>2, <1>4 DEF Convinced
<1> HIDE DEF f, g
<1>9. Traced(g) /\ Convinced(g) /\ g.list = f.list
  BY <1>4, <1>5, <1>7, <1>8
<1> QED
  BY <1>4, <1>9 DEF g

-----------------------------------------------------------------------------
(* The invariant.                                                          *)

\* Every stored key of evidence stands in the entry's list.
LiveInv ==
    /\ live \in [IP -> Entries]
    /\ \A ip \in IP : Fit(live[ip]) /\ Traced(live[ip]) /\ Convinced(live[ip])
    /\ \A ip \in IP, k \in EvidenceKey : evidence[ip][k] # 0 => \E i \in DOMAIN live[ip].list : live[ip].list[i] = k

\* What a step does to an entry.
Stays(ip) == live'[ip] = live[ip] /\ evidence'[ip] = evidence[ip]

Learns(ip) ==
    \E item \in EvidenceKey :
        /\ live'[ip] = Attached(live[ip], item, evidence[ip][item] = 0)
        /\ \A k \in EvidenceKey : k # item => evidence'[ip][k] = evidence[ip][k]

Refreshes(ip) == live'[ip] = Rescored(live[ip]) /\ evidence'[ip] = evidence[ip]

Leaves(ip) == live'[ip] = NoDevice /\ status'[ip] = "absent" /\ evidence'[ip] = NoEvidence

LiveMove ==
    /\ live' = [ip \in IP |-> live'[ip]]
    /\ \A ip \in IP : Stays(ip) \/ Learns(ip) \/ Refreshes(ip) \/ Leaves(ip)

LEMMA AllStay == ASSUME live \in [IP -> Entries], UNCHANGED <<live, evidence>> PROVE LiveMove
  BY DEF LiveMove, Stays

LEMMA AttachMoves ==
    ASSUME PoolTypeOK, live \in [IP -> Entries], NEW ip \in IP, NEW item \in EvidenceKey, NEW grade \in Grade,
           AddEvidence(ip, item, grade), Attach(ip, item)
    PROVE  LiveMove
<1>1. \A j \in IP : evidence[j] \in [EvidenceKey -> Grade \cup {0}]
  BY DEF PoolTypeOK
<1>2. CASE evidence'[ip][item] = evidence[ip][item]
  <2>1. UNCHANGED live
    BY <1>2 DEF Attach
  <2>2. UNCHANGED evidence
    <3> DEFINE m == Merge(evidence[ip][item], grade)
    <3>1. evidence' = evidence \/ evidence' = [evidence EXCEPT ![ip][item] = m]
      BY DEF AddEvidence
    <3> HIDE DEF m
    <3>2. evidence' = [evidence EXCEPT ![ip][item] = m] => m = evidence[ip][item]
      BY <1>2 DEF PoolTypeOK
    <3>3. [evidence EXCEPT ![ip][item] = evidence[ip][item]] = evidence
      BY DEF PoolTypeOK
    <3> QED
      BY <3>1, <3>2, <3>3
  <2> QED
    BY <2>1, <2>2, AllStay
<1>3. CASE evidence'[ip][item] # evidence[ip][item]
  <2> DEFINE e == Attached(live[ip], item, evidence[ip][item] = 0)
  <2>1. live' = [live EXCEPT ![ip] = e]
    BY <1>3 DEF Attach
  <2> HIDE DEF e
  <2>2. live' = [j \in IP |-> live'[j]] /\ live'[ip] = e /\ \A j \in IP : j # ip => live'[j] = live[j]
    BY <2>1
  <2>3. (\A j \in IP : j # ip => evidence'[j] = evidence[j]) /\ \A k \in EvidenceKey : k # item => evidence'[ip][k] = evidence[ip][k]
    <3> DEFINE m == Merge(evidence[ip][item], grade)
    <3>1. evidence' = evidence \/ evidence' = [evidence EXCEPT ![ip][item] = m]
      BY DEF AddEvidence
    <3> HIDE DEF m
    <3> QED
      BY <3>1 DEF PoolTypeOK
  <2>4. Learns(ip)
    BY <2>2, <2>3 DEF Learns, e
  <2> QED
    BY <2>2, <2>3, <2>4 DEF LiveMove, Stays
<1> QED
  BY <1>2, <1>3

LEMMA LiveMoves == PoolTypeOK /\ live \in [IP -> Entries] /\ [LiveNext]_liveVars => LiveMove
<1> SUFFICES ASSUME PoolTypeOK, live \in [IP -> Entries], [LiveNext]_liveVars PROVE LiveMove
  OBVIOUS
<1>1. ASSUME NEW s \in Sightings, AddLiveEvidence(s[1], s[2], s[3]) PROVE LiveMove
  <2>1. s[1] \in IP /\ s[3] \in Grade /\ (Accepted(s[2]) => Sanitized(s[2]) \in EvidenceKey)
    BY SightingAssumption
  <2>2. CASE Accepted(s[2])
    <3>1. AddEvidence(s[1], Sanitized(s[2]), s[3]) /\ Attach(s[1], Sanitized(s[2]))
      BY <1>1, <2>2 DEF AddLiveEvidence, EnsureWithEvidence
    <3> QED
      BY <2>1, <2>2, <3>1, AttachMoves
  <2>3. CASE ~Accepted(s[2])
    BY <1>1, <2>3, AllStay DEF AddLiveEvidence, EnsureCandidate
  <2> QED
    BY <2>2, <2>3
<1>2. ASSUME NEW ip \in IP, NEW p \in Pings, PingAnswered(ip, p[1], p[2]) PROVE LiveMove
  <2>1. p[1] \in EvidenceKey /\ p[2] \in Grade
    BY SightingAssumption
  <2>2. AddEvidence(ip, p[1], p[2]) /\ Attach(ip, p[1])
    BY <1>2 DEF PingAnswered, RecordSuccess
  <2> QED
    BY <2>1, <2>2, AttachMoves
<1>3. ASSUME NEW ip \in IP, Missed(ip) \/ Seeded(ip) PROVE LiveMove
  BY <1>3, AllStay DEF Missed, Seeded, RecordFailure, EnsureCandidate
<1>4. CASE Clear
  <2>1. live' = [ip \in IP |-> IF ip \in Cleared THEN NoDevice ELSE live[ip]]
    BY <1>4 DEF Clear
  <2>2. /\ status' = [ip \in IP |-> IF ip \in Cleared THEN "absent" ELSE status[ip]]
        /\ evidence' = [ip \in IP |-> IF ip \in Cleared THEN NoEvidence ELSE evidence[ip]]
    BY <1>4 DEF Clear, ClearStale
  <2>3. \A ip \in IP : Stays(ip) \/ Leaves(ip)
    BY <2>1, <2>2 DEF Stays, Leaves
  <2>4. live' = [ip \in IP |-> live'[ip]]
    BY <2>1
  <2> QED
    BY <2>3, <2>4 DEF LiveMove
<1>5. CASE RefreshMobileFingerprints
  <2>1. live' = [ip \in IP |-> IF ip \in Tracked THEN Rescored(live[ip]) ELSE live[ip]] /\ evidence' = evidence
    BY <1>5 DEF RefreshMobileFingerprints, poolVars
  <2>2. \A ip \in IP : Stays(ip) \/ Refreshes(ip)
    BY <2>1 DEF Stays, Refreshes
  <2>3. live' = [ip \in IP |-> live'[ip]]
    BY <2>1
  <2> QED
    BY <2>2, <2>3 DEF LiveMove
<1>6. CASE UNCHANGED liveVars
  BY <1>6, AllStay DEF liveVars
<1> QED
  BY <1>1, <1>2, <1>3, <1>4, <1>5, <1>6 DEF LiveNext

LEMMA BlankKept == Traced(NoDevice) /\ Convinced(NoDevice) /\ Fit(NoDevice) /\ NoDevice \in Entries
<1>1. Fit(NoDevice) /\ NoDevice \in Entries
  BY BlankFit DEF Fit
<1>2. Traced(NoDevice)
  BY DEF Traced, NoDevice
<1>3. NoDevice.fp = Finish(NoScore)
  BY DEF NoDevice, NoFingerprint
<1>4. Convinced(NoDevice)
  BY <1>3, NoScoreTyped, NoMove, WeakNeverConvinces DEF Convinced
<1> QED
  BY <1>1, <1>2, <1>4

LEMMA LiveInvInit == LiveInit => LiveInv
<1> SUFFICES ASSUME LiveInit PROVE LiveInv
  OBVIOUS
<1>1. live = [ip \in IP |-> NoDevice] /\ evidence = [ip \in IP |-> NoEvidence]
  BY DEF LiveInit, PoolInit
<1> QED
  BY <1>1, BlankKept DEF LiveInv, NoEvidence

LEMMA LiveInvStep == PoolTypeOK /\ LiveInv /\ [LiveNext]_liveVars => LiveInv'
<1> SUFFICES ASSUME PoolTypeOK, LiveInv, [LiveNext]_liveVars PROVE LiveInv'
  OBVIOUS
<1> DEFINE Good(e) == e \in Entries /\ Fit(e) /\ Traced(e) /\ Convinced(e)
           Has1(ip) == \A k \in EvidenceKey : evidence[ip][k] # 0 => \E i \in DOMAIN live[ip].list : live[ip].list[i] = k
           Has2(ip) == \A k \in EvidenceKey : evidence'[ip][k] # 0 => \E i \in DOMAIN live'[ip].list : live'[ip].list[i] = k
<1>1. LiveMove
  BY LiveMoves DEF LiveInv
<1>2. ASSUME NEW ip \in IP PROVE Good(live'[ip]) /\ Has2(ip)
  <2>0. Good(live[ip]) /\ Has1(ip)
    BY DEF LiveInv
  <2>1. CASE Stays(ip)
    BY <2>0, <2>1 DEF Stays
  <2>2. CASE Learns(ip)
    <3>1. PICK item \in EvidenceKey :
              /\ live'[ip] = Attached(live[ip], item, evidence[ip][item] = 0)
              /\ \A k \in EvidenceKey : k # item => evidence'[ip][k] = evidence[ip][k]
      BY <2>2 DEF Learns
    <3> DEFINE e == live[ip]
               new == evidence[ip][item] = 0
               f == Attached(e, item, new)
    <3>2. new \in BOOLEAN /\ (~new => \E i \in DOMAIN e.list : e.list[i] = item)
      BY <2>0
    <3>3. Fit(e) /\ Traced(e) /\ Convinced(e)
      BY <2>0
    <3> HIDE DEF e, new
    <3>4. Fit(f)
      BY <3>2, <3>3, AttachedFit
    <3>5. /\ Traced(f) /\ Convinced(f)
          /\ \A i \in DOMAIN e.list : i \in DOMAIN f.list /\ f.list[i] = e.list[i]
          /\ \E i \in DOMAIN f.list : f.list[i] = item
      BY <3>2, <3>3, AttachedTraced
    <3>6. live'[ip] = f
      BY <3>1 DEF e, new
    <3>7. Has1(ip) /\ live[ip] = e
      BY <2>0 DEF e
    <3> HIDE DEF f
    <3>8. f \in Entries
      BY <3>4 DEF Fit
    <3>9. Has2(ip)
      BY <3>1, <3>5, <3>6, <3>7
    <3> QED
      BY <3>4, <3>5, <3>6, <3>8, <3>9
  <2>3. CASE Refreshes(ip)
    <3> DEFINE e == live[ip]
               f == Rescored(e)
    <3>1. e \in Entries /\ e.fp.warnings \subseteq Total(e).warnings /\ Traced(e)
      BY <2>0 DEF Fit
    <3>2. Fit(f) /\ Convinced(f) /\ Traced(f)
      BY <3>1, RescoredFit, RescoredConvinced
    <3>3. e.fp.warnings \subseteq Fingerprint(e).warnings
      BY <3>1, TotalTyped, FinishKeeps
    <3>4. f \in Entries /\ f.list = e.list
      BY <3>1, <3>3, RescoredFacts
    <3> HIDE DEF f
    <3>5. live'[ip] = f /\ evidence'[ip] = evidence[ip]
      BY <2>3 DEF Refreshes, f
    <3> QED
      BY <2>0, <3>2, <3>4, <3>5
  <2>4. CASE Leaves(ip)
    BY <2>4, BlankKept DEF Leaves, NoEvidence
  <2> QED
    BY <1>1, <2>1, <2>2, <2>3, <2>4 DEF LiveMove
<1> HIDE DEF Good, Has1, Has2
<1>3. live' \in [IP -> Entries]
  <2>1. \A ip \in IP : live'[ip] \in Entries
    BY <1>2 DEF Good
  <2> QED
    BY <1>1, <2>1 DEF LiveMove
<1>4. \A ip \in IP : Fit(live'[ip]) /\ Traced(live'[ip]) /\ Convinced(live'[ip])
  BY <1>2 DEF Good
<1>5. \A ip \in IP, k \in EvidenceKey : evidence'[ip][k] # 0 => \E i \in DOMAIN live'[ip].list : live'[ip].list[i] = k
  BY <1>2 DEF Has2
<1> QED
  BY <1>3, <1>4, <1>5 DEF LiveInv

-----------------------------------------------------------------------------
(* The theorems.                                                           *)

LEMMA LiveInvariant == LiveSpec => []LiveInv
<1>1. LiveSpec => []PoolTypeOK
  BY LiveUsesRegistry, PoolTypeCorrect, PTL
<1> QED
  BY <1>1, LiveInvInit, LiveInvStep, PTL DEF LiveSpec

LEMMA InvCurrent == LiveInv => FingerprintCurrent
  BY DEF LiveInv, Fit, FingerprintCurrent, Tracked

\* The fingerprint an entry shows is the one its evidence gives.
THEOREM LiveCurrent == LiveSpec => []FingerprintCurrent
  BY LiveInvariant, InvCurrent, PTL

LEMMA InvOneSource == LiveInv => OneSourceNeverConvinces
<1> SUFFICES ASSUME LiveInv, NEW ip \in IP, live[ip].fp.class[1] \in {"probable", "confirmed"}
             PROVE  Cardinality({i \in DOMAIN live[ip].list : Scorable(live[ip].list[i])}) >= 2
  BY DEF OneSourceNeverConvinces
<1> DEFINE q == live[ip].list
           S == {i \in DOMAIN q : Scorable(q[i])}
<1>1. q \in Seq(EvidenceKey)
  BY DEF LiveInv, Entries
<1>2. PICK i \in DOMAIN q, j \in DOMAIN q : i # j /\ Scorable(q[i]) /\ Scorable(q[j])
  BY DEF LiveInv, Convinced, TwoSources
<1>3. IsFiniteSet(S)
  <2>1. DOMAIN q = 1..Len(q) /\ Len(q) \in Nat
    BY <1>1
  <2>2. IsFiniteSet(1..Len(q))
    BY <2>1, FS_Interval
  <2> QED
    BY <2>1, <2>2, FS_Subset
<1> HIDE DEF q
<1>4. i \in S /\ j \in S /\ i # j
  BY <1>2
<1> HIDE DEF S
<1>5. IsFiniteSet(S \ {i}) /\ Cardinality(S \ {i}) = Cardinality(S) - 1 /\ j \in S \ {i}
  BY <1>3, <1>4, FS_RemoveElement
<1>6. Cardinality(S \ {i}) \in Nat /\ Cardinality(S \ {i}) # 0 /\ Cardinality(S) \in Nat
  BY <1>3, <1>5, FS_CardinalityType, FS_EmptySet
<1>7. Cardinality(S) >= 2
  BY <1>5, <1>6
<1> QED
  BY <1>7 DEF S, q

\* A device is called probable or confirmed on two items of evidence, never on one counted twice.
THEOREM LiveOneSource == LiveSpec => []OneSourceNeverConvinces
  BY LiveInvariant, InvOneSource, PTL

LEMMA ScoreStep ==
    PoolTypeOK /\ LiveInv /\ [LiveNext]_liveVars =>
        \A ip \in IP, os \in OSes :
            live'[ip].fp.score[os] < live[ip].fp.score[os] =>
                \/ status'[ip] = "absent"
                \/ live'[ip].mac.addr = "local"
                \/ live[ip].mac.text # {} /\ live[ip].vendor = {} /\ live'[ip].vendor # {}
<1> SUFFICES ASSUME PoolTypeOK, LiveInv, [LiveNext]_liveVars, NEW ip \in IP, NEW os \in OSes,
                    live'[ip].fp.score[os] < live[ip].fp.score[os],
                    status'[ip] # "absent", live'[ip].mac.addr # "local", ~Overruled(live[ip], live'[ip])
             PROVE  FALSE
  BY DEF Overruled
<1> DEFINE e == live[ip]
<1>1. Stays(ip) \/ Learns(ip) \/ Refreshes(ip)
  BY LiveMoves DEF LiveMove, LiveInv, Leaves
<1>2. e \in Entries /\ e.fp.warnings \subseteq Total(e).warnings /\ e.fp.score[os] <= Total(e).score[os]
  BY DEF LiveInv, Fit
<1>3. e.fp.score[os] \in Nat /\ Total(e) \in Scores /\ Total(e).score[os] \in Nat
  <2>1. e.fp \in Prints
    BY <1>2 DEF Entries
  <2>2. e.fp.score \in [OSes -> Nat]
    BY <2>1, FinishKeeps DEF Prints, Scores
  <2> QED
    BY <1>2, <2>2, TotalTyped DEF Scores
<1>4. CASE Stays(ip)
  BY <1>3, <1>4 DEF Stays
<1>5. CASE Refreshes(ip)
  <2>1. live'[ip].fp.score = Total(e).score
    BY <1>2, <1>5, RescoredFit DEF Refreshes
  <2> QED
    BY <1>2, <1>3, <2>1
<1>6. CASE Learns(ip)
  <2>1. PICK item \in EvidenceKey : live'[ip] = Attached(e, item, evidence[ip][item] = 0)
    BY <1>6 DEF Learns
  <2> DEFINE new == evidence[ip][item] = 0
             f == Taken(e, item, new)
  <2>2. new \in BOOLEAN
    OBVIOUS
  <2> HIDE DEF e, new
  <2>3. /\ f \in Entries /\ f.fp = e.fp
        /\ Total(e).warnings \subseteq Total(f).warnings
        /\ f.mac.addr = "local" \/ Overruled(e, f) \/ Leq(Total(e), Total(f))
    BY <1>2, <2>2, TakenFacts
  <2>4. live'[ip] = IF Meaningful(item) THEN Rescored(f) ELSE f
    BY <2>1, AttachedForm DEF new
  <2> HIDE DEF f
  <2>5. CASE ~Meaningful(item)
    BY <1>3, <2>3, <2>4, <2>5 DEF e
  <2>6. CASE Meaningful(item)
    <3>1. f.fp.warnings \subseteq Total(f).warnings
      BY <1>2, <2>3
    <3>2. f.fp.warnings \subseteq Fingerprint(f).warnings
      BY <2>3, <3>1, TotalTyped, FinishKeeps
    <3>3. live'[ip].fp.score = Total(f).score /\ live'[ip].mac = f.mac /\ live'[ip].vendor = f.vendor
      BY <2>3, <2>4, <2>6, <3>1, <3>2, RescoredFit, RescoredFacts
    <3>4. Leq(Total(e), Total(f))
      BY <2>3, <3>3 DEF Overruled, e
    <3>5. Total(e).score[os] <= Total(f).score[os] /\ Total(f).score[os] \in Nat
      BY <2>3, <3>4, TotalTyped DEF Leq, Scores
    <3>6. e.fp.score[os] <= live'[ip].fp.score[os]
      BY <1>2, <1>3, <3>3, <3>5
    <3> QED
      BY <1>3, <3>3, <3>5, <3>6 DEF e
  <2> QED
    BY <2>5, <2>6
<1> QED
  BY <1>1, <1>4, <1>5, <1>6

\* The order in which evidence arrives takes no points away but the vendor's.
THEOREM LiveScores == LiveSpec => ScoresFallOnlyWithTheVendor
<1>1. LiveSpec => []PoolTypeOK
  BY LiveUsesRegistry, PoolTypeCorrect, PTL
<1> QED
  BY <1>1, LiveInvariant, ScoreStep, PTL DEF LiveSpec, ScoresFallOnlyWithTheVendor
=============================================================================
