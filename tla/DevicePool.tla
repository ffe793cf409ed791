----------------------------- MODULE DevicePool -----------------------------
(***************************************************************************)
(* The device registry of the continuous discovery pool                    *)
(* (apps/desktop/ippool/device_pool.go).  Each operation runs under the    *)
(* registry's mutex, so each is one action.                                *)
(*                                                                         *)
(* An entry keeps what the life cycle depends on: its status, whether it   *)
(* ever responded (ResponseCount > 0), its run of consecutive failures and *)
(* the best grade of evidence stored under each merge key.  Names and the  *)
(* mobile fingerprint are added by LiveRegistry; latency, TTL and time     *)
(* stamps are left out.                                                    *)
(***************************************************************************)
EXTENDS Integers, FiniteSets

CONSTANTS
    IP,               \* addresses that can be named to the registry
    EvidenceKey,      \* merge keys: type | source | value
    Grade,            \* evidence grades: (strength, confidence impact) pairs, ordered as 1, 2, ...
    RecentlyAfter,    \* Config: consecutive failures, active -> recently_seen
    StaleAfter,       \* Config: consecutive failures, recently_seen -> stale
    CandidateFailMax, \* Config: failures, candidate -> unreachable
    MaxPoolSize,      \* Config: memory bound on tracked devices
    FailCap           \* saturation of the failure run; larger runs behave alike

\* DefaultConfig has 1, 3 and 2; none of the three thresholds is ever clamped,
\* and a run longer than every threshold is indistinguishable from a longer one.
ASSUME ThresholdAssumption ==
    /\ RecentlyAfter \in Nat \ {0}
    /\ StaleAfter \in Nat \ {0}
    /\ CandidateFailMax \in Nat \ {0}
    /\ FailCap \in Nat
    /\ FailCap > RecentlyAfter
    /\ FailCap >= StaleAfter
    /\ FailCap >= CandidateFailMax

ASSUME GradeAssumption == Grade \subseteq Nat \ {0}

VARIABLES
    status,     \* entries[ip].Status, "absent" when there is no entry
    responded,  \* entries[ip].ResponseCount > 0
    streak,     \* consecutiveFail[ip], saturated at FailCap
    evidence    \* grade stored for a merge key in entries[ip].Evidence, 0 when none

poolVars == <<status, responded, streak, evidence>>

DeviceStatus == {"candidate", "active", "recently_seen", "stale", "unreachable"}

\* The statuses topologyDevices() sends to the map.
OnMap == {"active", "recently_seen", "stale"}

Tracked == {ip \in IP : status[ip] # "absent"}

PoolTypeOK ==
    /\ status \in [IP -> DeviceStatus \cup {"absent"}]
    /\ responded \in [IP -> BOOLEAN]
    /\ streak \in [IP -> 0..FailCap]
    /\ evidence \in [IP -> [EvidenceKey -> Grade \cup {0}]]

NoEvidence == [k \in EvidenceKey |-> 0]

PoolInit ==
    /\ status = [ip \in IP |-> "absent"]
    /\ responded = [ip \in IP |-> FALSE]
    /\ streak = [ip \in IP |-> 0]
    /\ evidence = [ip \in IP |-> NoEvidence]

-----------------------------------------------------------------------------
(* Operations *)

\* The status after EnsureCandidate: a new candidate, unless the address is
\* already tracked or the pool is full.
Ensured(ip) ==
    IF status[ip] = "absent" /\ Cardinality(Tracked) < MaxPoolSize
    THEN "candidate"
    ELSE status[ip]

EnsureCandidate(ip) ==
    /\ status' = [status EXCEPT ![ip] = Ensured(ip)]
    /\ UNCHANGED <<responded, streak, evidence>>

\* mergeEvidence: a duplicate key is replaced only by a strictly better grade.
\* (Mutant: last writer wins.)
MergeLastWins(old, new) == new
Merge(old, new) == IF new > old THEN new ELSE old

\* AddEvidence on an entry that exists after the first half of the caller's
\* step; items that sanitizeEvidenceForRegistry rejects never get here.
AddEvidence(ip, key, grade) ==
    evidence' = IF status'[ip] = "absent"
                THEN evidence
                ELSE [evidence EXCEPT ![ip][key] = Merge(@, grade)]

\* RecordSuccess followed by AddEvidence(ping_response), as consume() calls them.
\* The entry is created when it is missing, without looking at MaxPoolSize.
\* (Mutant: the failure run survives the success.)
RecordSuccessKeepStreak(ip, key, grade) ==
    /\ status' = [status EXCEPT ![ip] = "active"]
    /\ responded' = [responded EXCEPT ![ip] = TRUE]
    /\ AddEvidence(ip, key, grade)
    /\ UNCHANGED streak

RecordSuccess(ip, key, grade) ==
    /\ status' = [status EXCEPT ![ip] = "active"]
    /\ responded' = [responded EXCEPT ![ip] = TRUE]
    /\ streak' = [streak EXCEPT ![ip] = 0]
    /\ AddEvidence(ip, key, grade)

Bump(n) == IF n < FailCap THEN n + 1 ELSE n

\* The state machine of RecordFailure; stale and unreachable stay.
\* (Mutants: a candidate is demoted as if it had been active; a candidate gets a
\* status no reader of the registry knows.)
AfterFailureNoCandidate(s, fails) ==
    CASE s \in {"active", "candidate"} /\ fails >= RecentlyAfter -> "recently_seen"
      [] s = "recently_seen" /\ fails >= StaleAfter -> "stale"
      [] OTHER -> s

AfterFailureUnknownStatus(s, fails) ==
    CASE s = "active" /\ fails >= RecentlyAfter -> "recently_seen"
      [] s = "recently_seen" /\ fails >= StaleAfter -> "stale"
      [] s = "candidate" /\ fails >= CandidateFailMax -> "dead"
      [] OTHER -> s

AfterFailure(s, fails) ==
    CASE s = "active" /\ fails >= RecentlyAfter -> "recently_seen"
      [] s = "recently_seen" /\ fails >= StaleAfter -> "stale"
      [] s = "candidate" /\ fails >= CandidateFailMax -> "unreachable"
      [] OTHER -> s

RecordFailure(ip) ==
    /\ IF status[ip] = "absent"
       THEN UNCHANGED <<status, streak>>
       ELSE /\ streak' = [streak EXCEPT ![ip] = Bump(@)]
            /\ status' = [status EXCEPT ![ip] = AfterFailure(@, Bump(streak[ip]))]
    /\ UNCHANGED <<responded, evidence>>

\* ClearStale drops the stale and the unreachable entries with their failure runs.
Cleared == {ip \in IP : status[ip] \in {"stale", "unreachable"}}

\* (Mutant: consecutiveFail outlives the entry.)
ClearStaleKeepFail ==
    /\ status' = [ip \in IP |-> IF ip \in Cleared THEN "absent" ELSE status[ip]]
    /\ responded' = [ip \in IP |-> ip \notin Cleared /\ responded[ip]]
    /\ evidence' = [ip \in IP |-> IF ip \in Cleared THEN NoEvidence ELSE evidence[ip]]
    /\ UNCHANGED streak

ClearStale ==
    /\ status' = [ip \in IP |-> IF ip \in Cleared THEN "absent" ELSE status[ip]]
    /\ responded' = [ip \in IP |-> ip \notin Cleared /\ responded[ip]]
    /\ streak' = [ip \in IP |-> IF ip \in Cleared THEN 0 ELSE streak[ip]]
    /\ evidence' = [ip \in IP |-> IF ip \in Cleared THEN NoEvidence ELSE evidence[ip]]

\* Manager.AddDeviceEvidence and the first half of addSeedLocked.
EnsureWithEvidence(ip, key, grade) ==
    /\ status' = [status EXCEPT ![ip] = Ensured(ip)]
    /\ AddEvidence(ip, key, grade)
    /\ UNCHANGED <<responded, streak>>

PoolNext ==
    \/ \E ip \in IP : EnsureCandidate(ip)
    \/ \E ip \in IP : RecordFailure(ip)
    \/ \E ip \in IP, k \in EvidenceKey, g \in Grade :
          RecordSuccess(ip, k, g) \/ EnsureWithEvidence(ip, k, g)
    \/ ClearStale

PoolSpec == PoolInit /\ [][PoolNext]_poolVars

-----------------------------------------------------------------------------
(* What the registry promises *)

\* The status of an entry agrees with its run of consecutive failures, whatever
\* order the outcomes arrive in: an active device has missed fewer probes than
\* RecordFailure tolerates, a recently_seen one has missed enough to be demoted
\* and not yet enough to be stale, a stale one has missed StaleAfter, and an
\* address without an entry has no failures on record.
StreakMatchesStatus ==
    \A ip \in IP :
        /\ status[ip] = "absent" => streak[ip] = 0
        /\ status[ip] = "candidate" => streak[ip] < CandidateFailMax
        /\ status[ip] = "active" => streak[ip] < RecentlyAfter
        /\ status[ip] = "recently_seen" =>
              /\ streak[ip] >= RecentlyAfter
              /\ streak[ip] = RecentlyAfter \/ streak[ip] < StaleAfter
        /\ status[ip] = "stale" => streak[ip] >= StaleAfter /\ streak[ip] > RecentlyAfter
        /\ status[ip] = "unreachable" => streak[ip] >= CandidateFailMax

\* "never raw candidates or unreachable IPs" on the map: the statuses that
\* topologyDevices() selects are exactly those of devices that have answered.
MapShowsRespondersOnly ==
    \A ip \in IP : responded[ip] <=> status[ip] \in OnMap

\* "weaker duplicates never overwrite stronger observations": while an entry
\* lives, what is stored under a merge key never gets worse.
EvidenceNeverWeakens ==
    [][\A ip \in IP, k \in EvidenceKey :
          status'[ip] # "absent" => evidence'[ip][k] >= evidence[ip][k]]_poolVars

=============================================================================
