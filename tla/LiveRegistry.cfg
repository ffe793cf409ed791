SPECIFICATION LiveSpec
CONSTANTS
    ip1 = ip1
    ip2 = ip2
    IP = {ip1, ip2}
    EvidenceKey <- MCEvidenceKey
    Grade = {1, 2}
    RecentlyAfter = 1
    StaleAfter = 3
    CandidateFailMax = 2
    MaxPoolSize = 1
    FailCap = 3
    Sightings <- MCSightings
    Pings <- MCPings
    MaxEvidence = 3
INVARIANT PoolTypeOK
INVARIANT StreakMatchesStatus
INVARIANT MapShowsRespondersOnly
INVARIANT FingerprintCurrent
INVARIANT OneSourceNeverConvinces
PROPERTY EvidenceNeverWeakens
PROPERTY ScoresFallOnlyWithTheVendor
