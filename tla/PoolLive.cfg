SPECIFICATION FairSpec
CONSTANTS
    gw = gw
    host = host
    public = public
    None = None
    IP = {gw, public}
    Allowed <- MCAllowed
    Subnet <- MCSubnet
    SubnetOf <- MCSubnetOf
    Expandable <- MCExpandable
    Hosts <- MCHosts
    Worker = {w1}
    QueueCap = 1
    ResultCap = 2
    MaxSessions = 1
    EvidenceKey = {k}
    Grade = {1}
    SeedKey = k
    PingKey = k
    SeedGrade = 1
    PingGrade = 1
    RecentlyAfter = 1
    StaleAfter = 2
    CandidateFailMax = 1
    FailCap = 2
    MaxPoolSize = 3
    PauseInput = {TRUE, FALSE}
    SeedInput = {gw, public}
    EvidenceInput = {public}
CHECK_DEADLOCK FALSE
INVARIANT InScope
PROPERTY MarkReleased
