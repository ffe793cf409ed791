SPECIFICATION Spec
CONSTANTS
    gw = gw
    host = host
    public = public
    None = None
    IP = {gw}
    Allowed <- MCAllowed
    Subnet <- MCSubnet
    SubnetOf <- MCSubnetOf
    Expandable <- MCExpandable
    Hosts <- MCHosts
    Worker = {w1}
    QueueCap = 1
    ResultCap = 2
    MaxSessions = 2
    EvidenceKey = {k}
    Grade = {1}
    SeedKey = k
    PingKey = k
    SeedGrade = 1
    PingGrade = 1
    RecentlyAfter = 1
    StaleAfter = 2
    CandidateFailMax = 1
    FailCap = 2
    MaxPoolSize = 3
    PauseInput = {}
    SeedInput = {}
    EvidenceInput = {}
CHECK_DEADLOCK FALSE
INVARIANT TypeOK
INVARIANT AtMostOneProbe
 
INVARIANT BacklogHasNoDuplicates
