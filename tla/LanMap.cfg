SPECIFICATION Spec
CONSTANTS
    Bits = 7
    MaxScanHosts = 8
    SoftWarnHosts = 4
    PrivateBlocks <- MCPrivateBlocks
    Private6 = {1}
    VirtualMACs = {"vm"}
    VirtualNames = {"docker"}
    Hosts <- MCHosts
    Gateways <- MCGateways
    Requests <- MCRequests
    Names <- MCNames
    Lans <- MCLans
    Contexts <- MCContexts
    Answers <- MCAnswers
    Mobiles <- MCMobiles
INVARIANTS
    ScopeRespected
    NoRoleFromAddressAlone
    UpstreamOrderIrrelevant
    CitationsResolve
    SectionsAgree
    ReportValidates
CHECK_DEADLOCK FALSE
