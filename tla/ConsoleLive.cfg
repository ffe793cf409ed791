SPECIFICATION FairSpec
CONSTANTS
    MaxScans = 2
    MaxEvents = 1
    AgentOutput = {"valid", "error"}
INVARIANT TypeOK
INVARIANT LiveScanIsCurrent
PROPERTY LiveScanShown
PROPERTY StartingEnds
CHECK_DEADLOCK FALSE
