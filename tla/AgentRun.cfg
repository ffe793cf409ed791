SPECIFICATION Spec
CONSTANTS
    Width <- MCWidth
    Limit <- MCLimit
    Burst = 1
    MaxTicks = 1
INVARIANTS
    RunTypeOK
    SlotsBounded
    RateRespected
PROPERTIES
    ImplementsAgentReport
    CommandEnds
CHECK_DEADLOCK FALSE
