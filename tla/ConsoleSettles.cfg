SPECIFICATION Spec
CONSTANTS
    MaxScans = 2
    MaxEvents = 2
    AgentOutput = {"valid", "error"}
CHECK_DEADLOCK FALSE
INVARIANT QuietMeansSettled
