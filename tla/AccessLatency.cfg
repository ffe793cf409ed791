SPECIFICATION Spec
CONSTANTS
    Private <- MCPrivate
    Slots <- MCSlots
    Outcome <- MCOutcome
    Keys <- MCKeys
    Fingerprints <- MCFingerprints
    Rules <- MCRules
INVARIANT LatencyNeverDecides
CHECK_DEADLOCK FALSE
