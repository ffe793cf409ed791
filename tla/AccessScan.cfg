SPECIFICATION Spec
CONSTANTS
    Private <- MCPrivate
    Slots <- MCSlots
    Outcome <- MCOutcome
    Keys <- MCKeys
    Fingerprints <- MCFingerprints
    Rules <- MCRules
INVARIANTS
    DoubleNATNeverLost
    GatewayFindingsKept
    ContributionsAccountForScores
    GatesAgree
    SafeIsUndisputed
    CollectionMatchesContext
CHECK_DEADLOCK FALSE
