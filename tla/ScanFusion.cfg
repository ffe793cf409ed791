SPECIFICATION Spec
CONSTANTS
    PrivateIP <- MCPrivateIP
    Lexical <- MCLexical
    Reports <- MCReports
INVARIANTS
    OneDevicePerMAC
    NothingObservedIsLost
    PublicNeverConfident
    ClassificationStable
    SolidEdgesProven
    InferenceStaysWeak
CHECK_DEADLOCK FALSE
