CONSTANTS
    Identifier <- MCIdentifier
    File <- MCFile
    Corpora <- MCCorpora
    Malformed = Malformed
    Absent = Absent
    Workload <- MCWorkload
    KeyError = KeyError
    Levels <- MCLevels
    Threshold <- MCThreshold
    NativeThresholds <- MCNativeThresholds
    Official = {"linux_kvm"}
    Outcome <- MCOutcome
    Unmeasured = Unmeasured
    MaxCases = 3
SPECIFICATION Spec
INVARIANTS
    TypeOK
    ValidationDecidesCycles
    TopologyIsOrdered
    QueriesAgree
    PerfectMeansComplete
    FrontierNeverDry
PROPERTY DepthFollowsCases
CHECK_DEADLOCK FALSE
