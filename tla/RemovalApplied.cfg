SPECIFICATION Spec
CONSTANTS
    r1 = r1
    r2 = r2
    r3 = r3
    k1 = k1
    k2 = k2
    Runs = {r1, r2}
    NoRun = NoRun
    Clients = {k1, k2}
    Networks = {"lan", "iot"}
    Addresses = {"a1", "a2"}
    Contested = {"a1"}
    NoAddress = NoAddress
    Settings = {"kept", "other"}
    MaxStamp = 1
    Absent = Absent
    NotRead = NoView
    NoView = NoView
    NoToken = NoToken
    NoSnapshot = NoSnapshot
    NoBody = NoBody
    Identities = {"site"}
    Operations <- IpOps
    Datasets <- IpDatasets
    States <- IpStates
    InitStates <- IpInit
    MaxEdits = 1
    ReadState <- IpReadState
    VerifyReads <- IpVerifyReads
    View <- IpView
    Validated <- IpValidated
    HasDiff <- IpHasDiff
    ApprovalMaterial <- IpApprovalMaterial
    SnapshotValue <- IpSnapshotValue
    Precondition <- IpPrecondition
    RuntimeSafe <- IpRuntimeSafe
    Request <- IpRequest
    Landing <- IpLanding
    Verified <- IpVerified
    SeveralMatches <- IpSeveralMatches
    Attempts <- IpAttempts
    Edits <- IpEdits
    Ticks <- IpTicks
SYMMETRY RunSymmetry
PROPERTY
    AppliedMeansReleased
CHECK_DEADLOCK FALSE
