SPECIFICATION Spec
CONSTANTS
    r1 = r1
    r2 = r2
    r3 = r3
    p1 = p1
    sys = sys
    hand = hand
    Runs = {r1, r2}
    Requests = {r1, r2}
    NoRun = NoRun
    UserPolicies = {p1}
    SystemBlock = sys
    ByHand = hand
    Meanings = {"old", "wanted"}
    Returning = {}
    Limited = {}
    Towards <- FwTowards
    Names = {"draft", "plan"}
    Prefixes <- FwPrefixes
    Schedules = {"always", "nightly"}
    AsIs = AsIs
    LastIndex = 4
    Absent = Absent
    NoView = Absent
    NoToken = NoToken
    NoSnapshot = NoSnapshot
    NoBody = NoBody
    Identities = {"site"}
    Operations <- CreateTwoWays
    Datasets <- FwDatasets
    States <- FwStates
    InitStates <- FwInit
    MaxEdits = 0
    ReadState <- FwReadState
    VerifyReads <- FwVerifyReads
    View <- FwView
    Validated <- FwValidated
    HasDiff <- FwHasDiff
    ApprovalMaterial <- FwApprovalMaterial
    SnapshotValue <- FwSnapshotValue
    Precondition <- FwPrecondition
    RuntimeSafe <- FwRuntimeSafe
    Request <- FwRequest
    Landing <- FwLanding
    Verified <- FwVerified
    SeveralMatches <- FwSeveralMatches
    Attempts <- FwAttempts
    Edits <- FwEdits
    Ticks <- FwTicks
SYMMETRY RunSymmetry
INVARIANT
    CreatesWhatWasPlanned
CHECK_DEADLOCK FALSE
