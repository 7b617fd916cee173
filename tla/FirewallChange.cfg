SPECIFICATION Spec
CONSTANTS
    r1 = r1
    r2 = r2
    r3 = r3
    p1 = p1
    sys = sys
    hand = hand
    Runs = {r1, r2}
    Requests = {r1, r2}
    NoRun = NoRun
    UserPolicies = {p1}
    SystemBlock = sys
    ByHand = hand
    Meanings = {"old", "wanted", "through"}
    Returning = {"through"}
    Limited = {"through"}
    Towards <- FwTowards
    Names = {"draft", "plan"}
    Prefixes <- FwPrefixes
    Schedules = {"always"}
    AsIs = AsIs
    LastIndex = 4
    Absent = Absent
    NoView = Absent
    NoToken = NoToken
    NoSnapshot = NoSnapshot
    NoBody = NoBody
    Identities = {"site", "upgraded"}
    Operations <- ChangeOps
    Datasets <- FwDatasets
    States <- FwStates
    InitStates <- FwInitReturning
    MaxEdits = 1
    ReadState <- FwReadState
    VerifyReads <- FwVerifyReads
    View <- FwView
    Validated <- FwValidated
    HasDiff <- FwHasDiff
    ApprovalMaterial <- FwApprovalMaterial
    SnapshotValue <- FwSnapshotValue
    Precondition <- FwPrecondition
    RuntimeSafe <- FwRuntimeSafe
    Request <- FwRequest
    Landing <- FwLanding
    Verified <- FwVerified
    SeveralMatches <- FwSeveralMatches
    Attempts <- FwAttempts
    Edits <- FwEdits
    Ticks <- FwTicks
SYMMETRY RunSymmetry
INVARIANTS
    OnlyApprovedRunsWrite
    WritesWhatWasApproved
    SnapshotIsWhatIsReplaced
    ProtectedPolicyUntouched
PROPERTY
    AppliedMeansDone
CHECK_DEADLOCK FALSE
