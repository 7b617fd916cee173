SPECIFICATION Spec
CONSTANTS
    r1 = r1
    r2 = r2
    f1 = f1
    f2 = f2
    hand = hand
    Runs = {r1, r2}
    Restores = {r1, r2}
    NoRun = NoRun
    Forwards = {f1, f2}
    AddedByHand = hand
    Senses = {"ssh", "web"}
    Replacements <- Substitutes
    MaxStamp = 1
    Anything = Anything
    Absent = Absent
    NotRead = NotRead
    NoView = NotRead
    NoToken = NoToken
    NoSnapshot = NoSnapshot
    NoBody = NoBody
    Identities = {"site"}
    Operations <- Commands
    Datasets <- PfDatasets
    States <- PfStates
    InitStates <- PfInit
    MaxEdits = 1
    ReadState <- PfReadState
    VerifyReads <- PfVerifyReads
    View <- PfView
    Validated <- PfValidated
    HasDiff <- PfHasDiff
    ApprovalMaterial <- PfApprovalMaterial
    SnapshotValue <- PfSnapshotValue
    Precondition <- PfPrecondition
    RuntimeSafe <- PfRuntimeSafe
    Request <- PfRequest
    Landing <- PfLanding
    Verified <- PfVerified
    SeveralMatches <- PfSeveralMatches
    Attempts <- PfAttempts
    Edits <- PfEdits
    Ticks <- PfTicks
SYMMETRY RunSymmetry
INVARIANTS
    SendsTheApprovedObject
PROPERTIES
    DeletedMeansGone
    RestoreAddsNoDuplicate
    RestoredMeansOnce
CHECK_DEADLOCK FALSE
