CONSTANTS
    Runs = {r1, r2, r3}
    NoRun = NoRun
    Stamps = {s1, s2}
    NoStamp = NoStamp
    Reasons = {"REFUSED_AUTHORIZATION", "REFUSED_FRESHNESS_RECHECK_FAILED"}
    MaxPowerCuts = 1
    MaxLost = 1
    MaxAltered = 1
SPECIFICATION Spec
INVARIANTS
    TypeOK
    WritesHaveRollback
    PlansAreBacked
PROPERTIES
    KeepsTheLog
    RestoresWhatWasSaved
SYMMETRY Symmetry
CHECK_DEADLOCK FALSE
