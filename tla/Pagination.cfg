SPECIFICATION Spec
CONSTANTS
    Records = {1, 2, 3, 4, 5, 6}
    Longest = 5
    InitialTables <- FirstTables
    Limit = 2
    Servers <- AllServers
    MaxEdits = 3
INVARIANTS
    TypeOK
    QuietReadIsExact
    NothingLostToAdditions
    NothingTwiceWithoutInsertion
CHECK_DEADLOCK FALSE
