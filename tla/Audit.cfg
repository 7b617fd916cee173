CONSTANTS
    Networks = {"lan", "guest", "servers"}
    Zones <- Zones3
    Gateway = "Gateway"
    ZoneOf <- Zone
    Hosts <- Host
    Ports = {"p", "q"}
    Unresolved = "unknown"
    Configurations <- Places
    Datasets <- Reads
    Relationships <- Pairs
    ToGateway = {"lan", "guest"}
    MaxGaps <- GapsOfEach
SPECIFICATION Spec
INVARIANTS
    TypeOK
    ClaimsAreTrue
    ClearCasesAreDecided
    GatewayClaimsAreTrue
    DatasetGapsAreNamed
    NothingSaidWithoutNetworks
CHECK_DEADLOCK FALSE
