CONSTANTS
    Networks = {"lan", "guest", "servers"}
    Zones <- Zones3
    Gateway = "Gateway"
    ZoneOf <- Zone
    Hosts <- Host
    Ports = {"p", "q"}
    Unresolved = "unknown"
    Configurations <- Few
    Datasets <- Reads
    Relationships <- Pairs
    ToGateway = {"lan", "guest"}
    MaxGaps <- GapsOfEach
SPECIFICATION Spec
INVARIANT
    VpnPartsAreDistinguished
CHECK_DEADLOCK FALSE
