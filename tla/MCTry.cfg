SPECIFICATION TrySpec
CONSTANTS
    NetNS <- MCNetNS
    Default <- MCDefault
    Dev <- MCDev
    Nic <- MCNic
    Hardware <- MCHardware
    Addr <- MCAddr
    Route = {"r1"}
    Gateway = {}
    Proxy = {}
    SID = {}
    RouteText = {"net1"}
    RouteString <- MCRouteString
    BareRoute = {}
    NameOrder <- MCNameOrder
    Boot <- MCBoot
    Config <- MCConfig
    MaxFaults = 1
INVARIANTS
    TryTypeOK
PROPERTIES
    RollbackSparesShared
    TryDecided
