SPECIFICATION FamilySpec
CONSTANTS
    NetNS <- MCNetNS
    Default <- MCDefault
    Dev <- MCDev
    Nic <- MCNic
    Hardware <- MCHardware
    Addr <- MCAddr
    Route <- MCRoute
    Gateway <- MCGateway
    Proxy <- MCProxy
    SID <- MCSID
    RouteText <- MCRouteText
    RouteString <- MCRouteString
    BareRoute <- MCBareRoute
    NameOrder <- MCNameOrder
    Boot <- MCBoot
    Config <- AllConfigs
    MaxFaults = 2
INVARIANTS
    TypeOK
    NoOrphans
    Tracked
    AppliedComplete
    AppliedExactly
    Grounded
PROPERTIES
    RemovalsAreRecorded
    NicsKept
    KeptLinks
    ItemsTerminate
