SPECIFICATION FamilySpec
CONSTANTS
    NetNS <- MCNetNS
    Default <- MCDefault
    Dev <- MCDev
    Nic <- MCNic
    Hardware <- MCHardware
    Addr <- MCAddr
    Route <- MCRoute
    Gateway <- MCGateway
    Proxy <- MCProxy
    SID <- MCSID
    RouteText <- MCRouteText
    RouteString <- MCRouteString
    BareRoute <- MCBareRoute
    NameOrder <- MCNameOrder
    Boot <- MCBoot
    Config <- ItemConfigs
    MaxFaults = 0
PROPERTIES
    SystemDeviceNotDeleted
