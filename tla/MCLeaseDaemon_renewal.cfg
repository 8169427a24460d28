SPECIFICATION Spec
CONSTANTS
    Iface = {e1}
    IP = {p1, p2}
    None = None
    LeaseTime = {3}
    Configs <- AnyConfig
    Half = 1
    Margin = 1
    MaxDelay = 1
    MaxClock = 5
    MaxLost = 1
    MaxFaults = 0
INVARIANTS
    RenewalCovers
