SPECIFICATION Spec
CONSTANTS
    Iface = {e1, e2}
    IP = {p1}
    None = None
    LeaseTime = {0, 8}
    Configs <- V4Configs
    Half = 4
    Margin = 1
    MaxDelay = 1
    MaxClock = 10
    MaxLost = 0
    MaxFaults = 0
INVARIANTS
    BeliefSound
    NoLapse
SYMMETRY Interchangeable
