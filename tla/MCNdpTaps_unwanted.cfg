SPECIFICATION Spec
CONSTANTS
    Tap = {t1}
    Rules = {r1}
    None = None
    Operations <- AnyOperation
    MaxOps = 5
    MaxFaults = 0
CHECK_DEADLOCK FALSE
INVARIANTS
    NotRebuilt
