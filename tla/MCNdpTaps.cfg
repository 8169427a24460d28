SPECIFICATION Spec
CONSTANTS
    Tap = {t1, t2}
    Rules = {r1, r2}
    None = None
    Operations <- AnyOperation
    MaxOps = 3
    MaxFaults = 1
CHECK_DEADLOCK FALSE
INVARIANTS
    TapTypeOK
    
PROPERTIES
    DeletionHeals
