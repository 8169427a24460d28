SPECIFICATION Spec
CONSTANTS
    Path = {etc1, run1, run2}
    Local = {etc1}
    Volatile = {run1, run2}
    Content = {c1, c2}
    None = None
    Torn = Torn
    MaxFaults = 2
INVARIANTS
    RevertRestores
PROPERTIES
    KeepsAWhole
SYMMETRY Interchangeable
