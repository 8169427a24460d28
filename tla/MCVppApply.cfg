\* One failed request or crash and one restart of VPP, over any sequence of the
\* directories.
CONSTANTS
    None = None
    Untagged = Untagged
    Default = ""
    IP6 = {"p1"}
    Address = {"a1", "a2", "a3", "a4"}
    MaxIf = 10
    Dirs <- MCDirs
    NameOrder <- MCNameOrder
    BviName <- MCBvi
    NDPTapName <- MCTap
    AutoBdID <- MCBd
    MaxFaults = 1
    MaxRestarts = 1
    br0 = br0
    bond0 = bond0
    e1 = e1
    e2 = e2
    v10 = v10
    x1 = x1
    m1 = m1
    bvi0 = bvi0
    tap0 = tap0
    h1 = h1
    pci1 = pci1
SPECIFICATION Spec
INVARIANT VppTypeOK
 
INVARIANT VppRecorded
 
 
