SPECIFICATION Spec
CONSTANTS
    Width = 3
    Octet = 1
    DefaultBits = 2
    MaxPerKey = 2
    MaxBytes = 4
    Names = {"n1", "n2"}
    Worlds <- MCWorlds
    Procs = {p1, p2}
    Jobs = {"strict", "down"}
INVARIANTS TypeOK StrictKeepsApart ProbeIsContested
PROPERTY RefusalIsJustified
