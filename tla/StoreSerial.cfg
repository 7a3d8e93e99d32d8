SPECIFICATION Spec
CONSTANTS
    a = a  b = b  c = c
    Names <- MCNames
    NoName = NoName
    Procs = {p1}
    Jobs <- MCJobs
    Seeds <- MCSeeds
    BasePort = 51900
    DefaultMode = "multibird"
    Serial = TRUE
INVARIANTS UniqueIndex NameMatchesDir DerivedPortsDistinct
PROPERTY IsRegistry
