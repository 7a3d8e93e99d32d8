SPECIFICATION Spec
CONSTANTS
    Procs = {p1, p2}
    Inodes = {i1, i2, i3}
    NoInode = NoInode
    Releases <- MCReleases
    Starts <- MCStarts
    Good = {b1}
    Empty = {e1}
    Damaged = Damaged
    Absent = Absent
    MaxChanges = 1
INVARIANTS BinaryIsWhole BinaryIsVerified
PROPERTIES OnlyForward ReportIsTrue CurrentIsNewest
SYMMETRY Symmetry
CHECK_DEADLOCK FALSE
