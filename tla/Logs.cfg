SPECIFICATION Spec
CONSTANTS
    Inodes = {i1, i2}
    NoInode = NoInode
    MaxLines = 6
    Tails = {0, 2}
INVARIANTS TypeOK InOrder NoGap
PROPERTIES KeepsUp
CHECK_DEADLOCK FALSE
