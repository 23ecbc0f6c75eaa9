SPECIFICATION Spec
CONSTANTS
    Writers = {w1, w2}
    Inodes = {n1, n2, n3}
    NoInode = NoInode
    NBackups = 2
    MaxStores = 3
SYMMETRY Symmetry
CHECK_DEADLOCK FALSE
INVARIANT AloneWorks
