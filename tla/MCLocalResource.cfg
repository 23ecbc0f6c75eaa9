SPECIFICATION Spec
CONSTANTS
    Writers = {w1}
    Inodes = {n1, n2, n3}
    NoInode = NoInode
    NBackups = 3
    MaxStores = 5
SYMMETRY Symmetry
CHECK_DEADLOCK FALSE
INVARIANTS TypeOK  BackupsOrdered
PROPERTIES FinishedKept ImplementsRegister
