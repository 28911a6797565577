SPECIFICATION Spec
CONSTANTS
    Node = {n1, n2, n3, n4, n5}
    Null = Null
    Limit = 4
    Fds = {4, 5}
    Times = {1, 2}
SYMMETRY NodeSymmetry
INVARIANTS
    NoFault
    WellLinked
PROPERTY
    ListIsQueue
