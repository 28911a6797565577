SPECIFICATION Spec
CONSTANTS
    MaxOrder = 2
    Roots = 2
    Unit = 4
    MetaSize = 1
    SizeLimit = 20
    Word = 32
    IntWord = 32
    Sizes = {3, 8, 17}
    Counts = {0, 2}
    Handles = {h1, h2, h3, h4}
    MaxMapped = 1
SYMMETRY HandleSymmetry
CHECK_DEADLOCK FALSE
INVARIANT
    CallocRefusesLarge
