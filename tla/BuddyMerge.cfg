SPECIFICATION Spec
CONSTANTS
    MaxOrder = 2
    Roots = 2
    Unit = 4
    MetaSize = 1
    SizeLimit = 20
    Word = 800
    IntWord = 80
    Sizes = {0, 3, 4, 8, 16, 30}
    Counts = {0, 2}
    Handles = {h1, h2, h3, h4}
    MaxMapped = 1
SYMMETRY HandleSymmetry
CHECK_DEADLOCK FALSE
INVARIANT
    CombinesOnlyFree
