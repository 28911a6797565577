SPECIFICATION Spec
CONSTANTS
    SizeLimit = 2
    Word = 8
    Sizes = {0, 1, 2, 3, 4}
    Handles = {h1, h2, h3}
    Tokens = {7}
    MaxBlocks = 3
    MetaSize = 1
SYMMETRY HandleSymmetry
INVARIANTS
    OneOwner
    HeapTypeOK
    CountersExact
    BytesExact
    ContentsKept
