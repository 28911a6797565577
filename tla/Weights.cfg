SPECIFICATION Spec
CONSTANTS
    N = 4
    MaxCalls = 1
    Weights <- SomeWeights
INVARIANTS
    WeightsTypeOK
    AncestorRight
    SiblingsRight
