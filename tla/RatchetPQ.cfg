SPECIFICATION Spec
CONSTANTS
    PQ = TRUE
    MaxSkip = 1
    KemEvery = 2
    MaxSent = 5
    MaxFaults = 0
    MaxSteps = 4
INVARIANTS Decryptable HealsWithinK SkippedBounded
