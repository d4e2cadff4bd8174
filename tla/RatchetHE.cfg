SPECIFICATION SpecHE
CONSTANTS
    PQ = FALSE
    MaxSkip = 1
    KemEvery = 1
    MaxSent = 3
    MaxFaults = 1
    MaxSteps = 2
INVARIANTS DecryptableHE OneHeaderKeyOpens
PROPERTY VeilsRatchet
