SPECIFICATION Spec
CONSTANTS
    PQ = FALSE
    MaxSkip = 2
    KemEvery = 1
    MaxSent = 4
    MaxFaults = 1
    MaxSteps = 2
INVARIANTS TypeOK Decryptable ForwardSecrecy NoKeyReuse
PROPERTY AtMostOnceAuthentic
