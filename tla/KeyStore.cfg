SPECIFICATION Spec
CONSTANTS
    Secrets = {83, 202}
    Polys <- MCPolys
    Words = {1, 2}
    Threshold = 3
    NShares = 4
    MaxCommands = 4
    MaxFaults = 1
INVARIANTS TypeOK AnyThresholdJoins JoinExact SuccessUsable
PROPERTY LossExplained
CHECK_DEADLOCK FALSE
