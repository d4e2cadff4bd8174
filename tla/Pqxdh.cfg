CONSTANTS
    Party = {a, b, c}
    Relay = relay
    PoolSize = 2
    IdSpace = 2
    MaxOpenings = 2
    MaxAccepts = 1
SPECIFICATION Spec
SYMMETRY PartySymmetry
INVARIANTS Agreement RelayExcluded OpeningsAccepted
CHECK_DEADLOCK FALSE
