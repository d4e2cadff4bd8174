SPECIFICATION Spec
CONSTANTS
    Member = {a, b, m}
    Sender = {a}
    a = a
    b = b
    m = m
    MaxSkip = 1
    IndexMod = 4
    MaxSent = 5
    MaxGen = 2
INVARIANTS TypeOK ForwardSecrecy Decryptable NoKeyReuse
PROPERTY AtMostOnceAuthentic
