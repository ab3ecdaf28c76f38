SPECIFICATION FairSpec
CONSTANTS
    Keys = {k1, k2}
    Callers = {c1, c2}
    Buckets = {b1, b2}
    NoBucket = NoBucket
    Capacity = 2
    Rate = 1
    Sizes = {1, 2}
    MaxTime = 2
INVARIANTS
    TypeOK
    RateBound
    HeldIsRegisteredOrForgotten
    KeysIsolated
PROPERTIES Answered
