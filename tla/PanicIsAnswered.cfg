SPECIFICATION RequestsSpec
CONSTANTS
    Keys = {k1, k2}
    Limit = 2
    WindowLen = 2
    Sizes = {1, 2, 3}
    NoWindow = NoWindow
    MaxTime = 5
    Requests = {r1, r2}
    Writers = {w1, w2}
    Nobody = Nobody
    MinLength = 2
    MaxPieces = 3
    Chains <- SomeChains
    Quiet <- SomeQuietChains
    GrpcChains <- SomeGrpcChains
CHECK_DEADLOCK FALSE
INVARIANT PanicIsAnswered
