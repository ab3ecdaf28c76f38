SPECIFICATION Spec
CONSTANTS
    L = 2
    RedisLevels = {2}
    Faulty = {2}
    Writers = {w1, w2}
    Readers = {g1}
    Values = {v1, v2}
    Number = Number
    NoEntry = NoEntry
    Unknown = Unknown
    TTLs = {2, 4}
    MaxTime = 5
    MaxWrites = 3
SYMMETRY Symmetry
INVARIANTS
    TypeOK
    WritesStick
    LeaseBound
