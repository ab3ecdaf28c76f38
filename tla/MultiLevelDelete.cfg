SPECIFICATION Spec
CONSTANTS
    L = 2
    RedisLevels = {2}
    Faulty = {}
    Writers = {w1}
    Readers = {g1}
    Values = {v1, v2}
    Number = Number
    NoEntry = NoEntry
    Unknown = Unknown
    TTLs = {2, 4}
    MaxTime = 5
    MaxWrites = 3
SYMMETRY Symmetry
INVARIANT DeleteSticks
