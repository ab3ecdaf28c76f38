SPECIFICATION BackgroundSpec
CONSTANTS
    Calls = {c1, c2}
    MaxChange = 4
    Nobody = Nobody
    Keys = {m1, m2}
    Items = {i1, i2, i3}
    Nil = Nil
    MaxNumber = 2
    Ttls = {1, 2}
    Loggers = {l1, l2}
    BufferSize = 2
CHECK_DEADLOCK FALSE
INVARIANTS OneWatcher
PROPERTIES ShowsLatest KeepsPromise LogCallsReturn
