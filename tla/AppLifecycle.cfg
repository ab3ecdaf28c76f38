SPECIFICATION FairSpec
CONSTANTS
    Runners = {r1, r2}
    Stoppers = {s1}
    MaxRequests = 1
CHECK_DEADLOCK FALSE
INVARIANTS
    TypeOK
    OneShutdownPerRun
    DeregisteredBeforeClosed
    StoresOutliveRequests
PROPERTIES ShutdownEnds
