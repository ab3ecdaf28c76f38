SPECIFICATION FairSpec
CONSTANTS
    N = 2
    MaxWrites = 2
INVARIANTS
    TypeOK
    AllOrNothing
    TimeoutStatusStands
PROPERTIES
    BufferSealed
    NeitherWaits
