CONSTANTS
    t1 = t1
    t2 = t2
    t3 = t3
    i1 = i1
    i2 = i2
    i3 = i3
    Thread <- MCThread3
    Item <- MCItem3
    ChunkSize = 2
    Modulus = 4
SPECIFICATION FairSpec
INVARIANTS
    TypeOK
    Conservation
    ConsumedOnce
    Drained
PROPERTIES
    Terminates
    EventuallyConsumed
