CONSTANTS
    MaxGrid = 3
    BlockSize = 2
    Rounds = 2
    MaxLaunches = 2
    Capacities = {2, 3}
SPECIFICATION FairSpec
INVARIANTS
    TypeOK
    FlagsDownAtEnd
PROPERTIES
    ImplementsBarrier
    LowersOwnRound
    KernelEnds
