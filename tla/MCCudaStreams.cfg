CONSTANTS
    Programs <- MCPrograms
    Limits = {0, 2}
    MaxStreams = 9
SPECIFICATION FairSpec
INVARIANTS
    TypeOK
    DependenciesMet
    StatesOrdered
    NothingPending
PROPERTY
    Returns
