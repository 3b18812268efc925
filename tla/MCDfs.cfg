CONSTANTS
    a = a
    b = b
    c = c
    d = d
    e = e
    NoSources = NoSources
    Node <- MCNode
    NodeOrder <- MCOrder
    Graphs <- MCAll
    SourceArgs <- MCSources
    Conditions <- MCConditions
SPECIFICATION FairSpec
INVARIANTS
    TypeOK
    PredecessorsFirst
    YieldedOnce
    CompleteOnDAG
PROPERTY
    Terminates
