CONSTANTS
    DDE = DDE
    DSE = DSE
    R2V = R2V
    AE = AE
    CFBR = CFBR
    SR = SR
    AS = AS
    FAS = FAS
    FRS = FRS
    Descriptors = Descriptors
    States = States
    InterstateEdges = InterstateEdges
    Nodes = Nodes
    Memlets = Memlets
    Pass <- SimplifyPasses
    Element <- ModifiesFlags
    Pipelines <- MCPipelines
    Orderings <- MCOrderings
    MaxChanges = 2
SPECIFICATION FairSpec
INVARIANTS
    TypeOK
    ResultsFresh
    TransitivelyFresh
    NoRedundantRun
    FixedPointReached
PROPERTY
    Terminates
