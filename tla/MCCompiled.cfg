CONSTANTS
    o1 = o1
    o2 = o2
    o3 = o3
    o4 = o4
    Object = {o1, o2, o3, o4}
    Name <- MCName
    MaxCount = 2
    MaxVersion = 2
    MaxRestarts = 1
    MaxRefs = 3
    Environments <- MCEnvironments
SPECIFICATION Spec
SYMMETRY Interchangeable
INVARIANTS
    TypeOK
    NoSharedLibrary
    MappedFileIntact
    RunsItsProgram
    SoundUnlessDisturbed
CHECK_DEADLOCK FALSE
