CONSTANTS
    o1 = o1
    o2 = o2
    o3 = o3
    o4 = o4
    Object = {o1, o2}
    Name <- MCName
    MaxCount = 2
    MaxVersion = 1
    MaxRestarts = 0
    MaxRefs = 2
    Environments <- CallFault
SPECIFICATION Spec
SYMMETRY Interchangeable
INVARIANTS
    CallsAreSound
CHECK_DEADLOCK FALSE
