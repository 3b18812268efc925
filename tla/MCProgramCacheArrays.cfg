CONSTANTS
    big = big
    small = small
    n = n
    A = A
    x = x
    y = y
    v1 = v1
    v2 = v2
    p1 = p1
    p2 = p2
    Type <- MCType
    Const = {n}
    Array = {A}
    Uses <- MCUses
    Value = {v1, v2}
    Binding = {x, y}
    Desc <- MCDesc
    Address = {p1, p2}
    Sizes = {0, 1}
    MaxHooks = 2
    MaxOps = 3
SPECIFICATION Spec
SYMMETRY Interchangeable
INVARIANTS
    ArraysAreCurrent
CHECK_DEADLOCK FALSE
