\* A program that forks (or dumbforks) again and again, with three slots.
SPECIFICATION Spec
CONSTANTS
    e1 = e1
    e2 = e2
    e3 = e3
    Env = {e1, e2, e3}
    First = e1
    NPAGE = 9
    Value = {0, 1}
    Image = 0
    Junk = Junk
    NoEnv = NoEnv
SYMMETRY EnvSymmetry
INVARIANTS
    CowSafe
PROPERTIES
    MemoryIsPrivate
    FaultResolved
CHECK_DEADLOCK FALSE
