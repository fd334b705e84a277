\* A parent that destroys a child twice.
SPECIFICATION Spec
CONSTANTS
    c1 = c1
    c2 = c2
    CPU = {c1, c2}
    BootCPU = c1
    NENV = 3
    NInit = 1
    MaxGen = 2
    Message = {0}
    NoCPU = NoCPU
    Programs = {"rekill"}
INVARIANTS
    ZombieKeptUntilTrap
