\* Four processors: three are started one after the other while the first ones wait.
SPECIFICATION Spec
CONSTANTS
    NCPU = 4
    NENV = 3
    Bios <- MCBios
INVARIANTS
    OwnStack
    OwnRegion
    NoLockPanic
    NoEarlyMonitor

    
