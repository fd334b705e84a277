\* Halting and liveness under fair timers, yields and lock acquisition, one or two processors.
SPECIFICATION TimerSpec
CONSTANTS
    c1 = c1
    c2 = c2
    CPU = {c1, c2}
    BootCPU = c1
    NENV = 3
    NInit = 2
    MaxGen = 1
    Message = {0}
    NoCPU = NoCPU
    Programs = {"breakpoint", "keyboard"}
INVARIANTS
    MonitorOnlyWhenIdle
PROPERTIES
    RoundRobinWithoutExits
    HaltsOnlyWithoutWork
    ZombieCollected
    TrapServed
