\* One or two processors, three slots for four environments in all, two generations, programs that set their own
\* status or hit int3, a keyboard.
SPECIFICATION SpecH
CONSTANTS
    c1 = c1
    c2 = c2
    CPU = {c1, c2}
    BootCPU = c1
    NENV = 3
    NInit = 1
    MaxGen = 2
    Message = {0, 1}
    NoCPU = NoCPU
    Programs = {"self", "breakpoint", "keyboard"}
    MaxBirths = 4
INVARIANTS
    TypeOK
    LockDiscipline
    OneCpuPerEnv
    StatusMatchesCpus
    AddressSpaceAlive
    FreeListExact
    ReceiverParked
    StaleIdsFail
    OnlyCreatorControls
PROPERTIES
    MessageStable
