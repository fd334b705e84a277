\* Three nested faults fit on the exception stack, a fourth does not.
SPECIFICATION Spec
CONSTANTS
    PGSIZE = 48
    MaxLocals = 1
    MaxRestarts = 1
    UserEsp = {46, 47}
INVARIANTS
    FramesOnXstack
PROPERTIES
    UnwindExact
    BadHandlerDies
CHECK_DEADLOCK FALSE
