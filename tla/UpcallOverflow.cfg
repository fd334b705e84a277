\* The frames of a handler whose own stack leaves the exception stack.
SPECIFICATION Spec
CONSTANTS
    PGSIZE = 48
    MaxLocals = 1
    MaxRestarts = 1
    UserEsp = {46, 47}
INVARIANTS
    FramesApart
CHECK_DEADLOCK FALSE
