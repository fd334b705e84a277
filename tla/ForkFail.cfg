\* The first environment takes the child's branch when sys_exofork fails.
SPECIFICATION Spec
CONSTANTS
    e1 = e1
    e2 = e2
    Env = {e1, e2}
    First = e1
    NPAGE = 8
    Value = {0, 1}
    Image = 0
    Junk = Junk
    NoEnv = NoEnv
INVARIANTS
    ZeroOnlyInChild
CHECK_DEADLOCK FALSE
