\* Two address spaces of two page tables of two entries, in too few pages for both.
\* The system stops when every environment has been destroyed.
SPECIFICATION Spec
CONSTANTS
    p1 = p1
    p2 = p2
    p3 = p3
    p4 = p4
    p5 = p5
    Page = {p1, p2, p3, p4, p5}
    NULL = NULL
    NENV = 2
    NPDE = 2
    NPTE = 2
    RefMod = 100
INVARIANTS
    RefCountsExact
    FreeIffUnused
    TablesPrivate
PROPERTIES
    NoWriteEscalation
SYMMETRY PageSymmetry
CHECK_DEADLOCK FALSE
