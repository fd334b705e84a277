SPECIFICATION Spec
CONSTANTS
    UINT = 65536
    ULLONG = 16777216
    NULL = NULL
    MemTop = 11
    MaxString = 3
    Bytes = {1, 200}
    Values <- SmallAndBig
    Widths = {0, 1, 3, 6}
    MaxFormat = 5
    MaxStabs = 6
    MaxTypes = 6
    Machines <- SomeMachines
INVARIANTS
    StringsExact
    FormatExact
    StabExact
    LayoutSound
    SegmentsLoaded
