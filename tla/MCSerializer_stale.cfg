\* The instance of MCSerializer_pool.cfg.
CONSTANTS
    Serializers = {s1}
    Addresses = {a1, a2}
    Capacity = 1
    Layouts <- SmallLayouts
    Alignment = 2
    Bases = {16, 34}
    MinCap = 3
    MaxCap = 6
    MaxLen = 3
    MaxDepth = 3
    MaxWord = 7
SPECIFICATION Spec
SYMMETRY Symmetry
CHECK_DEADLOCK FALSE
INVARIANT
    ReferencesResolve
