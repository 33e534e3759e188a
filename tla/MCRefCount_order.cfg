\* Three threads hand around three handles of one block; one may be forgotten.
CONSTANTS
    Threads = {t1, t2, t3}
    Handles = {h1, h2, h3}
    Blocks = {b1}
    NoBlock = NoBlock
    NoThread = NoThread
    MaxRefcount = 7
    RefModulus = 16
    MaxLeaks = 1
SPECIFICATION Spec
SYMMETRY Symmetry
INVARIANTS
    RefCountExact
    ExclusiveIsAlone
    ReadersOrdered
    WritersOrdered
    FreeOrdered
