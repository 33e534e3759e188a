\* Two threads, two handles and a block to move to; every call that has begun
\* runs to its end.
CONSTANTS
    Threads = {t1, t2}
    Handles = {h1, h2}
    Blocks = {b1, b2}
    NoBlock = NoBlock
    NoThread = NoThread
    MaxRefcount = 7
    RefModulus = 16
    MaxLeaks = 0
SPECIFICATION FairSpec
INVARIANTS
    TypeOK
    RefCountExact
    NoUseAfterFree
    NoOrphans
PROPERTIES
    ImplementsOwnership
    UnheldIsReclaimed
