\* A counter that aborts above 1 and wraps at 5, and forgotten handles.
\* The program stops when it aborts.
CONSTANTS
    Threads = {t1, t2}
    Handles = {h1, h2, h3, h4, h5}
    Blocks = {b1}
    NoBlock = NoBlock
    NoThread = NoThread
    MaxRefcount = 1
    RefModulus = 5
    MaxLeaks = 2
SPECIFICATION Spec
SYMMETRY Symmetry
CHECK_DEADLOCK FALSE
INVARIANT
    NoCounterWrap
