\* The policy may panic under a shrink too.  One property, which the code does
\* not keep.
CONSTANTS
    Threads = {t1, t2}
    Blocks = {b1, b2}
    Nothing = Nothing
    Capacities = {1, 2}
    Policy <- Moody
    PanicsInShrink = TRUE
    QueueCap = 1
    MaxEmpty = 1
SPECIFICATION Spec
SYMMETRY Symmetry
CHECK_DEADLOCK FALSE
INVARIANT
    DeallocIsSafe
