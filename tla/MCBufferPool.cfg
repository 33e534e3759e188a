\* Three threads, two blocks, a queue of one.  The policy keeps, refuses or
\* panics as it likes, the last never under a shrink.
CONSTANTS
    Threads = {t1, t2, t3}
    Blocks = {b1, b2}
    Nothing = Nothing
    Capacities = {1, 2}
    Policy <- Moody
    PanicsInShrink = FALSE
    QueueCap = 1
    MaxEmpty = 1
SPECIFICATION FairSpec
CHECK_DEADLOCK FALSE
INVARIANTS
    TypeOK
    BlocksAccounted
    DropIsFinal
    StorageBounded
    DeallocIsSafe
    QuietIsClean
PROPERTIES
    ImplementsOwnership
    AbandonedIsFreed
    RetiredIsSettled
