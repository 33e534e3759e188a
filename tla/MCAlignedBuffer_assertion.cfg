\* A debug build.  One property, which the code does not keep.
CONSTANTS
    Handles = {h1, h2}
    Blocks = {b1}
    NoBlock = NoBlock
    Bytes = {x}
    Junk = Junk
    TagBit = 8
    HeaderSize = 1
    HeaderAlign = 1
    ALIGNMENT = 2
    Reserved = 1
    Narrow = TRUE
    MinNonZeroCap = 2
    ChunkSize = 1
    MaxSlack = 1
    DebugAssertions = TRUE
SPECIFICATION Spec
INVARIANT
    NoAssertionFails
