\* Three handles, two blocks of up to three bytes, an allocator that may give
\* one byte more than asked.
CONSTANTS
    Handles = {h1, h2, h3}
    Blocks = {b1, b2}
    NoBlock = NoBlock
    Bytes = {x, y}
    Junk = Junk
    TagBit = 8
    HeaderSize = 4
    HeaderAlign = 1
    ALIGNMENT = 1
    Reserved = 1
    Narrow = FALSE
    MinNonZeroCap = 2
    ChunkSize = 1
    MaxSlack = 1
    DebugAssertions = FALSE
SPECIFICATION Spec
SYMMETRY Symmetry
INVARIANTS
    TypeOK
    LayoutFits
    BlocksAreOwned
PROPERTIES
    SharedIsImmutable
    ImplementsByteStrings
