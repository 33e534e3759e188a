\* Two handles, two blocks of up to four bytes, values of one and two bytes.
CONSTANTS
    Handles = {h1, h2}
    Blocks = {b1, b2}
    NoBlock = NoBlock
    Bytes = {x, y}
    Junk = Junk
    TagBit = 8
    HeaderSize = 1
    HeaderAlign = 1
    ALIGNMENT = 2
    Reserved = 1
    Narrow = FALSE
    MinNonZeroCap = 2
    ChunkSize = 1
    MaxSlack = 0
    DebugAssertions = FALSE
    Sizes = {1, 2}
    NoArchive = NoArchive
SPECIFICATION ArchiveSpec
SYMMETRY Symmetry
INVARIANTS
    LayoutFits
    BlocksAreOwned
    ArchivesResolve
PROPERTY
    ImplementsByteStrings
