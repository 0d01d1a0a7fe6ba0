\* Every disc of up to three entries in the root and two in a subdirectory; reads that
\* fit, that end short and that begin at the end of the file.
CONSTANTS
    Names <- MCNames
    Folded <- MCFolded
    MaxEntries = 3
    t1 = t1
    t2 = t2
    Threads <- MCThreads
    NoThread = NoThread
    Table = 1
    TableSize = 1
    Start = 2
    FileSize = 3
    ImageSize = 5
    Lengths = {2}
    Offsets = {1}
    MaxHandles = 2
    MaxOps = 3
SPECIFICATION DiscSpec
INVARIANTS ResolvesRight GotItsBytes ReadsTile ToldWhenDone
PROPERTY Terminates
CHECK_DEADLOCK FALSE
