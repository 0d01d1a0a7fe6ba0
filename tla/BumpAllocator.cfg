\* One unit is 4 KiB: 16 units are the granularity, 1 the gap.  The space holds
\* two to six regions before it wraps; two requests are larger than MaxSize and one of
\* them rounds to zero in 32 bits.
CONSTANTS
    Space = 512
    Base = 320
    Gran = 16
    Gap = 1
    MaxSize = 64
    StackSize = 64
    TlsSize = 16
    SystemSize = 16
    Sizes <- MCSizes
    Alignments <- MCAlignments
    MaxRegions = 6
SPECIFICATION Spec
INVARIANTS ApartUntilWrap SystemBufferIsolated
CHECK_DEADLOCK FALSE
