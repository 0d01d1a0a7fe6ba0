\* A stage comes back to a program while a frame is between two of its reads.
CONSTANTS
    p1 = p1
    p2 = p2
    p3 = p3
    p4 = p4
    None = None
    Programs <- MCPrograms
    Translatable <- MCTranslatable
    Rejected <- MCRejected
    MaxLoads = 4
    Slots <- MCSlots
    MaxSlots = 0
SPECIFICATION LoadingSpec
INVARIANT KeptForThisPair
CHECK_DEADLOCK FALSE
