\* Four slots hold a pair of control flow, two fetches and an export, with or without a
\* dword or two to spare.  A stage may come back to a program it had.
CONSTANTS
    p1 = p1
    p2 = p2
    p3 = p3
    p4 = p4
    None = None
    Programs <- MCPrograms
    Translatable <- MCTranslatable
    Rejected <- MCRejected
    MaxLoads = 4
    Slots <- MCSlots
    MaxSlots = 4
SPECIFICATION LoadingSpec
INVARIANTS
    TornHasMovedOn
    ReadsInside SucceedsExactly FollowsListing
PROPERTY Settles
CHECK_DEADLOCK FALSE
