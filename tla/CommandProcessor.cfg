\* Three packets in the ring: a register write or a shader, a draw, and what follows it,
\* or a draw, its fence and a draw with new data.  A guest announces packets of one menu.
CONSTANTS
    MaxDraws = 3
    Buffer <- MCBuffer
    Indices <- MCIndices
    Watched <- MCWatched
    Words = {"fence", "cursor"}
    Translation <- MCTranslation
    Vblanks = {1, 2}
    MaxBufferBytes = 100
    MaxDepth = 3
    Menus <- MCMenus
    FenceMenus <- MCFenceMenus
    MaxPackets = 3
    MaxExpectation = 6
    MaxRewrites = 1
    Cursors <- MCCursors
SPECIFICATION FenceFairSpec
INVARIANTS
    FenceTypeOK DrawOrder NewestKept
    ExecutesInLine DrawsSeeTheirState CountsInsideBuffers
    ReuseIsSafe
PROPERTIES ReadyIsShown FenceFreesWaiter WaitsEnd
\* Guests stop announcing and waiting when they please.
CHECK_DEADLOCK FALSE
