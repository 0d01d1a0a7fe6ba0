\* No frame or one; two listeners, so that one may be closed or come too late.
CONSTANTS
    MaxFrames = 1
    MaxListeners = 2
SPECIFICATION ProcessSpec
INVARIANTS ExitCodeTells StartupInOrder
PROPERTY Ends
CHECK_DEADLOCK FALSE
