\* A mutant is released under its waiters.
CONSTANTS
    main = main
    pump = pump
    worker = worker
    Threads <- MCThreads
    Boot <- MCBoot
    MaxHandle = 2
    MaxApc = 0
    MaxDepth = 0
    Calls = {"NtCreateMutant", "NtReleaseMutant"}
    WaitModes <- PlainModes
SPECIFICATION Spec
INVARIANT ReleaseWakesWaiter
CHECK_DEADLOCK FALSE
