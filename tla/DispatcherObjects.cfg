\* Every call on events, mutants and thread objects; a timed wait may also never run out.
CONSTANTS
    main = main
    pump = pump
    worker = worker
    Threads <- MCThreads
    Boot <- MCBoot
    MaxHandle = 2
    MaxApc = 0
    MaxDepth = 0
    Calls = {"NtCreateMutant", "NtCreateEvent", "ExCreateThread", "NtReleaseMutant", "NtSetEvent", "NtClose", "ExTerminateThread"}
    WaitModes <- TimedModes
SPECIFICATION Spec
SYMMETRY MCSymmetry
INVARIANTS TypeOK NoLostWakeup EndedIsSignaled OneWaitPerSignal
CHECK_DEADLOCK FALSE
