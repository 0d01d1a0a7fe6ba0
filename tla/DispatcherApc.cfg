\* Alertable and timed waits with APCs; no symmetry, for the liveness.
CONSTANTS
    main = main
    pump = pump
    worker = worker
    Threads <- MCThreads
    Boot <- MCBoot
    MaxHandle = 2
    MaxApc = 2
    MaxDepth = 1
    Calls = {"NtCreateEvent", "ExCreateThread", "NtSetEvent"}
    WaitModes <- ApcModes
SPECIFICATION FairSpec
INVARIANTS UserApcHasApc ApcOrder
PROPERTIES SignalNotLost JoinersWake ApcsInterruptWaits
CHECK_DEADLOCK FALSE
