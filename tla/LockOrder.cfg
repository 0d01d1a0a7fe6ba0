\* The guest has the system command buffer before it registers its callback, and takes
\* no tracer lock inside its critical section.
CONSTANTS
    main = main
    worker = worker
    audio = audio
    pump = pump
    Guests <- MCGuests
    Pump = pump
    InCallback = {"kernel", "tracer", "section"}
    InSection = {"kernel"}
    BufferFirst = TRUE
    MaxBuffers = 2
SYMMETRY MCSymmetry
SPECIFICATION Spec
INVARIANTS NoWaitCycle OneSystemBuffer
