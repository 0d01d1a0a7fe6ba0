\* The guest may register its callback, and the pump run it, before any thread has asked
\* for the system command buffer.
CONSTANTS
    main = main
    worker = worker
    audio = audio
    pump = pump
    Guests <- MCGuests
    Pump = pump
    InCallback = {"kernel", "tracer", "section"}
    InSection = {"kernel"}
    BufferFirst = FALSE
    MaxBuffers = 2
SYMMETRY MCSymmetry
SPECIFICATION Spec
INVARIANT NoWaitCycle
