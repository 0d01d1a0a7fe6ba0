\* Six packets of up to three dwords in a ring of six: it wraps up to three times,
\* with tails of zero, one and two dwords.
CONSTANTS
    Size = 6
    Lengths <- MCLengths
    Fillings = {"zero", "filler"}
    MaxPackets = 6
SPECIFICATION FairSpec
INVARIANT UnreadIntact
PROPERTIES ImplementsStream SpaceComes
CHECK_DEADLOCK FALSE
