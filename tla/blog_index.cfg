SPECIFICATION Spec
CONSTANTS
    Blogs = {b1}
    Instances = {i1, i2}
    Streams = {s1}
    MaxRetries = 2
    MaxFailedCycles = 1
    MaxTime = 1
    MaxOps = 4
    MaxFaults = 2
INVARIANTS
    TypeOK
    HitsAreStaleOrDue
    EveryDocumentWasAnnounced
PROPERTY
    ImplementsContract
CHECK_DEADLOCK FALSE
