SPECIFICATION PipeSpec
CONSTANTS
    Blogs = {b1}
    Instances = {i1, i2}
    Streams = {s1, s2}
    MaxRetries = 1
    MaxFailedCycles = 1
    MaxTime = 1
    MaxOps = 3
    MaxFaults = 1
INVARIANTS
    PipeTypeOK
    AnnouncedWasPublished
    StoresAgree
CHECK_DEADLOCK FALSE
