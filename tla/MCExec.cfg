SPECIFICATION FairCallSpec
CONSTANTS
    Descendants = {d1, d2}
    Streams = {out, err}
    Cap = 1
    PipeSize = 1
    MaxOutput = 2
    MaxFailures = 1
INVARIANTS
    CallTypeOK
    OutputIsWhole
    NoLeak
PROPERTIES
    Drains
    ReturnsUnlessHeld
CHECK_DEADLOCK FALSE
