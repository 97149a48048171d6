SPECIFICATION Spec
CONSTANTS
    Streams = {"stdout"}
    Threads = {"starter", "c1"}
    Processes = {"root", "kin"}
    MaxCancelPolls = 2
    Starter = "starter"
    MaxFaults = 1
    Closers = {"c1"}
    StreamOrder <- OneStream
    Modes = {"session", "raw", "probe"}
INVARIANT ClosedOnce
PROPERTIES
    ClaimedProcessEnds
    CallsReturn
    CancelledReaderStops
