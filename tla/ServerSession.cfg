SPECIFICATION Spec
CONSTANTS
    Streams = {"stdout", "stderr"}
    Threads = {"starter", "c1"}
    Processes = {"root"}
    MaxCancelPolls = 2
    Starter = "starter"
    MaxFaults = 1
    Closers = {"c1"}
    StreamOrder <- BothStreams
    Modes = {"session", "raw", "probe"}
INVARIANTS
    NoReadOnClosedPipe
    CleanEndIsClean
    EvidenceIsSound
    CancelHolds
    CancelTargetsOpenThread
