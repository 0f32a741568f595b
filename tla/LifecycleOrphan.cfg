\* A stop meets a daemon that is still starting.
SPECIFICATION Spec
CONSTANTS
    Starters = {p1}
    Stoppers = {q}
    None = None
    Wants = {FALSE, TRUE}
    ReadyTimeout = 1
    KillGrace = 0
    StartStale = 2
    BeatStale = 3
    SampleGap = 1
    BeatLag = 1
    BootLag = 1
    RecycleTime = 2
    MaxDaemons = 2
PROPERTY RelinquishesToSuccessor
