\* Two ensures and a stop at a time, two daemons, everybody may die.
SPECIFICATION Spec
CONSTANTS
    Starters = {p1, p2}
    Stoppers = {q}
    None = None
    Wants = {FALSE}
    ReadyTimeout = 1
    KillGrace = 0
    StartStale = 2
    BeatStale = 3
    SampleGap = 1
    BeatLag = 1
    BootLag = 1
    RecycleTime = 2
    MaxDaemons = 2
INVARIANTS TypeOK OneDaemon SparesAdopted
PROPERTIES StopsOnlyOurs
