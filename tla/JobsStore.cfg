\* Two requests in a store that holds one job: dedup, cap, retention, and the
\* abstract life of a job, while an agent registers.
SPECIFICATION Spec
CONSTANTS
    None = None
    RequestIds = {r1, r2}
    Agents = {a1}
    Addressees = {None}
    Payloads = {p}
    MaxAttempts = 2
    MaxJobs = 1
    Retention = 1
    LeaseTimes = {1}
    Ttls = {None, 1}
    LockWait = 0
    MaxJobId = 2
    MaxToken = 1
    Horizon = 2
    MaxTime = 2
SYMMETRY Symmetry
INVARIANTS OneJobPerRequest
PROPERTIES GrowsOnlyWithLiveWork EvictsOldestWhenFull ImplementsLifecycle
