\* Two workers, one of which may stop or die, and one request that is
\* retried, cancelled, recovered and approved.
SPECIFICATION TSpec
CONSTANTS
    None = None
    RequestIds = {r1}
    Agents = {a1}
    Addressees = {None, a1}
    Agent = a1
    Payloads = {read, write, gated, blank}
    WritePayloads = {write, gated}
    ReviewPayloads = {gated}
    BlankPayloads = {blank}
    MaxAttempts = 2
    MaxJobs = 1
    Retention = 9
    LeaseTimes = {1}
    LeaseTime = 1
    Ttls = {None}
    LockWait = 1
    MaxJobId = 1
    MaxToken = 5
    Horizon = 3
    MaxTime = 3
    Workers = {w1, w2}
    Mortal = {w1}
    Writers = {w1, w2}
    InboxLimit = 1
INVARIANTS WriteRunsOncePerDecision ReviewBeforeTurn ResultsOfLastTurn
PROPERTIES TurnsStartOwned
