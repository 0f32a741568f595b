\* One job, claimed up to three times, with every call on it at every time and
\* every token handed out so far.  Calls stop at the horizon; time and reads go on,
\* and what must end, ends.
SPECIFICATION FairSpec
CONSTANTS
    None = None
    RequestIds = {r1}
    Agents = {}
    Addressees = {None}
    Payloads = {p}
    MaxAttempts = 2
    MaxJobs = 3
    Retention = 1
    LeaseTimes = {None, 1}
    Ttls = {None, 2}
    LockWait = 1
    MaxJobId = 1
    MaxToken = 3
    Horizon = 4
    MaxTime = 7
INVARIANTS TypeOK ResultsFenced NothingLeftOfEarlierEnds RetriesBounded
PROPERTIES LimitsEnd NoEarlyExpiry SettlesWithinLease ImplementsLifecycle
