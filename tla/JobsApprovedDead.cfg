\* An operator approves a job whose TTL has passed while it waited for review.
SPECIFICATION Spec
CONSTANTS
    None = None
    RequestIds = {r1}
    Agents = {}
    Addressees = {None}
    Payloads = {p}
    MaxAttempts = 2
    MaxJobs = 1
    Retention = 1
    LeaseTimes = {None}
    Ttls = {1}
    LockWait = 0
    MaxJobId = 1
    MaxToken = 1
    Horizon = 3
    MaxTime = 3
PROPERTIES ApprovedCanRun
