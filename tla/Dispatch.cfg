\* A worker and a dispatcher, which may die, with fairness: clients and operators
\* act until the horizon, then the processes are left to themselves.
SPECIFICATION DFairSpec
CONSTANTS
    None = None
    RequestIds = {r1}
    Agents = {a1}
    Addressees = {None, a1}
    Agent = a1
    Payloads = {read, write}
    WritePayloads = {write}
    ReviewPayloads = {}
    BlankPayloads = {}
    MaxAttempts = 2
    MaxJobs = 1
    Retention = 9
    LeaseTimes = {1}
    LeaseTime = 1
    Ttls = {None}
    LockWait = 0
    MaxJobId = 1
    MaxToken = 4
    Horizon = 1
    MaxTime = 3
    Workers = {w1, d1}
    Dispatchers = {d1}
    Mortal = {d1}
    Writers = {w1, d1}
    InboxLimit = 1
INVARIANTS ForcedWritesPark
PROPERTIES LostTurnsAbort JobsSettle DispatchReturns
