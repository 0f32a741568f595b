\* One job, one dispatch_wait call, no subscription, hooks one after the other; every
\* process may end at any step, every best-effort write may fail.
SPECIFICATION ZSpec
CONSTANTS
    NoFile = NoFile
    NoCall = NoCall
    NoKey = NoKey
    Jobs = {j1}
    Inbox = {}
    Calls = {c1}
    Uris = {}
    MaxEnds = 1
    Revivable = {j1}
INVARIANTS OwnJobsOnly HookRepeatsNothing HookTellsOnce NothingForgotten
