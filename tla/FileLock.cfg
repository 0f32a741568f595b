\* Three processes, two of which may die holding the lock; no live holder outstays lockStaleMs.
SPECIFICATION FairSpec
CONSTANTS
    NoFile = NoFile
    Procs = {p1, p2, p3}
    Mortal = {p1, p2}
    Stale = 2
    Timeout = 1
    Prompt = TRUE
INVARIANTS TypeOK ExcludesUntilStale
PROPERTIES DeadLocksVanish WaitsEnd
