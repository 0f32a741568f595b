\* One dead holder, two processes that steal its lock; nobody outstays lockStaleMs.
SPECIFICATION Spec
CONSTANTS
    NoFile = NoFile
    Procs = {p1, p2, p3}
    Mortal = {p1}
    Stale = 1
    Timeout = 1
    Prompt = TRUE
PROPERTIES KeepsLiveLocks
