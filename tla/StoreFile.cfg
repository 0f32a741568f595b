\* Two processes, holders may outstay lockStaleMs and be stolen from; both
\* may die, the power may fail once, and something else may damage the file once.
SPECIFICATION SSpec
CONSTANTS
    NoFile = NoFile
    Absent = Absent
    Corrupt = Corrupt
    Procs = {p1, p2}
    Mortal = {p1, p2}
    Stale = 0
    Timeout = 0
    Prompt = FALSE
    MaxOps = 2
SYMMETRY Symmetry
INVARIANTS NeverTorn ReportedStays
PROPERTIES ImplementsAtomicStore
