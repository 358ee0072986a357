\* A restore, then a save within the merge window.
SPECIFICATION Spec
CONSTANTS
    Callers = {p}
    Texts = {a, b, c}
    Absent = Absent
    None = None
    MaxEntries = 3
    MergeWindow = 1
    MaxTime = 1
    MaxCalls = 5
SYMMETRY Interchangeable
INVARIANTS
    RestoreIsReversible
CHECK_DEADLOCK FALSE
