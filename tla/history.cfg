\* One caller at a time, every road, a clock that may step back, and a call
\* that may stop between any two of its steps.
SPECIFICATION Spec
CONSTANTS
    Callers = {p}
    Texts = {a, b, c}
    Absent = Absent
    None = None
    MaxEntries = 3
    MergeWindow = 0
    MaxTime = 1
    MaxCalls = 4
SYMMETRY Interchangeable
INVARIANTS
    ReplacedIsKept
    NewestIsLatest
PROPERTIES
    WhatItReadIsKept
    OnlyBoundDrops
CHECK_DEADLOCK FALSE
