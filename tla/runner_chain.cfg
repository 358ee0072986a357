\* Two SQL steps over three runs, with edits, misorderings, a lost record, crashes, retries.
SPECIFICATION Spec
CONSTANTS
    load = load
    model = model
    src = src
    tab = tab
    out = out
    lake = lake
    Steps = {load, model}
    Garbage = Garbage
    Absent = Absent
    Nothing = Nothing
    Withheld = Withheld
    Assets = {src, tab, out}
    StepKind <- ChainKinds
    AssetKind <- ChainAssets
    Produces <- DroppingProduces
    Reads <- ChainReads
    Gated <- NoGate
    MaxAttempts <- LoadTwice
    Hooks <- NoHooks
    PipelineTimeout = TRUE
    Pinned = FALSE
    Orders <- ChangingOrders
    Sources = {x, y}
    MaxText = 2
    MaxRuns = 3
    MaxEdits = 2
    MaxFaults = 1
SYMMETRY SameSources
INVARIANTS
    TypeOK
    SuccessStands
    RecordedTextRan
PROPERTIES
    SkipsNothingHalfWritten
CHECK_DEADLOCK FALSE
