\* A gated download and an operator step that reads it.
SPECIFICATION Spec
CONSTANTS
    load = load
    model = model
    src = src
    tab = tab
    out = out
    lake = lake
    Steps = {load, model}
    Garbage = Garbage
    Absent = Absent
    Nothing = Nothing
    Withheld = Withheld
    Assets = {src, tab, out, lake}
    StepKind <- FetchKinds
    AssetKind <- FetchAssets
    Produces <- FetchProduces
    Reads <- FetchReads
    Gated <- GatedFetch
    MaxAttempts <- Once
    Hooks <- NoHooks
    PipelineTimeout = FALSE
    Pinned = FALSE
    Orders <- OneOrder
    Sources = {x, y}
    MaxText = 2
    MaxRuns = 3
    MaxEdits = 2
    MaxFaults = 0
SYMMETRY SameSources
INVARIANTS
    SuccessStands
CHECK_DEADLOCK FALSE
