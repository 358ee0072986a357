\* A run that halts between a step and the steps below it.
SPECIFICATION Spec
CONSTANTS
    load = load
    model = model
    src = src
    tab = tab
    out = out
    lake = lake
    Steps = {load, model}
    Garbage = Garbage
    Absent = Absent
    Nothing = Nothing
    Withheld = Withheld
    Assets = {src, tab, out}
    StepKind <- ChainKinds
    AssetKind <- ChainAssets
    Produces <- ChainProduces
    Reads <- ChainReads
    Gated <- NoGate
    MaxAttempts <- Once
    Hooks <- NoHooks
    PipelineTimeout = FALSE
    Pinned = FALSE
    Orders <- OneOrder
    Sources = {x}
    MaxText = 2
    MaxRuns = 3
    MaxEdits = 1
    MaxFaults = 0
PROPERTIES
    UpstreamWorkPropagates
CHECK_DEADLOCK FALSE
