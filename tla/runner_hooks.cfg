\* Every hook and the extension recheck, on runs that must return.
SPECIFICATION FairSpec
CONSTANTS
    load = load
    model = model
    src = src
    tab = tab
    out = out
    lake = lake
    Steps = {load, model}
    Garbage = Garbage
    Absent = Absent
    Nothing = Nothing
    Withheld = Withheld
    Assets = {src, tab, out}
    StepKind <- ChainKinds
    AssetKind <- ChainAssets
    Produces <- ChainProduces
    Reads <- ChainReads
    Gated <- NoGate
    MaxAttempts <- LoadTwice
    Hooks = {"on_init", "on_success", "on_failure", "on_exit"}
    PipelineTimeout = TRUE
    Pinned = TRUE
    Orders <- OneOrder
    Sources = {x}
    MaxText = 2
    MaxRuns = 2
    MaxEdits = 1
    MaxFaults = 0
INVARIANTS
    RowAgreesWithContract
    HooksToldTheTruth
PROPERTIES
    RunReturns
CHECK_DEADLOCK FALSE
