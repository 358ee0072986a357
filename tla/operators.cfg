\* Every operator, its attempts, deadlines, kills and failing operations; every loop over three steps.
SPECIFICATION MCSpec
CONSTANTS
    Steps = {s1, s2, s3}
    Assets = {a1, a2}
    OperatorSteps <- OneOfEach
    Timed = TRUE
    MaxAttempts = 2
    MaxVersions = 3
    MaxFaults = 2
INVARIANTS
    ReturnsDownstream
    PublishedWhole
    SuccessIsAnswered
    WritesWhatItDeclares
PROPERTIES
    TimedStepsEnd
    LoopReturns
CHECK_DEADLOCK FALSE
