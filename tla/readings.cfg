\* Each reading's inputs, grown a piece at a time.
SPECIFICATION Spec
INVARIANTS
    SqlIsReadAsRun
    
    SettingsAreHonoured
    OperatorsTellWhatIsThere
    RecordedAsItReads
    StepsTellWhatTheyTouch
    RunIsTold
    ToolsAnswerAsTold
    FilesStayInside
CHECK_DEADLOCK FALSE
