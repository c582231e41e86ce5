SPECIFICATION FairSpec
CONSTANTS
    Bodies <- DottedBodies
    MaxLines = 2
    MaxSlips = 2
INVARIANTS
    IInv
    InStep
    QuitEndsSession
PROPERTIES
    ImplementsMailSubmission
    Ends
CHECK_DEADLOCK FALSE
