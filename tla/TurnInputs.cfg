SPECIFICATION FairSpec
CONSTANTS
    a = a
    b = b
    Calls <- MCCalls
    Policies <- OneView
    MaxSteps = 2
    MaxQueued = 2
    MaxTurns = 2
    MaxInputs = 2
    MaxRevision = 1
INVARIANTS
    InputsConserved
    StepOwned
PROPERTIES
    InputsSettle
    BatchEnds
CHECK_DEADLOCK FALSE
