SPECIFICATION RecoverySpec
CONSTANTS
    a = a
    b = b
    Calls <- MCCalls
    Policies <- MCViews
    MaxSteps = 2
    MaxQueued = 1
    MaxTurns = 2
    MaxInputs = 1
    MaxRevision = 3
INVARIANTS
    JournalSound
    JournalAgrees
    WorkerOwned
    IdleIsSettled
PROPERTIES
    RunsAuthorized
    NeverRunTwice
CHECK_DEADLOCK FALSE
