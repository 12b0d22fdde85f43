SPECIFICATION FairSpec
CONSTANTS
    worker = worker
    publisher = publisher
    session = session
    Tasks <- MCTasks
    Detached <- MCDetached
    EarlyDrop <- MCEarlyDrop
INVARIANTS TypeOK NoMissedStop StopWaitsForLoop
PROPERTIES ImplementsBarrier RuntimeStopReturns TaskStopReturns
CHECK_DEADLOCK FALSE
