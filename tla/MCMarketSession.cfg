\* Two clients, the monitor, a worker thread and the feed race; one crash and restart.
CONSTANTS
    operator = operator
    observer = observer
    worker = worker
    ApiCallers <- MCTwoCallers
    Recorders <- MCRecorders
    EventWindow = 4
    MaxSessions = 1
    MaxCrashes = 1
    MaxExchangeMoves = 0
    MaxDisconnects = 1
    MaxStales = 1
    MaxErrors = 1

SPECIFICATION SessionSafetySpec

INVARIANTS
    SessionTypeOK
    CountsAreEvidenced
    ReconnectsAreOwed
    PassIsClean
    UnfinishedOnlyByCrash

PROPERTIES
    DegradesOnlyWhenOpen

SYMMETRY MCSymmetry

\* A session that was stopped may be the last one.
CHECK_DEADLOCK FALSE
