\* A second client stops the session while the first one is still starting it.
CONSTANTS
    operator = operator
    observer = observer
    worker = worker
    ApiCallers <- MCTwoCallers
    Recorders <- MCNoRecorders
    EventWindow = 1
    MaxSessions = 1
    MaxCrashes = 0
    MaxExchangeMoves = 1
    MaxDisconnects = 1
    MaxStales = 1
    MaxErrors = 0

SPECIFICATION SessionSafetySpec

INVARIANT NoReferenceLeft

CHECK_DEADLOCK FALSE
