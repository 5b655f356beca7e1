\* The provider's connection fails twice before it is established.
CONSTANTS
    operator = operator
    observer = observer
    worker = worker
    ApiCallers <- MCOneCaller
    Recorders <- MCNoRecorders
    EventWindow = 20
    MaxSessions = 1
    MaxCrashes = 0
    MaxExchangeMoves = 0
    MaxDisconnects = 2
    MaxStales = 0
    MaxErrors = 0

SPECIFICATION SessionSafetySpec

INVARIANT RecoveredMeansMet

CHECK_DEADLOCK FALSE
