\* A worker thread reports an error while the session is being judged and written.
CONSTANTS
    operator = operator
    observer = observer
    worker = worker
    ApiCallers <- MCOneCaller
    Recorders <- MCRecorders
    EventWindow = 6
    MaxSessions = 1
    MaxCrashes = 0
    MaxExchangeMoves = 0
    MaxDisconnects = 0
    MaxStales = 0
    MaxErrors = 1

SPECIFICATION SessionSafetySpec

INVARIANT PassWithoutErrors

CHECK_DEADLOCK FALSE
