\* A session that outlives the window of events its verdict reads.
CONSTANTS
    operator = operator
    observer = observer
    worker = worker
    ApiCallers <- MCOneCaller
    Recorders <- MCNoRecorders
    EventWindow = 4
    MaxSessions = 1
    MaxCrashes = 0
    MaxExchangeMoves = 1
    MaxDisconnects = 1
    MaxStales = 1
    MaxErrors = 0

SPECIFICATION SessionSafetySpec

INVARIANT VerdictFromEventStream

CHECK_DEADLOCK FALSE
