\* Two clients whose requests overlap, and the monitor, over two sessions: how sessions end.
CONSTANTS
    operator = operator
    observer = observer
    worker = worker
    ApiCallers <- MCTwoCallers
    Recorders <- MCNoRecorders
    EventWindow = 0
    MaxSessions = 2
    MaxCrashes = 0
    MaxExchangeMoves = 1
    MaxDisconnects = 0
    MaxStales = 0
    MaxErrors = 1

SPECIFICATION SessionSpec

INVARIANTS
    ReferencesReturned

PROPERTIES
    CompletionIsFinal
    CloseCompletes

CHECK_DEADLOCK FALSE
