\* Two accounts, six transactions, two instants whose dates span three days, one crash or refused event.
CONSTANTS
    broker = broker
    pension = pension
    share = share
    NoSecurity = NoSecurity
    monthly = monthly
    Accounts = {broker, pension}
    References = {}
    Securities = {share}
    Tickets <- MCTickets
    Reasons = {monthly}
    InstantsPerDay = 2
    MaxTime = 1
    MaxHoldings = 2
    MaxMishaps = 1

SPECIFICATION MCSpec
INVARIANTS
    LedgerTypeOK
    BooksBalance
    LotsAreFifo
    ReplayIsMonotone
    SnapshotsReconcile
    EventsVouch
    GapsAreAnswered
PROPERTIES
    LaterRebuildShows
CHECK_DEADLOCK FALSE
