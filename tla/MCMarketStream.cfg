\* Two browsers share one connection: overlapping requests, lost sockets, failing
\* connections, one reconnect and a provider cap smaller than the demand.
CONSTANTS
    c1 = c1
    c2 = c2
    reliance = reliance
    relianceId = relianceId
    relianceShare = relianceShare
    NoCaller = NoCaller
    Clients <- MCClients
    Callers <- MCClients
    Symbols <- MCSymbols
    Instruments <- MCInstruments
    NamesOf <- MCNamesOf
    MaxClientSubscriptions = 2
    MaxQueue = 1
    MaxTicks = 0
    MaxProviderSubscriptions = 1
    MaxReconnectAttempts = 2
    MaxFeeds = 2
    Channels <- MCTwoChannels
    SdkMayRaise = TRUE
    MaxReconnects = 1
    MaxAbandoned = 0

SPECIFICATION StreamSpec

INVARIANTS
    StreamTypeOK
    ProviderLimit
    NoPhantomReference

PROPERTIES
    HandlersFinish
    ReconnectReturns
