\* Two browsers, queue of two, three ticks: every queue overflows in some run.
CONSTANTS
    c1 = c1
    c2 = c2
    nifty = nifty
    reliance = reliance
    relianceId = relianceId
    niftyIndex = niftyIndex
    relianceShare = relianceShare
    Clients <- MCClients
    Symbols <- MCSymbols
    Instruments <- MCInstruments
    NamesOf <- MCNamesOf
    MaxClientSubscriptions = 2
    MaxQueue = 2
    MaxTicks = 3

SPECIFICATION HubSpec

INVARIANTS
    HubTypeOK
    InterestCounted
    NewestKept

PROPERTIES
    DeliveredInOrder
    NewestReachesBrowser
