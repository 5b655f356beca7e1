\* Two threads ask for two instruments, three calls in all; two requests per second,
\* three per minute, of which other endpoints may have made two before.
CONSTANTS
    w1 = w1
    w2 = w2
    reliance = reliance
    tcs = tcs
    Nobody = Nobody
    Threads <- MCThreads
    Keys <- MCKeys
    WaitMayExpire = TRUE
    MaxCalls = 3
    PerSecond = 2
    PerMinute = 3
    Second = 2
    Minute = 3
    MaxLag = 1
    MaxClock = 3

SPECIFICATION MCSpec

INVARIANTS
    LimitedTypeOK
    SingleFlight
    WaitersAreOwed
    NoOutdatedQuote
    LimitsHold

PROPERTIES
    QuotesAdvance
    RefusedAtLimit
    WaitsEnd

\* All calls are made and answered.
CHECK_DEADLOCK FALSE
