CONSTANTS
    Proc = {p1, p2}
    Ticker = {"BTC", "EUR"}
    Fiat = {"EUR"}
    Listed <- MCListed
    Pair = {"XBTUSD", "BTCEUR", "EURUSD"}
    Base <- MCBase
    Names <- MCNames
    Interval = {1, 2}
    Limit = 2
    Oldest = 5
    Days = 3
    Second = 2
    MassiveDelay = 3
    MaxAttempts = 3
    CacheTimeout = 2
    None = None
    MaxEvents = 4
CHECK_DEADLOCK FALSE
SPECIFICATION PricesSpec
INVARIANTS
    RequestsArePaced
    KnownIdsAreRows
    PlanIsWhole
PROPERTIES
    CommandsEnd
