CONSTANTS
    d1 = d1  d2 = d2  d3 = d3
    Deliveries = {d1}
    CandleHandlers = {c1}
    Sweepers = {s1}
    Pollers = {}
    SignalOf <- OwnSignal
    SymbolOf <- OwnSignal
    MaxOpen = 1
    MaxTrades = 1
    MaxRetries = 0
    SignalBrokerUnique = FALSE
    DbFaults = TRUE
    Warm = TRUE
    MaxRuns = 2
    MaxCrashes = 1
    Nobody = Nobody
SPECIFICATION Spec
INVARIANTS ClosedHasAnsweredExit OrderOwnership
PROPERTY OpenStaysWatched
