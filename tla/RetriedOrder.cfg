CONSTANTS
    d1 = d1  d2 = d2  d3 = d3
    Deliveries = {d1}
    CandleHandlers = {}
    Sweepers = {}
    Pollers = {}
    SignalOf <- OwnSignal
    SymbolOf <- OwnSignal
    MaxOpen = 1
    MaxTrades = 1
    MaxRetries = 1
    SignalBrokerUnique = TRUE
    DbFaults = FALSE
    Warm = TRUE
    MaxRuns = 0
    MaxCrashes = 0
    Nobody = Nobody
SPECIFICATION Spec
INVARIANT NoDuplicateBrokerOrder
