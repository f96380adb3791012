CONSTANTS
    d1 = d1  d2 = d2  d3 = d3
    Deliveries = {d1}
    CandleHandlers = {}
    Sweepers = {s1}
    Pollers = {}
    SignalOf <- OwnSignal
    SymbolOf <- OwnSignal
    MaxOpen = 1
    MaxTrades = 1
    MaxRetries = 0
    SignalBrokerUnique = TRUE
    DbFaults = FALSE
    Warm = TRUE
    MaxRuns = 1
    MaxCrashes = 0
    Nobody = Nobody
SPECIFICATION Spec
PROPERTY ExitNotBlocked
