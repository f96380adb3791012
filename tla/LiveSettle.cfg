CONSTANTS
    d1 = d1  d2 = d2  d3 = d3
    Deliveries = {d1}
    CandleHandlers = {}
    Sweepers = {}
    Pollers = {r1}
    SignalOf <- OwnSignal
    SymbolOf <- OwnSignal
    MaxOpen = 1
    MaxTrades = 1
    MaxRetries = 0
    SignalBrokerUnique = TRUE
    DbFaults = FALSE
    Warm = FALSE
    MaxRuns = 0
    MaxCrashes = 1
    Nobody = Nobody
SPECIFICATION FairSpec
PROPERTY AckedOrderSettles
