CONSTANTS
    d1 = d1  d2 = d2  d3 = d3
    Deliveries = {d1, d2}
    CandleHandlers = {}
    Sweepers = {}
    Pollers = {r1, r2}
    SignalOf <- DuplicatedSignal
    SymbolOf <- DuplicatedSymbol
    MaxOpen = 1
    MaxTrades = 2
    MaxRetries = 1
    SignalBrokerUnique = TRUE
    DbFaults = TRUE
    Warm = FALSE
    MaxRuns = 0
    MaxCrashes = 1
    Nobody = Nobody
SPECIFICATION Spec
INVARIANTS OneDeliveryReachesBroker PositionHasBrokerId RowTracksBroker
PROPERTIES TerminalIsFinal ImplementsLifecycle
