SPECIFICATION Spec
CONSTANTS
    Procs = {p1}
    Jobs <- AllJobs
    Ports <- MCPorts
    StockPort <- MCStockPort
    Serial = TRUE
    FaultSets <- SerialFaults
INVARIANTS TypeOK EngineIsolated ConfigMatchesStore KeysAreCurrent DownIsComplete
