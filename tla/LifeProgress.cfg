SPECIFICATION FairSpec
CONSTANTS
    Procs = {p1, p2}
    Jobs <- ProgressJobs
    Ports <- MCPorts
    StockPort <- MCStockPort
    Serial = TRUE
    FaultSets <- ProgressFaults
PROPERTIES CommandsFinish WatcherCleansUp
