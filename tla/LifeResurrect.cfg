SPECIFICATION Spec
CONSTANTS
    Procs = {p1, p2}
    Jobs <- RemoveJobs
    Ports <- MCPorts
    StockPort <- MCStockPort
    Serial = FALSE
    FaultSets <- NoFaults
PROPERTIES OnlyAddCreates
