SPECIFICATION Spec
CONSTANTS
    Pids <- MCPids
    NoPid <- MCNoPid
    Procs = {p1}
    Nobody = Nobody
    Jobs = {"start", "update", "stop", "remove", "nuke"}
    Serial = TRUE
    Reuse = TRUE
INVARIANTS TypeOK DaemonIsReachable StoppedMeansGone
PROPERTIES ForgetOnlyDead
