SPECIFICATION FairSpec
CONSTANTS
    Cap = 2
    FeedCap = 2
    MaxNet = 2
    Unusable = {1}
    MaxRestarts = 2
    FlakySets = {{"apply", "status"}, {"apply", "remove", "status"}}
    MaxFailures = 1
CHECK_DEADLOCK FALSE
INVARIANT CleanedMeansClean
PROPERTY EventuallyInSync
