SPECIFICATION Spec
CONSTANTS
    NameSets <- MCNameSets
    MayBe <- MCMayBe
INVARIANTS UninstallReverses InstallHolds
PROPERTIES WatcherComesBack
