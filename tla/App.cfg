SPECIFICATION FairSpec
CONSTANTS
    MaxServers = 1
    MaxRunners = 1
    MaxClosers = 2
    DefaultShutdownTimeout = 1
    CfgTimeouts <- MCCfgTimeouts
    EnvTimeouts <- MCEnvTimeouts
INVARIANTS
    TypeOK
    CloseAfterDrain
    CleanExit
    ReverseClose
    ReportNeverBlocks
    FailureIsReturned
PROPERTIES
    GraceIsGranted
    CulpritFailedFirst
    RunReturns
    StaysUnready
