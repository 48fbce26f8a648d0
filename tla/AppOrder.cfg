SPECIFICATION Spec
CONSTANTS
    MaxServers = 1
    MaxRunners = 1
    MaxClosers = 1
    DefaultShutdownTimeout = 1
    CfgTimeouts <- MCCfgTimeouts
    EnvTimeouts <- MCEnvTimeouts
INVARIANT
    DocumentedOrder
