SPECIFICATION Spec
CONSTANTS
    MaxInt = 127
    DefaultBase = 1
    DefaultMax = 30
    BaseBackoffs <- MCBases
    MaxBackoffs <- MCMaxes
    MaxAttemptsSet <- MCMaxAttempts
    MaxFailures = 10
    DefaultMaxAttempts = 8
    Headers <- MCHeaders
    Limits <- MCLimits
    OutOfRange <- MCOutOfRange
    MaxCounted = 300
INVARIANTS
    CappedDoubling
    RetriesBounded
