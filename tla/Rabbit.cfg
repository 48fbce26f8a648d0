SPECIFICATION PFairSpec
CONSTANTS
    c1 = c1
    c2 = c2
    c3 = c3
    p1 = p1
    Conn <- MCConn
    NoConn = NoConn
    Publisher <- MCPublisher
    MaxCalls = 2
INVARIANTS
    OpenIsOwned
    CloseReleasesAll
    FailedNewIsClean
    ConfirmedIsStored
PROPERTIES
    NoInstallAfterTake
    NothingSentAfterClose
    CloseReturns
    CancelStopsLoop
    Reconnects
    CallsReturn
