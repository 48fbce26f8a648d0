SPECIFICATION Spec
CONSTANTS
    e1 = e1
    e2 = e2
    r1 = r1
    r2 = r2
    Event <- TwoEvents
    Relay <- TwoRelays
    NoEvent = NoEvent
    BatchSize = 2
    MaxSent = 2
    MaxStops = 1
SYMMETRY MCSymmetry
INVARIANTS
    PublishedWasSent
    DuplicatesNeedFaults
    OneRelayPerEvent
PROPERTY
    ImplementsAtLeastOnce
