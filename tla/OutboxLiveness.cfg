SPECIFICATION FairSpec
CONSTANTS
    e1 = e1
    e2 = e2
    r1 = r1
    r2 = r2
    Event <- OneEvent
    Relay <- TwoRelays
    NoEvent = NoEvent
    BatchSize = 1
    MaxSent = 2
    MaxStops = 1
PROPERTY
    EventuallyPublished
