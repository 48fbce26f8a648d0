SPECIFICATION Spec
CONSTANTS
    p1 = p1
    p2 = p2
    k1 = k1
    k2 = k2
    Proc = {p1, p2}
    Kid = {k1, k2}
    Static = {k1}
    NoTag = NoTag
    NoKid = NoKid
    Docs <- MCDocs
    MaxDocs = 3
SYMMETRY
    Symmetry
INVARIANTS
    NotModifiedIsTrue
    AcceptedWasPublished
    UnknownIsUnknown
    WarmMeansReady
    LockFollowsRequest
PROPERTIES
    NewestWins
