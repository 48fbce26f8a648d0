SPECIFICATION CallSpec
CONSTANTS
    p1 = p1
    p2 = p2
    Proc = {p1, p2}
    Audience = {"orders", "ledger"}
    Default = "orders"
    NoAud = NoAud
    Lives = {10}
    Margin = 6
    Guess = 48
    Timeout = 2
    MaxCalls = 3
    Reports = {TRUE}
    Grain = 2
    MaxNow = 22
    Blank = "blank"
    Wildcard = "any"
    Backdate = 1
    DefaultLeeway = 6
    DefaultTTL = 24
    Caller = "caller"
    Secret = "secret"
    Creds <- MCCreds
    LaterCreds <- MCLaterCreds
    MaxTransit = 6
    Skews <- MCSkews
SYMMETRY
    Symmetry
INVARIANTS
    TimelyIsAccepted
    RevocationTakesEffect
CHECK_DEADLOCK FALSE
