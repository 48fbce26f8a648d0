SPECIFICATION Spec
CONSTANTS
    p1 = p1
    p2 = p2
    Proc = {p1, p2}
    Audience = {"orders", "ledger"}
    Default = "orders"
    NoAud = NoAud
    Lives = {12}
    Margin = 3
    Guess = 24
    Timeout = 1
    MaxCalls = 3
    Reports = {TRUE, FALSE}
    Grain = 1
    MaxNow = 14
INVARIANT
    HitIsUsable
CHECK_DEADLOCK FALSE
