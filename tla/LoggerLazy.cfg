SPECIFICATION ServiceSpec
CONSTANTS
    main = main
    g1 = g1
    g2 = g2
    Go = {main, g1, g2}
    Main = main
    NoTracer = NoTracer
    MaxBoot = 3
    Blank = "blank"
    Wildcard = "any"
    Backdate = 1
    DefaultLeeway = 6
    DefaultTTL = 24
    DefaultMinScore = 5
    UserConfig <- MCUserConfig
    ServiceConfig <- MCServiceConfig
    AdminRoles = {"admin"}
    Permissions = {"pay"}
    Scopes = {"read"}
    Requests <- MCRequests
INVARIANT InitSetsLogger
