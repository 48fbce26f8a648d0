SPECIFICATION HSpec
CONSTANTS
    Blank = "blank"
    Wildcard = "any"
    Backdate = 1
    DefaultLeeway = 6
    DefaultTTL = 24
    DefaultMinScore = 5
    UserConfig <- MCUserConfig
    ServiceConfig <- MCServiceConfig
    AdminRoles = {"admin"}
    Permissions = {"pay"}
    Scopes = {"read"}
    Requests <- KindRequests
INVARIANT
    CountedAsAnswered
