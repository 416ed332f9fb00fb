\* One Gateway connection, and trading events for its account while it is synchronised.
SPECIFICATION RefreshSpec
CONSTANTS
    gateway = gateway
    flex = flex
    a1 = a1
    Conns = {gateway}
    Reports = {}
    Accounts = {a1}
    Resources <- MCPositions
    Keys <- MCKeys
    NoConn = NoConn
    NoAccount = NoAccount
    NoKey = NoKey
    All = All
    MaxFills = 1
    MaxChanges = 2
    MaxErrors = 1
INVARIANTS FollowUps
PROPERTIES NeverBackwards InvalidationServed
