\* A Gateway and a Flex connection compete for one account; no trading events.
SPECIFICATION Spec
CONSTANTS
    gateway = gateway
    flex = flex
    a1 = a1
    Conns = {gateway, flex}
    Reports = {flex}
    Accounts = {a1}
    Resources <- MCPositions
    Keys = {}
    All = All
    NoConn = NoConn
    NoAccount = NoAccount
    NoKey = NoKey
    MaxFills = 0
    MaxChanges = 4
    MaxErrors = 1
INVARIANTS OwnershipSound
PROPERTIES ProjectionsStand
