\* Jobs: one row, which two processes may work on; the two requests are the same once the report named its accounts.
SPECIFICATION MCSpec
CONSTANTS
    j1 = j1
    j2 = j2
    p1 = p1
    p2 = p2
    flexAll = flexAll
    flexAccts = flexAccts
    gateway = gateway
    x1 = x1
    x2 = x2
    NoJob = NoJob
    NoProc = NoProc
    NoRequest = NoRequest
    Jobs = {j1}
    Procs = {p1, p2}
    Requests = {flexAll, flexAccts}
    Records = {x1}
    CreatedAt <- MCCreatedAt
    ScopeOf <- MCScopeOf
    FlexScopes <- MCFlexScopes
    Rewrites <- MCRewrites
    Returns <- MCReturns
    MaxAttempts = 2
    MaxFaults = 1
    MaxWakes = 1
    ib = ib
    sw = sw
    Conns = {ib, sw}
    AnyConn = AnyConn
    IbkrConns = {ib}
    Configured <- MCConfigured
    HistoryFrom <- MCHistoryFrom
    Week = 2
    Month = 4
    Quarter = 5
    Span = 4
    FirstDay = 0
    LastDay = 11
    MaxEvents = 1
    h1 = h1
    h2 = h2
    h3 = h3
    Handlers = {h1, h2, h3}
    NoHandler = NoHandler
    Imports = {i1}
    NoImport = NoImport
    UserOf <- MCUserOf
INVARIANTS WholeIsWhole  HistoryAsked ImportedOnce
PROPERTIES  EventuallySettled
\* The work of a behaviour ends with its bounds.
CHECK_DEADLOCK FALSE
