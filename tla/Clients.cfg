\* Two API requests at a time for one order; one replacement or crash.
SPECIFICATION ClientsSpec
CONSTANTS
    Callers = {p1, p2}
    Ids = {i1}
    Tickets = {t1, t2}
    NoTicket = NoTicket
    PreviewLife = 1
    MaxClock = 2
    MaxSessions = 2
    Calls = {p1, p2}
    MaxTokens = 3
    MaxEdits = 1
    MaxClients = 2
    NoCall = NoCall
    Managers = {p1, p2}
    Readers = {r1}
    Requests <- MCRequests
    MaxTiingoTokens = 1
    Lookups = {p1, p2}
    Charts = {i1, i2}
    MaxCrumbs = 3
    CacheLimit = 2
    Nobody = Nobody
SYMMETRY HandlersAlike
INVARIANTS SentOnce   UpstreamSpared
PROPERTIES KeepsOrderPromise
