\* A calendar whose week has two days and whose month has four.
SPECIFICATION SchedulerSpec
CONSTANTS
    ib = ib
    sw = sw
    Conns = {ib, sw}
    AnyConn = AnyConn
    IbkrConns = {ib}
    Configured <- MCConfigured
    HistoryFrom <- MCHistoryFrom
    Week = 2
    Month = 4
    Quarter = 5
    Span = 4
    FirstDay = 0
    LastDay = 11
    MaxEvents = 0
INVARIANTS RevisitedOnCadence
CHECK_DEADLOCK FALSE
