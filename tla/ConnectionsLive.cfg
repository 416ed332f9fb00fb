SPECIFICATION FairSpec
CONSTANTS
    c1 = c1
    c2 = c2
    s1 = s1
    s2 = s2
    s3 = s3
    s4 = s4
    s5 = s5
    s6 = s6
    a1 = a1
    a2 = a2
    k1 = k1
    old = old
    new = new
    NoSession = NoSession
    NoAdmin = NoAdmin
    Conns = {c1}
    Sessions = {s1, s3, s5}
    ConnOf <- MCConnOf
    Boot <- MCBoot
    Configs = {old, new}
    BootConfig = old
    Trades = {c1}
    Watched = {c1}
    Callers = {k1}
    Admins = {a1}
    MaxSaves = 2
    MaxFaults = 1
INVARIANTS InUseIsOpen
PROPERTIES ReloadsReturn EventsFollow
CHECK_DEADLOCK FALSE
