SPECIFICATION Spec
CONSTANTS
    k1 = k1
    c1 = c1
    c2 = c2
    s1 = s1
    s2 = s2
    s3 = s3
    s4 = s4
    s5 = s5
    s6 = s6
    a1 = a1
    a2 = a2
    old = old
    new = new
    NoSession = NoSession
    NoAdmin = NoAdmin
    Conns = {c1, c2}
    Sessions = {s1, s2, s3, s4, s5, s6}
    ConnOf <- MCConnOf
    Boot <- MCBoot
    Configs = {old, new}
    BootConfig = old
    Trades = {c1, c2}
    Watched = {c1}
    Callers = {}
    Admins = {a1, a2}
    MaxSaves = 2
    MaxFaults = 2
SYMMETRY MCSymmetry
INVARIANTS SessionsAccounted SavedIsApplied
PROPERTIES NoLateEvents
CHECK_DEADLOCK FALSE
