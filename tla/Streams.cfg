SPECIFICATION MCSpec
CONSTANTS
    Sockets = {w1, w2}
    Symbols = {a, b}
    Buffer = 2
    Orders = {o1}
    MaxChange = 2
    MaxUnread = 2
    MaxRows = 2
    MaxSeen = 2
\* A stream stops for good when its client is closed and its readers have left.
CHECK_DEADLOCK FALSE
INVARIANTS OnlyRacesHide StreamSound
PROPERTIES StreamSettles SnapshotsMoveForward CacheCatchesUp
