\* Three orders of which a session retains two; two questions; one replacement or crash.
SPECIFICATION Spec
CONSTANTS
    Ids = {i1, i2, i3}
    NoId = NoId
    Replies = {r1, r2}
    NoReply = NoReply
    MaxAttempts = 2
    MaxSessions = 2
SYMMETRY Alike
INVARIANTS WrittenOnce OneOpenQuestion
PROPERTIES KeepsOrderPromise
