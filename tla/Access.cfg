SPECIFICATION AccessSpec
CONSTANTS
    Users = {u1, u2}
    Requests = {r1, r2}
    Flows = {f1}
    SessionIds = {s1, s2}
    RoleTexts = {"Owner", "admin"}
    LoginLimit = 1
    Serializable = TRUE
    NoUser = NoUser
SYMMETRY AccessSymmetry
INVARIANTS OwnerRemains LoginsBounded
PROPERTIES RemovedStayOut
