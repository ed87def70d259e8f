SPECIFICATION Spec
CONSTANTS
    Users = {u1, u2, u3}
    Tokens = {t1, t2, t3}
    OtherRoles = {"member"}
    Requests = {r1, r2}
    NoUser = NoUser
    NoToken = NoToken
SYMMETRY Symmetry
INVARIANTS
    TypeOK
    PendingLinksBounded
PROPERTIES
    AdminsKept
    ClosedInvitesStayClosed
CHECK_DEADLOCK FALSE
