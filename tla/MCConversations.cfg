SPECIFICATION ConversationsSpec
CONSTANTS
    Users = {c1, c2, u3, u4}
    Requests = {q1, q2}
    NoUser = NoUser
    FreeCap = 1
    PremiumCap = 2
    Groups = {g1, g2, g3}
    Slugs = {s1, s2, s3}
    Calls = {c1, c2}
    NoGroup = NoGroup
    NoSlug = NoSlug
    Senders = {a1}
    Sends = {q1, q2}
    Connections = {c1, c2}
    Opens = {o1}
    MaxMessages = 2
    MayFail = TRUE
    NoSender = NoSender
SYMMETRY Symmetry
INVARIANTS
    TypeOK
    CapacityBounded
    SoleAdmin
    SlugsTypeOK
    LinksResolve
    ReceiptsTypeOK
    DeliveryKept
PROPERTIES
    AdminLossArchives
    ClosedDoorsStayClosed
    ReservationHolds
CHECK_DEADLOCK FALSE
