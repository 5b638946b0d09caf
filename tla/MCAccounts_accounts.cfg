SPECIFICATION FairSpec
CONSTANTS
    c1 = c1
    u1 = u1
    k1 = k1
    b1 = b1
    admin = admin
    guest = guest
    Nobody = Nobody
    Chats = {c1}
    Creators = {u1}
    Keyers = {k1}
    Bootstraps = {b1}
    Scripts = {b1}
    Names = {admin, guest}
    Admin = admin
    Capacity = 1
INVARIANTS
    TypeOK
    KeysCurrent
PROPERTIES
    ImplementsRegistry
    NobodyStarves
CHECK_DEADLOCK FALSE
