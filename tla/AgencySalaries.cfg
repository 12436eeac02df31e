SPECIFICATION Spec
CONSTANTS
    h1 = h1
    o1 = o1
    a1 = a1
    a2 = a2
    Account <- MCAccount
    Drawn <- MCDrawn
    Rooms <- MCRooms
    Agencies <- MCAgencies
    Week = 2
    Windows <- MCWindows
    Bounds <- MCBounds
    Gift = 10
    Policies <- MCPolicies
    Levels <- MCLevels
    Grant = 1000
    MaxNow = 2
    MaxInvites = 1
    MaxGifts = 2
    MaxPayouts = 2
    MaxDeaths = 1
    Scopes <- MCScopes
SYMMETRY MCSymmetry
INVARIANTS
    SalariesAreRecorded
    GiftsArePaidOnce
    MembersAreListed
PROPERTIES
    PaidIsHistory
CHECK_DEADLOCK FALSE
