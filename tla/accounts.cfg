SPECIFICATION Spec
CONSTANTS
    request1 = request1
    request2 = request2
    founder = founder
    staff = staff
    guest = guest
    Clients <- Requests
    Users <- People
    Founder = founder
    FirstMembers <- PeopleRoles
    Offered = {"viewer", "owner"}
    Origins = {"unknown", "claimed"}
    MaxAttempts = 2
    MaxCalls = 4
SYMMETRY AnyRequest
INVARIANTS
    AccountsTypeOK
    OneOwner
    ResetEndsSessions
    LockoutBounded
    InviteAdmitsOnce
PROPERTIES
    SuspensionSticks
CHECK_DEADLOCK FALSE
