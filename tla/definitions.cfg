SPECIFICATION Spec
CONSTANTS
    designer1 = designer1
    designer2 = designer2
    reader = reader
    Clients <- Team
    RoleOf <- TeamRoles
    Drafts <- FewDrafts
    Samples <- SmallDefinitions
    MaxCalls = 4
SYMMETRY SameRole
INVARIANTS
    ViewersSeeValidated
    EveryVersionKept
    SearchesAreRight
    PublishableGraphsRun
    OrdersAreTopological
    GatesStay
    PlansListWhatRuns
PROPERTIES
    VersionsFrozen
    LineageKept
CHECK_DEADLOCK FALSE
