\* Reruns of an original run and of its reruns, at any moment.
SPECIFICATION Spec
CONSTANTS
    Settings <- RerunSettings
    NumSections = 2
    Revisions <- FewRevisions
    Updates <- FewUpdates
    MaxRuns = 3
    MaxRegenerations = 1
    MaxCuts = 1
VIEW RerunView
CHECK_DEADLOCK FALSE
INVARIANTS
    RerunReachesNode
    RerunKeepsInputs
    GatesBindReruns
    CompletedHasContent
PROPERTIES
    VersionsGrow
