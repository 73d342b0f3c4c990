SPECIFICATION MCSpec
CONSTANTS
  client1 = client1
  client2 = client2
  lead = lead
  guest = guest
  page1 = page1
  page2 = page2
  page3 = page3
  Clients = {client1, client2}
  Users <- Team
  RoleOf <- TeamRoles
  FileNames = {"notes"}
  MaxBases = 2
  MaxDocs = 3
  MaxRuns = 2
  MaxCalls = 5
  MaxAttempts = 2
  MaxProviders = 2
  MaxModelRuns = 2
  MaxModelCalls = 1
  MaxEdits = 3
  Pages = {page1, page2, page3}
  Senders = {"drive", "pause"}
  MaxBroadcasts = 1
  MaxObjects = 2
SYMMETRY Symmetry
INVARIANTS
  OneVersionAnswers
  RowsHaveFiles
  UploadsStayInTheirRun
  RunsKeepTheirModel
  SettingsHold
  BroadcastsReach
  VerdictIsRight
CHECK_DEADLOCK FALSE
