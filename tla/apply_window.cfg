SPECIFICATION FairSpec
CONSTANTS
  va = va
  vb = vb
  Rows = {va, vb}
  Ineligible = {vb}
  UsesShortcut = TRUE
  CleanupAtStart = TRUE
  MaxRuns = 2
  MaxEdits = 1
CHECK_DEADLOCK FALSE
INVARIANTS ReportIsOfOneRun ThreadOutlivesRun DeletesOnlyConfirmed
PROPERTIES EveryRunAnswered
