SPECIFICATION Spec
CONSTANTS
  v1 = v1
  v2 = v2
  poster = poster
  t1 = t1
  t2 = t2
  p1 = p1
  p2 = p2
  stem = stem
  art = art
  Absent = Absent
  Path <- MCPath
  NumOps = 2
  NumSidecars <- MCSidecars
  Src <- MCSrc
  Dst <- MCDst
  Name <- MCName
  Depth <- MCDepth
  CanPreExist = {t1}
  CanBeOutside = {v2}
  PosixRename = TRUE
  MaxBatches = 2
  MaxFaults = 1
CHECK_DEADLOCK FALSE
INVARIANTS TypeOK WriteAhead CopyKeepsSources NothingLost ReportIsTrue UndoRestores
PROPERTIES CleanupIsAllOrNothing KeepsLedger
