SPECIFICATION Spec
CONSTANTS
  v1 = v1
  v2 = v2
  poster = poster
  t1 = t1
  t2 = t2
  p1 = p1
  p2 = p2
  stem = stem
  art = art
  Absent = Absent
  Path <- MCPath
  NumOps = 2
  NumSidecars <- MCSidecars
  Src <- MCSrc
  Dst <- MCDst
  Name <- MCName
  Depth <- MCDepth
  CanPreExist = {}
  CanBeOutside = {}
  PosixRename = TRUE
  MaxBatches = 1
  MaxFaults = 0
CHECK_DEADLOCK FALSE
PROPERTIES UndoDeletesOnlyCopies
