SPECIFICATION FairSpec
CONSTANTS
  MaxFiles <- MCMaxFiles
  Tv <- MCTv
  Group <- MCGroup
  show = show
  a = a
  v = v
  near = near
  far = far
  other = other
  Anchors = {a}
  Tvdb = {v}
  NoAnchor = NoAnchor
  Target = {near, far, other}
  Dest <- MCDest
  NoTarget = NoTarget
  Shown <- MCShown
  SameFS = {near}
  Workers = {w1, w2}
  MaxKeys = 2
  MaxFaults = 1
CHECK_DEADLOCK FALSE
INVARIANTS NoGhosts NothingLost DecisionsAreSaved
PROPERTIES RowsLeaveForCause AppliesEnd
