SPECIFICATION ReviewSpec
CONSTANTS
  MaxRows = 3
  Rendered <- MCRendered
  Unresolved = Unresolved
  Unplaced = Unplaced
  Drops <- MCDrops
  MaxEdits = 2
CHECK_DEADLOCK FALSE
INVARIANTS PlanIsInjective
PROPERTIES PicksComeFirst PlanFollowsRows
