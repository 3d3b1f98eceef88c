SPECIFICATION Spec
CONSTANTS
  Entry <- MCEntry
  Sidecar <- MCSidecar
  Source <- MCSource
  Target <- MCTarget
  Listed <- MCListed
  Elsewhere <- MCElsewhere
  InputRoots <- MCInputRoots
  MoviesRoot <- MCMoviesRoot
  Disallowed <- MCDisallowed
  Others <- MCOthers
  MaxOthers = 2
CHECK_DEADLOCK FALSE
INVARIANTS
  ConsentIsWhole
