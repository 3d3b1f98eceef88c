SPECIFICATION Spec
CONSTANTS
  ep1 = ep1
  ep2 = ep2
  other = other
  film = film
  readme = readme
  Roots <- MCRoots
  Under <- MCUnder
  Name <- MCName
  Kind <- MCKind
  Season <- MCSeason
  ShowDir <- MCShowDir
  Best <- MCBest
  Query <- MCQuery
  Variants <- MCVariants
  Found <- MCFound
  FoundMovies <- MCFoundMovies
  Aired <- MCAired
  ImdbHit <- MCImdbHit
  NoCand = NoCand
  NoName = NoName
  NoSeason = NoSeason
  NoFile = NoFile
  OfApply = OfApply
  MaxClicks = 5
CHECK_DEADLOCK FALSE
INVARIANTS
  NoSilentMiss
  OneShowPerGroup
  PaneShowsItsRow
  HintIsOwn
