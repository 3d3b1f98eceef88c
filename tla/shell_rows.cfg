SPECIFICATION Spec
CONSTANTS
  MaxFiles <- MCMaxFiles
  Group <- MCGroup
  Shows <- MCShows
  Episode <- MCEpisode
  Drops <- MCDrops
  show = show
  ep = ep
  Cand = {a}
  NoCand = NoCand
  Slots = {h1, h2}
  MaxClicks = 3
  MaxFaults = 1
INVARIANTS
  EditsKept
PROPERTIES
  NothingLeftOut
CHECK_DEADLOCK FALSE
