SPECIFICATION Spec
CONSTANTS
  f1 = f1
  f2 = f2
  f3 = f3
  pack = pack
  season = season
  Files = {f1, f2, f3}
  Dirs = {pack, season}
  Root = pack
  Home <- MCHome
  FileNames <- MCFileNames
  RootNames <- MCRootNames
  SeasonNames <- MCSeasonNames
  CaseFold <- MCCaseFold
  Spare = {"t1", "t2", "t3", "t4", "t5"}
  Skipping = TRUE
  MaxRuns = 1
  MaxTaken = 0
INVARIANT PathsFollowFolders
CHECK_DEADLOCK FALSE
