SPECIFICATION Spec
CONSTANTS
  Profiles = {"work", "home"}
  Initially <- MCInitially
  MaxEdits = 1
  MaxStarts = 2
INVARIANTS
  TypeOK
  NameFollowsLoad
PROPERTIES
  
  SavedIsOnDisk
CHECK_DEADLOCK FALSE
