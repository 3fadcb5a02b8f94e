SPECIFICATION Spec
CONSTANTS
  Profiles = {"work", "home"}
  Initially <- MCInitially
  MaxEdits = 0
  MaxStarts = 1
INVARIANTS
  RefusedIsNotActive
CHECK_DEADLOCK FALSE
