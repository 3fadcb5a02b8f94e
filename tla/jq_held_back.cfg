SPECIFICATION Spec
CONSTANTS
  archive = archive
  t1 = t1
  t2 = t2
  Jobs = {archive}
  Archives = {archive}
  Trackers = {t1, t2}
  Searchable = {t1, t2}
  TruthfulUser = TRUE
  Faults = {}
PROPERTIES
  OnlySelectedUploaded
