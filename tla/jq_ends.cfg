SPECIFICATION Spec
CONSTANTS
  archive = archive
  plain = plain
  t1 = t1
  t2 = t2
  Jobs = {archive, plain}
  Archives = {archive}
  Trackers = {t1, t2}
  Searchable = {t1}
  TruthfulUser = TRUE
  Faults = {"finish", "code"}
INVARIANTS
  PendingUnsent
PROPERTIES
  QueueEnds
