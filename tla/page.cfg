SPECIFICATION Spec
CONSTANTS
  t1 = t1
  t2 = t2
  Trackers = {t1, t2}
INVARIANTS
  TypeOK
  SavedJobsUnsent
  JobsFitTheQueue
  UploadsAreChecked
  ResentOnlyAfterFailure
PROPERTIES
  ArchiveUnsent
  ArchiveComplete
  WindowReturns
