SPECIFICATION Spec
CONSTANTS
  Order <- MCOrder
  Uploader <- MCUploader
  RetryAttempts = 3
  MaxManualRetries = 2
INVARIANTS
  TypeOK
  SafeWithoutRetry
  NoUnwarnedDuplicate
  LandedHonest
  FreshProbe
  AutomaticNeverDuplicates
  QueueResultsCovered
  PageResultsCovered
PROPERTIES
  NeverStuck
