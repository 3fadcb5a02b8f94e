SPECIFICATION Spec
CONSTANTS
  Order <- MCOrder
  Uploader <- MCUploader
  RetryAttempts = 3
  MaxManualRetries = 1
INVARIANTS
  SafeMeansNotLanded
