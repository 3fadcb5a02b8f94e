SPECIFICATION Spec
CONSTANTS
  MaxPrompts = 4
  HumanPace = TRUE
INVARIANTS
  TypeOK
  OneQuestion
  NothingLeaks
PROPERTIES
  AnsweredByTheUser
  WorkerResumes
CHECK_DEADLOCK FALSE
