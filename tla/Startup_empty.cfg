SPECIFICATION FairSpec
CONSTANTS
  MaxResets = 0
  MaxFailures = 0
  MaxErrors = 1
PROPERTY EmptyTableGetsDefaults
CHECK_DEADLOCK FALSE
