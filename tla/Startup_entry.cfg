SPECIFICATION FairSpec
CONSTANTS
  MaxResets = 0
  MaxFailures = 0
  MaxErrors = 1
PROPERTY EntryKept
CHECK_DEADLOCK FALSE
