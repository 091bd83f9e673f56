SPECIFICATION FairSpec
CONSTANTS
  MaxResets = 3
  MaxFailures = 3
  MaxErrors = 3
INVARIANT StartedOnReadableTable
PROPERTIES TableLostOnlyToOpenOrFormat ReadableTableStarts
CHECK_DEADLOCK FALSE
