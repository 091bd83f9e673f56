SPECIFICATION FairSpec
CONSTANTS
  JsonFiles <- MCJsonFiles
  Tables <- MCTables
  Chunks = 2
  MaxFiles = 2
  MaxRows = 2
  MaxErrors = 1
INVARIANTS DamagedWasHit HandlesAccounted
PROPERTIES CallsEnd
