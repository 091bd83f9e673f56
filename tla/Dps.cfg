SPECIFICATION FairSpec
CONSTANTS
  MaxConnects = 3
  MaxDuplicates = 1
  MaxRefusals = 1
  MaxAssigning = 2
INVARIANTS NeverStranded OneConversationEach
PROPERTY GetsProvisioned
CHECK_DEADLOCK FALSE
