SPECIFICATION FairSpec
CONSTANTS
  MaxChanges = 8
  MaxFailures = 2
INVARIANTS IdleIsRemembered
PROPERTIES FollowsEveryChange WifiTakesOver EthernetTakesOver
CHECK_DEADLOCK FALSE
