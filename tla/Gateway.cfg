SPECIFICATION GatewayFairSpec
CONSTANTS
  phone = phone
  tablet = tablet
  old = old
  NoCentral = NoCentral
  Centrals = {phone, tablet}
  MaxQueue = 1
  Images = {old}
  Crashing = {}
  Factory = old
  Chunks = 1
  MaxResets = 1
  MaxAsks = 1
INVARIANTS AdvertisingRemembered AnswerToAsker AwaitedIsLeft
PROPERTIES Served ReachableAgain LogEnds
