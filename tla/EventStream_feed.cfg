SPECIFICATION FairSpec
CHECK_DEADLOCK FALSE
CONSTANTS
  b1 = b1
  Browser = {b1}
  MaxLen = 2
  Page = 2
  Keep = 2
  MaxEvents = 5
  MaxFaults = 2
  MaxResets = 1
INVARIANTS
  TypeOK
  DeliveredOnceInOrder
  NoGapOnceFollowing
PROPERTIES
  StreamCatchesUp
  DisplayCatchesUp
