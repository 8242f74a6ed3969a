\* The instance of MCJobSlot.cfg, for the properties it leaves out.
SPECIFICATION FairSpec
CONSTANTS
  Runs = {r1, r2}
  Limit = 1
  TTL = 3
  RenewInterval = 1
  MaxHold = 3
  Skew = 1
  MaxFailures = 2
  None = None
PROPERTIES
  NobodyEvicted
  NoSlotPinned
CHECK_DEADLOCK FALSE
