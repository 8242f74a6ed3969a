\* Two claims on clocks one unit apart compete for a slot of TTL 3, renewed
\* every unit, under two failures or crashes: slots come back and claims get
\* in, although no run ever has to end.
SPECIFICATION FairSpec
CONSTANTS
  Runs = {r1, r2}
  Limit = 1
  TTL = 3
  RenewInterval = 1
  MaxHold = 3
  Skew = 1
  MaxFailures = 2
  None = None
INVARIANTS
  TypeOK
  HealthyRunKeepsSlot
PROPERTIES
  WaitingIsAdmitted
  ImplementsPool
CHECK_DEADLOCK FALSE
