\* Three claims compete for two slots of TTL 3, renewed every unit, under a
\* failure and with clocks one unit apart.
SPECIFICATION Spec
CONSTANTS
  Runs = {r1, r2, r3}
  Limit = 2
  TTL = 3
  RenewInterval = 1
  MaxHold = 3
  Skew = 1
  MaxFailures = 1
  None = None
SYMMETRY Symmetry
INVARIANTS
  TypeOK
  CoveredWithinLimit
  HealthyRunKeepsSlot
PROPERTIES
  NobodyEvicted
CHECK_DEADLOCK FALSE
