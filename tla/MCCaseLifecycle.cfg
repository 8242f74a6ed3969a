\* Any three calls on two cases, two faults.
SPECIFICATION Spec
CONSTANTS
  Calls = {c1, c2, c3}
  Before = Before
  MaxCases = 2
  Users = {u1}
  Keys = {k1}
  MaxFaults = 2
  None = None
SYMMETRY Symmetry
INVARIANTS
  TypeOK
  DraftUnbound
  OpenHasHome
  AssignmentsKept
  RedeliveryMakesNoCase
CHECK_DEADLOCK FALSE
