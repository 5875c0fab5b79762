SPECIFICATION Spec
CONSTANTS
  w1 = w1
  w2 = w2
  w3 = w3
  k1 = k1
  k2 = k2
  k3 = k3
  Workers = {w1, w2, w3}
  Customers = {"ann"}
  Staff = {}
  CarTypes = {"suv"}
  Keys = {k1, k2, k3}
  Instants <- MCInstants
  Periods <- SpreadPeriods
  InitialFleets <- Fleet2
  FleetSizes = {1, 2}
  LockTimeout = FALSE
  Faults = FALSE
  Stalled = {}
  MaxRequests = 4
  MaxNow = 0
  MinDuration = 1
  MaxDuration = 3
  MaxAdvance = 3
  StartGrace = 0
  DaylightSavingAllowance = 0
SYMMETRY Symmetry
INVARIANT TypeOK
PROPERTY NeverOverbooks
PROPERTY RefusedOnlyWhenFull
