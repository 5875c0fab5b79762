SPECIFICATION Spec
CONSTANTS
  w1 = w1
  w2 = w2
  w3 = w3
  k1 = k1
  k2 = k2
  k3 = k3
  Workers = {w1, w2}
  Customers = {"ann"}
  Staff = {}
  CarTypes = {"suv", "van"}
  Keys = {k1}
  Instants <- MCInstants
  Periods <- OnePeriod
  InitialFleets <- Fleet1
  FleetSizes = {}
  LockTimeout = TRUE
  Faults = FALSE
  Stalled = {}
  MaxRequests = 2
  MaxNow = 0
  MinDuration = 1
  MaxDuration = 3
  MaxAdvance = 3
  StartGrace = 0
  DaylightSavingAllowance = 0
INVARIANT ReserveNeverFails
