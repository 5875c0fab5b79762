SPECIFICATION Spec
CONSTANTS
  w1 = w1
  w2 = w2
  k1 = k1
  k2 = k2
  Workers = {w1, w2}
  Customers = {"ann"}
  Staff = {}
  CarTypes = {"sedan", "suv", "van"}
  Keys = {k1, k2}
  Instants <- MCInstants
  Periods <- OnePeriod
  InitialTypes <- TwoTypes
  TypeIds = {1, 2, 3}
  FleetSizes = {1, 2}
  MaxRequests = 3
  MaxEdits = 2
SYMMETRY Symmetry
INVARIANT RetryReturnsTheOriginal
