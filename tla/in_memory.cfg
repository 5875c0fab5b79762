SPECIFICATION FairSpec
CONSTANTS
  w1 = w1
  w2 = w2
  w3 = w3
  k1 = k1
  k2 = k2
  Workers = {w1, w2, w3}
  Customers = {"ann"}
  Staff = {}
  CarTypes = {"suv", "van"}
  Keys = {k1, k2}
  Instants <- MCInstants
  Periods <- OnePeriod
  InitialFleets <- MCFleets
  MaxRequests = 3
  MaxNow = 2
  MinDuration = 1
  MaxDuration = 3
  MaxAdvance = 3
  StartGrace = 0
  DaylightSavingAllowance = 0
INVARIANT TypeOK
PROPERTY KeepsThePromises
PROPERTY AllAnswered
