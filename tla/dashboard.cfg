SPECIFICATION Spec
CONSTANTS
  w1 = w1
  w2 = w2
  k1 = k1
  k2 = k2
  k3 = k3
  Workers = {w1, w2}
  Customers = {"ann"}
  Staff = {}
  CarTypes = {"van"}
  Keys = {k1, k2, k3}
  MaxPosts = 3
  MaxNow = 2
  MinDuration = 1
  MaxDuration = 3
  MaxAdvance = 3
  StartGrace = 0
  DaylightSavingAllowance = 0
  FleetSizes = {2}
  Instants <- MCInstants
  Periods <- MCPeriods
  InitialFleets <- OneCar
SYMMETRY Symmetry
INVARIANT TypeOK
INVARIANT MessagesAreTrue
PROPERTY SpentFormsAreReissued
PROPERTY AdviceHolds
