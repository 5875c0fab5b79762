SPECIFICATION AdminSpec
CONSTANTS
  w1 = w1
  w2 = w2
  k1 = k1
  Workers = {w1, w2}
  Customers = {"ann", "sam"}
  Staff = {"sam"}
  Cancellers = {"sam"}
  CarTypes = {"suv", "van"}
  Keys = {k1}
  Instants <- MCInstants
  Periods <- OnePeriod
  InitialFleets <- OneOfEach
  FleetSizes = {}
  LockTimeout = TRUE
  Faults = TRUE
  Stalled = {}
  MaxRequests = 4
  MaxNow = 2
  MinDuration = 1
  MaxDuration = 3
  MaxAdvance = 3
  StartGrace = 0
  DaylightSavingAllowance = 0
SYMMETRY Symmetry
INVARIANT BatchReportIsTrue
PROPERTY HistoryIsKept
PROPERTY KeepsThePromises
